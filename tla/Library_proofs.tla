---------------------------- MODULE Library_proofs ----------------------------
(***************************************************************************)
(* Theorems about Library, for any catalog, any sets of callers, lists,    *)
(* categories, feeds, values and profiles, and any limits.                 *)
(***************************************************************************)
EXTENDS Library, TLAPS, FiniteSetTheorems

----------------------------------------------------------------------------
(* Every edit of the rows, and of the registry, keeps their type.          *)

LEMMA ListEditTypes ==
  ASSUME NEW r \in Library
  PROVE  /\ \A l \in CustomLists, text \in Contents : WithList(r, l, text) \in Library
         /\ \A l \in Lists, s \in Sources, op \in {"disable", "enable"} :
              Switched(r, l, s, op) \in Library
         /\ \A l \in Lists, values \in SUBSET Values, verdict \in Said :
              WithSaid(r, l, values, verdict) \in Library
<1>1. ASSUME NEW l \in CustomLists, NEW text \in Contents PROVE WithList(r, l, text) \in Library
  BY DEF WithList, Library
<1>2. ASSUME NEW l \in Lists, NEW s \in Sources, NEW op \in {"disable", "enable"}
      PROVE  Switched(r, l, s, op) \in Library
  <2>1. r.off \cup {<<l, s>>} \in SUBSET (Lists \X Sources)
        /\ r.off \ {<<l, s>>} \in SUBSET (Lists \X Sources)
    BY DEF Library
  <2> QED
    BY <2>1 DEF Switched, Library
<1>3. ASSUME NEW l \in Lists, NEW values \in SUBSET Values, NEW verdict \in Said
      PROVE  WithSaid(r, l, values, verdict) \in Library
  <2>1. [v \in Values |-> IF v \in values THEN verdict ELSE r.said[l][v]] \in [Values -> Said]
    BY DEF Library
  <2> QED
    BY <2>1 DEF WithSaid, Library
<1> QED
  BY <1>1, <1>2, <1>3

LEMMA FeedEditTypes ==
  ASSUME NEW r \in Library, NEW f \in Feeds, NEW l \in Lists
  PROVE  /\ WithFeed(r, f, l) \in Library
         /\ FeedDeleted(r, f) \in Library
         /\ SwitchesDeleted(r, f) \in Library
         /\ FeedForgotten(r, l, f) \in Library
<1>1. WithFeed(r, f, l) \in Library
  BY DEF WithFeed, Library
<1>2. FeedDeleted(r, f) \in Library
  BY DEF FeedDeleted, Library
<1>3. SwitchesDeleted(r, f) \in Library
  BY DEF SwitchesDeleted, Library
<1>4. FeedForgotten(r, l, f) \in Library
  BY DEF FeedForgotten, Library
<1> QED
  BY <1>1, <1>2, <1>3, <1>4

LEMMA MembershipType ==
  ASSUME NEW c \in Categories, NEW desired \in SUBSET Lists
  PROVE  /\ MembershipRows(c, desired) \in Membership
         /\ \A l \in Lists :
              MembershipRows(c, desired)[l] = IF l \in desired \ Catalog(c) THEN "added"
                                              ELSE IF l \in Catalog(c) \ desired THEN "removed"
                                              ELSE "none"
BY DEF MembershipRows, Membership

LEMMA CategoryEditTypes ==
  ASSUME NEW r \in Library, NEW c \in Categories
  PROVE  /\ \A desired \in SUBSET Lists : WithMembers(r, c, desired) \in Library
         /\ \A desired \in SUBSET Lists : c \in CustomCategories =>
              WithCategory(r, c, desired) \in Library
         /\ CategoryRowsRemoved(r, c) \in Library
         /\ KnownCategory(r, c) => ForgetCategory(r, c) \in Library
<1>1. ASSUME NEW desired \in SUBSET Lists PROVE WithMembers(r, c, desired) \in Library
  BY MembershipType DEF WithMembers, Library
<1>2. ASSUME NEW desired \in SUBSET Lists, c \in CustomCategories
      PROVE  WithCategory(r, c, desired) \in Library
  BY <1>1, <1>2 DEF WithCategory, Library
<1>3. NoMembership \in Membership
  BY DEF NoMembership, Membership
<1>4. CategoryRowsRemoved(r, c) \in Library
  BY <1>3 DEF CategoryRowsRemoved, Library, Shipped
<1>5. ASSUME KnownCategory(r, c) PROVE ForgetCategory(r, c) \in Library
  <2>1. c \notin r.categories => c \in Shipped
    BY <1>5 DEF KnownCategory, Shipped
  <2> QED
    BY <1>3, <2>1 DEF ForgetCategory, Library
<1> QED
  BY <1>1, <1>2, <1>4, <1>5

LEMMA RemovalTypes ==
  ASSUME NEW r \in Library, NEW ls \in SUBSET Lists
  PROVE  ListRowsRemoved(r, ls) \in Library /\ ForgetLists(r, ls) \in Library
<1>1. [l \in CustomLists |-> IF l \in ls THEN NoContent ELSE r.content[l]]
        \in [CustomLists -> Contents \cup {NoContent}]
  BY DEF Library
<1>2. [l \in Lists |-> IF l \in ls THEN NoWords ELSE r.said[l]] \in [Lists -> [Values -> Said]]
  BY DEF Library, NoWords, Said
<1>3. [f \in Feeds |-> IF r.feed[f] \in ls THEN NoList ELSE r.feed[f]] \in [Feeds -> Lists \cup {NoList}]
  BY DEF Library
<1>4. [c \in Categories |-> [l \in Lists |-> IF l \in ls THEN "none" ELSE r.member[c][l]]]
        \in [Categories -> Membership]
  BY DEF Library, Membership
<1>5. ls \ CustomLists \subseteq Shipped /\ ls \cap ShippedLists \subseteq Shipped
  BY DEF Lists, Shipped
<1>6. ListRowsRemoved(r, ls) \in Library
  BY <1>1, <1>2, <1>3, <1>4, <1>5 DEF ListRowsRemoved, Library
<1>7. ForgetLists(r, ls) \in Library
  BY <1>1, <1>2, <1>3, <1>4, <1>5 DEF ForgetLists, Library
<1> QED
  BY <1>6, <1>7

LEMMA UntouchedType == Untouched \in Library
BY DEF Untouched, Library, NoMembership, Membership, NoWords, Said

----------------------------------------------------------------------------
(* Two libraries that agree still agree after the same edit of both.       *)

Agree(r, s) == r \in Library /\ s \in Library /\ SameButTorn(r, s)

LEMMA ListEditsAgree ==
  ASSUME NEW r, NEW s, Agree(r, s)
  PROVE  /\ \A l \in CustomLists, text \in Contents :
              Agree(WithList(r, l, text), WithList(s, l, text))
         /\ \A l \in Lists, x \in Sources, op \in {"disable", "enable"} :
              Agree(Switched(r, l, x, op), Switched(s, l, x, op))
         /\ \A l \in Lists, values \in SUBSET Values, verdict \in Said :
              Agree(WithSaid(r, l, values, verdict), WithSaid(s, l, values, verdict))
         /\ \A f \in Feeds, l \in Lists : Agree(WithFeed(r, f, l), WithFeed(s, f, l))
<1> USE DEF Agree
<1>1. ASSUME NEW l \in CustomLists, NEW text \in Contents
      PROVE  SameButTorn(WithList(r, l, text), WithList(s, l, text))
  BY DEF WithList, SameButTorn, Library
<1>2. ASSUME NEW l \in Lists, NEW x \in Sources, NEW op \in {"disable", "enable"}
      PROVE  SameButTorn(Switched(r, l, x, op), Switched(s, l, x, op))
  BY DEF Switched, SameButTorn, Library
<1>3. ASSUME NEW l \in Lists, NEW values \in SUBSET Values, NEW verdict \in Said
      PROVE  SameButTorn(WithSaid(r, l, values, verdict), WithSaid(s, l, values, verdict))
  BY DEF WithSaid, SameButTorn, Library
<1>4. ASSUME NEW f \in Feeds, NEW l \in Lists
      PROVE  SameButTorn(WithFeed(r, f, l), WithFeed(s, f, l))
  <2>1. \A g \in Feeds : /\ WithFeed(r, f, l).feed[g] = (IF g = f THEN l ELSE r.feed[g])
                         /\ WithFeed(s, f, l).feed[g] = (IF g = f THEN l ELSE s.feed[g])
    BY DEF WithFeed, Library
  <2> QED
    BY <2>1 DEF WithFeed, SameButTorn, Library
<1> QED
  BY <1>1, <1>2, <1>3, <1>4, ListEditTypes, FeedEditTypes

LEMMA MembersAgree ==
  ASSUME NEW r, NEW s, Agree(r, s), NEW c \in Categories, NEW desired \in SUBSET Lists
  PROVE  /\ Agree(WithMembers(r, c, desired), WithMembers(s, c, desired))
         /\ c \in CustomCategories =>
              Agree(WithCategory(r, c, desired), WithCategory(s, c, desired))
<1>1. SameButTorn(WithMembers(r, c, desired), WithMembers(s, c, desired))
  BY DEF Agree, WithMembers, SameButTorn, Library
<1>2. SameButTorn(WithCategory(r, c, desired), WithCategory(s, c, desired))
  BY DEF Agree, WithCategory, WithMembers, SameButTorn, Library
<1> QED
  BY <1>1, <1>2, CategoryEditTypes DEF Agree

(* The store and the registry remove by different statements.              *)
LEMMA ListRemovalsAgree ==
  ASSUME NEW r, NEW s, Agree(r, s), NEW ls \in SUBSET Lists
  PROVE  Agree(ForgetLists(r, ls), ListRowsRemoved(s, ls))
<1> DEFINE a == ForgetLists(r, ls)
           b == ListRowsRemoved(s, ls)
<1> USE DEF Agree, SameButTorn
<1>1. ls \ CustomLists = ls \cap ShippedLists
  BY KindsAssumption DEF Lists
<1>2. r.off \ (ls \X Sources) = { x \in s.off : x[1] \notin ls }
  <2>1. r.off = s.off /\ s.off \subseteq Lists \X Sources
    BY DEF Library
  <2>2. ASSUME NEW x \in s.off PROVE x \in ls \X Sources <=> x[1] \in ls
    BY <2>1
  <2> QED
    BY <2>1, <2>2
<1>3. a.content = b.content /\ a.categories = b.categories /\ a.removed = b.removed
  BY <1>1 DEF ForgetLists, ListRowsRemoved, Library
<1>4. a.member = b.member /\ a.off = b.off /\ a.said = b.said
  BY <1>2 DEF ForgetLists, ListRowsRemoved, Library
<1>5. ASSUME NEW f \in Feeds
      PROVE  /\ a.feed[f] = (IF r.feed[f] \in ls THEN NoList ELSE r.feed[f])
             /\ b.feed[f] = (IF s.feed[f] \in ls THEN NoList ELSE s.feed[f])
  BY DEF ForgetLists, ListRowsRemoved, Library
<1>6. \A f \in Feeds : a.feed[f] = b.feed[f] \/ (f \in torn /\ b.feed[f] = NoList)
  BY <1>5
<1>7. a \in Library /\ b \in Library
  BY RemovalTypes
<1> HIDE DEF a, b
<1>8. SameButTorn(a, b)
  BY <1>3, <1>4, <1>6
<1> QED
  BY <1>7, <1>8 DEF a, b

LEMMA CategoryRemovalsAgree ==
  ASSUME NEW r, NEW s, Agree(r, s), NEW c \in Categories, KnownCategory(r, c),
         r.categories \subseteq CustomCategories
  PROVE  Agree(ForgetCategory(r, c), CategoryRowsRemoved(s, c))
<1>1. c \in r.categories <=> c \notin ShippedCategories
  BY KindsAssumption DEF KnownCategory, Categories
<1>2. c \in Shipped <=> c \in ShippedCategories
  BY KindsAssumption DEF Shipped, Lists, Categories
<1>3. SameButTorn(ForgetCategory(r, c), CategoryRowsRemoved(s, c))
  BY <1>1, <1>2 DEF Agree, SameButTorn, ForgetCategory, CategoryRowsRemoved, Library
<1> QED
  BY <1>3, CategoryEditTypes DEF Agree

(* A feed is removed by its identity from the one and by its list and      *)
(* identity from the other.                                                *)
LEMMA FeedRemovalsAgree ==
  ASSUME NEW r, NEW s, Agree(r, s), NEW f \in Feeds, NEW l \in Lists,
         s.feed[f] = l, \A k \in Lists : <<k, f>> \in s.off => k = l
  PROVE  Agree(FeedForgotten(r, l, f), SwitchesDeleted(FeedDeleted(s, f), f))
<1> DEFINE a == FeedForgotten(r, l, f)
           b == SwitchesDeleted(FeedDeleted(s, f), f)
<1> USE DEF Agree, SameButTorn
<1>1. r.feed[f] = l
  BY NothingAssumption
<1>2. r.off \ {<<l, f>>} = { x \in s.off : x[2] # f }
  <2>1. r.off = s.off /\ s.off \subseteq Lists \X Sources
    BY DEF Library
  <2>2. ASSUME NEW x \in s.off PROVE x = <<l, f>> <=> x[2] = f
    <3>1. PICK k \in Lists, y \in Sources : x = <<k, y>>
      BY <2>1
    <3> QED
      BY <3>1
  <2> QED
    BY <2>1, <2>2
<1>3. /\ a.content = b.content /\ a.categories = b.categories /\ a.removed = b.removed
      /\ a.member = b.member /\ a.off = b.off /\ a.said = b.said
  BY <1>2 DEF FeedForgotten, FeedDeleted, SwitchesDeleted, Library
<1>4. ASSUME NEW g \in Feeds
      PROVE  /\ a.feed[g] = (IF g = f THEN NoList ELSE r.feed[g])
             /\ b.feed[g] = (IF g = f THEN NoList ELSE s.feed[g])
  BY <1>1 DEF FeedForgotten, FeedDeleted, SwitchesDeleted, Library
<1>5. a \in Library /\ b \in Library
  BY FeedEditTypes
<1> HIDE DEF a, b
<1>6. SameButTorn(a, b)
  BY <1>3, <1>4
<1> QED
  BY <1>5, <1>6 DEF a, b

----------------------------------------------------------------------------
(* What an edit does to what the library holds.                            *)

Holds(r, ls, cs) == KnownLists(r) = ls /\ KnownCategories(r) = cs

(* Tuning changes neither lists nor categories nor memberships.            *)
LEMMA TuningHolds ==
  ASSUME NEW r \in Library, NEW s \in Library,
         r.content = s.content, r.categories = s.categories, r.removed = s.removed
  PROVE  Holds(s, KnownLists(r), KnownCategories(r))
BY DEF Holds, KnownLists, KnownList, KnownCategories, KnownCategory

LEMMA TuningKeeps ==
  ASSUME NEW r \in Library
  PROVE  LET Same(s) == /\ r.content = s.content /\ r.categories = s.categories
                        /\ r.removed = s.removed /\ r.member = s.member
         IN  /\ \A l \in Lists, x \in Sources, op \in {"disable", "enable"} : Same(Switched(r, l, x, op))
             /\ \A l \in Lists, values \in SUBSET Values, verdict \in Said :
                  Same(WithSaid(r, l, values, verdict))
             /\ \A f \in Feeds, l \in Lists : Same(WithFeed(r, f, l))
             /\ \A f \in Feeds : Same(FeedDeleted(r, f)) /\ Same(SwitchesDeleted(FeedDeleted(r, f), f))
BY DEF Switched, WithSaid, WithFeed, FeedDeleted, SwitchesDeleted, Library

LEMMA ListHolds ==
  ASSUME NEW r \in Library, NEW l \in CustomLists, NEW text \in Contents
  PROVE  /\ Holds(WithList(r, l, text), KnownLists(r) \cup {l}, KnownCategories(r))
         /\ WithList(r, l, text).member = r.member
<1> DEFINE s == WithList(r, l, text)
<1>1. /\ s.removed = r.removed /\ s.categories = r.categories /\ s.member = r.member
      /\ \A k \in CustomLists : s.content[k] = IF k = l THEN text ELSE r.content[k]
  BY DEF WithList, Library
<1>2. text # NoContent /\ l \in Lists /\ l \notin ShippedLists
  BY KindsAssumption, NothingAssumption DEF Lists
<1>3. ASSUME NEW k \in Lists PROVE KnownList(s, k) <=> KnownList(r, k) \/ k = l
  BY <1>1, <1>2 DEF KnownList, Lists
<1>4. KnownLists(s) = KnownLists(r) \cup {l}
  BY <1>2, <1>3 DEF KnownLists
<1>5. KnownCategories(s) = KnownCategories(r)
  BY <1>1 DEF KnownCategories, KnownCategory
<1> QED
  BY <1>1, <1>4, <1>5 DEF Holds

LEMMA MembersHold ==
  ASSUME NEW r \in Library, NEW c \in Categories, NEW desired \in SUBSET Lists
  PROVE  /\ Holds(WithMembers(r, c, desired), KnownLists(r), KnownCategories(r))
         /\ c \in CustomCategories =>
              Holds(WithCategory(r, c, desired), KnownLists(r), KnownCategories(r) \cup {c})
         /\ WithMembers(r, c, desired).member = [r.member EXCEPT ![c] = MembershipRows(c, desired)]
         /\ WithCategory(r, c, desired).member = [r.member EXCEPT ![c] = MembershipRows(c, desired)]
<1> DEFINE s == WithMembers(r, c, desired)
           t == WithCategory(r, c, desired)
<1>1. /\ s.removed = r.removed /\ s.categories = r.categories /\ s.content = r.content
      /\ t.removed = r.removed /\ t.categories = r.categories \cup {c} /\ t.content = r.content
      /\ s.member = [r.member EXCEPT ![c] = MembershipRows(c, desired)]
      /\ t.member = [r.member EXCEPT ![c] = MembershipRows(c, desired)]
  BY DEF WithMembers, WithCategory, Library
<1>2. KnownLists(s) = KnownLists(r) /\ KnownLists(t) = KnownLists(r)
  BY <1>1 DEF KnownLists, KnownList
<1>3. KnownCategories(s) = KnownCategories(r)
  BY <1>1 DEF KnownCategories, KnownCategory
<1>4. c \in CustomCategories => KnownCategories(t) = KnownCategories(r) \cup {c}
  BY <1>1, KindsAssumption DEF KnownCategories, KnownCategory, Categories
<1> QED
  BY <1>1, <1>2, <1>3, <1>4 DEF Holds

LEMMA ListRemovalHolds ==
  ASSUME NEW r \in Library, NEW ls \in SUBSET Lists
  PROVE  LET s == ListRowsRemoved(r, ls)
         IN  /\ Holds(s, KnownLists(r) \ ls, KnownCategories(r))
             /\ \A c \in Categories, l \in Lists :
                  s.member[c][l] = IF l \in ls THEN "none" ELSE r.member[c][l]
<1> DEFINE s == ListRowsRemoved(r, ls)
<1>1. /\ s.categories = r.categories /\ s.removed = r.removed \cup (ls \cap ShippedLists)
      /\ \A k \in CustomLists : s.content[k] = IF k \in ls THEN NoContent ELSE r.content[k]
      /\ \A c \in Categories, l \in Lists :
           s.member[c][l] = IF l \in ls THEN "none" ELSE r.member[c][l]
  BY DEF ListRowsRemoved, Library
<1>2. \A k \in Lists : KnownList(s, k) <=> KnownList(r, k) /\ k \notin ls
  BY <1>1, KindsAssumption DEF KnownList, Lists
<1>3. KnownLists(s) = KnownLists(r) \ ls
  BY <1>2 DEF KnownLists
<1>4. KnownCategories(s) = KnownCategories(r)
  BY <1>1, KindsAssumption DEF KnownCategories, KnownCategory, Lists, Categories
<1> QED
  BY <1>1, <1>3, <1>4 DEF Holds

LEMMA CategoryRemovalHolds ==
  ASSUME NEW r \in Library, NEW c \in Categories
  PROVE  LET s == CategoryRowsRemoved(r, c)
         IN  /\ Holds(s, KnownLists(r), KnownCategories(r) \ {c})
             /\ s.member = [r.member EXCEPT ![c] = NoMembership]
<1> DEFINE s == CategoryRowsRemoved(r, c)
<1>1. /\ s.categories = r.categories \ {c} /\ s.content = r.content
      /\ s.removed = r.removed \cup ({c} \cap ShippedCategories)
      /\ s.member = [r.member EXCEPT ![c] = NoMembership]
  BY DEF CategoryRowsRemoved, Library
<1>2. KnownLists(s) = KnownLists(r)
  BY <1>1, KindsAssumption DEF KnownLists, KnownList, Lists, Categories
<1>3. KnownCategories(s) = KnownCategories(r) \ {c}
  BY <1>1, KindsAssumption DEF KnownCategories, KnownCategory, Categories
<1> QED
  BY <1>1, <1>2, <1>3 DEF Holds

LEMMA AgreeingHold ==
  ASSUME NEW r, NEW s, Agree(r, s)
  PROVE  Holds(r, KnownLists(s), KnownCategories(s)) /\ \A c \in Categories : Merged(r, c) = Merged(s, c)
<1>1. r.content = s.content /\ r.categories = s.categories /\ r.removed = s.removed /\ r.member = s.member
  BY DEF Agree, SameButTorn
<1>2. KnownLists(r) = KnownLists(s) /\ KnownCategories(r) = KnownCategories(s)
  BY <1>1 DEF KnownLists, KnownList, KnownCategories, KnownCategory
<1> QED
  BY <1>1, <1>2 DEF Holds, Merged

----------------------------------------------------------------------------
(* Requests: what a step does to those that wait.                          *)

LEMMA RequestType ==
  /\ NoRequest \in Request
  /\ \A req \in Request : req.list \in Lists \cup {NoList} /\ req.source \in Sources \cup {NoSource}
BY DEF NoRequest, Request, Said

(* None is added: those that wait did so before, or are gone.              *)
Quiet == \A a \in Callers : request'[a] \in {request[a], NoRequest}

LEMMA ServedIsQuiet ==
  ASSUME TypeOK, NEW a \in Callers, request' = [request EXCEPT ![a] = NoRequest]
  PROVE  Quiet /\ request' \in [Callers -> Request]
BY RequestType DEF Quiet, TypeOK

LEMMA QuietRequests ==
  ASSUME TypeOK, RequestsMakeSense, Quiet
  PROVE  /\ RequestsMakeSense'
         /\ \A a \in Callers, s \in Sources, l \in Lists :
              request'[a].source = s /\ request'[a].list = l
                => request[a].source = s /\ request[a].list = l
<1>1. NoRequest.op = "none" /\ NoRequest.list = NoList
  BY DEF NoRequest
<1>2. ASSUME NEW a \in Callers, NEW s \in Sources, NEW l \in Lists,
             request'[a].source = s, request'[a].list = l
      PROVE  request[a].source = s /\ request[a].list = l
  BY <1>1, <1>2, NothingAssumption DEF Quiet
<1>3. RequestsMakeSense'
  BY <1>1 DEF RequestsMakeSense, Quiet
<1> QED
  BY <1>2, <1>3

(* A step that gives no feed another list keeps FeedsHaveOneList.          *)
LEMMA FeedNamesKept ==
  ASSUME TypeOK, RequestsMakeSense, FeedsHaveOneList, Quiet, issued \subseteq issued',
         \A f \in Feeds, l \in Lists :
           rows'.feed[f] = l \/ registry'.feed[f] = l \/ Upcoming'.feed[f] = l \/ <<l, f>> \in rows'.off
             => l \in FeedNames(f)
  PROVE  FeedsHaveOneList'
<1>1. ASSUME NEW f \in Feeds PROVE FeedNames(f)' \subseteq FeedNames(f)
  BY QuietRequests DEF FeedNames, Sources
<1> QED
  BY <1>1 DEF FeedsHaveOneList

(* The lock is free: the registry is what the rows say.                    *)
LEMMA UnlockedAgree ==
  ASSUME IInv, Unlocked
  PROVE  /\ Upcoming = registry /\ Agree(registry, rows)
         /\ Holds(registry, KnownLists(rows), KnownCategories(rows))
         /\ \A c \in Categories : Merged(registry, c) = Merged(rows, c)
<1>1. Upcoming = registry /\ Agree(registry, rows)
  BY DEF IInv, TypeOK, MemoryFollows, Unlocked, Upcoming, Agree
<1> QED
  BY <1>1, AgreeingHold

(* A writer that commits leaves an agreeing registry to come.              *)
LEMMA CommitStep ==
  ASSUME IInv, NEW stored, NEW known, Commit(stored, known), Agree(known, stored),
         UNCHANGED <<registry, torn>>
  PROVE  /\ MemoryFollows' /\ Upcoming' = known /\ rows' = stored
         /\ rows' \in Library /\ registry' \in Library /\ coming' \in Library \cup {Free}
         /\ torn' \subseteq Feeds
<1>1. known # Free
  BY FreeAssumption DEF Agree
<1>2. Upcoming' = known /\ rows' = stored /\ coming' = known
  BY <1>1 DEF Commit, Upcoming
<1>3. SameButTorn(known, stored)'
  BY DEF Agree, SameButTorn
<1> QED
  BY <1>2, <1>3 DEF Agree, MemoryFollows, IInv, TypeOK, SameButTorn

(* Names stay good while nothing is removed.                               *)
LEMMA NamesKept ==
  ASSUME NamesExist, UNCHANGED profile,
         KnownLists(rows) \subseteq KnownLists(rows'),
         KnownCategories(rows) \subseteq KnownCategories(rows')
  PROVE  NamesExist'
BY DEF NamesExist

LEMMA AddedKept ==
  ASSUME AddedMembersExist, rows'.member = rows.member,
         KnownLists(rows) \subseteq KnownLists(rows'),
         KnownCategories(rows) \subseteq KnownCategories(rows')
  PROVE  AddedMembersExist'
BY DEF AddedMembersExist

----------------------------------------------------------------------------
(* The requests.                                                           *)

LEMMA AskStep ==
  ASSUME IInv, NEW a \in Callers, NEW req \in Request, Ask(a, req),
         /\ req.op \in {"create list", "update list"} => req.content \in Contents
         /\ req.op = "update list" => req.list \in CustomLists
         /\ req.op \in {"disable", "enable", "add feed", "remove feed", "say"} => req.list \in Lists
         /\ req.op \in {"disable", "enable"} => req.source \in Sources
         /\ req.op = "remove feed" => req.source \in Feeds,
         req.source \in Feeds /\ req.list \in Lists => registry.feed[req.source] = req.list
  PROVE  IInv'
<1> USE DEF IInv, Ask
<1>1. TypeOK'
  BY DEF TypeOK
<1>2. \A b \in Callers : request'[b] = IF b = a THEN req ELSE request[b]
  BY DEF TypeOK
<1>3. RequestsMakeSense'
  BY <1>2 DEF RequestsMakeSense
<1>4. ASSUME NEW f \in Feeds PROVE FeedNames(f)' \subseteq FeedNames(f)
  BY <1>2 DEF FeedNames, Upcoming
<1>5. FeedsHaveOneList'
  BY <1>4 DEF FeedsHaveOneList
<1>6. MemoryFollows' /\ NamesExist' /\ AddedMembersExist' /\ IdentitiesAreIssued'
  BY DEF MemoryFollows, Upcoming, SameButTorn, NamesExist, AddedMembersExist, IdentitiesAreIssued
<1> QED
  BY <1>1, <1>3, <1>5, <1>6

LEMMA AskNextStep ==
  ASSUME IInv, NEW a \in Callers, AskNext(a)
  PROVE  IInv'
<1>0. registry \in Library /\ NoRequest \in Request
  BY RequestType DEF IInv, TypeOK
<1>1. ASSUME NEW text \in Contents, AskCreateCustomList(a, text) PROVE IInv'
  <2>1. [NoRequest EXCEPT !.op = "create list", !.content = text] \in Request
    BY <1>0 DEF Request
  <2> QED
    BY <1>1, <2>1, AskStep, NothingAssumption DEF AskCreateCustomList, NoRequest
<1>2. ASSUME NEW text \in Contents, NEW l \in CustomLists, AskUpdateCustomList(a, l, text) PROVE IInv'
  <2>1. [NoRequest EXCEPT !.op = "update list", !.list = l, !.content = text] \in Request
    BY <1>0 DEF Request, Lists
  <2> QED
    BY <1>2, <2>1, AskStep, NothingAssumption DEF AskUpdateCustomList, NoRequest, Sources
<1>3. ASSUME NEW l \in Lists, AskAddListSource(a, l) PROVE IInv'
  <2>1. [NoRequest EXCEPT !.op = "add feed", !.list = l] \in Request
    BY <1>0 DEF Request
  <2> QED
    BY <1>3, <2>1, AskStep, NothingAssumption DEF AskAddListSource, NoRequest, Sources
<1>4. ASSUME NEW l \in Lists, NEW f \in Feeds, AskRemoveListSource(a, l, f) PROVE IInv'
  <2>1. [NoRequest EXCEPT !.op = "remove feed", !.list = l, !.source = f] \in Request
    BY <1>0 DEF Request, Sources
  <2> QED
    BY <1>4, <2>1, AskStep DEF AskRemoveListSource, NoRequest, FeedsOf
<1>5. ASSUME NEW l \in Lists, NEW s \in Sources, NEW switch \in {"disable", "enable"},
             AskSetListSourceEnabled(a, l, s, switch)
      PROVE  IInv'
  <2>1. [NoRequest EXCEPT !.op = switch, !.list = l, !.source = s] \in Request
    BY <1>0 DEF Request
  <2>2. s \in Feeds => registry.feed[s] = l
    BY <1>5, KindsAssumption, CatalogAssumption
    DEF AskSetListSourceEnabled, SourceKnown, SourcesOf, FeedsOf
  <2> QED
    BY <1>5, <2>1, <2>2, AskStep DEF AskSetListSourceEnabled, NoRequest
<1>6. ASSUME NEW l \in Lists, NEW values \in SUBSET Values, NEW verdict \in Said,
             AskSetListValues(a, l, values, verdict)
      PROVE  IInv'
  <2>1. [NoRequest EXCEPT !.op = "say", !.list = l, !.values = values, !.said = verdict] \in Request
    BY <1>0 DEF Request
  <2> QED
    BY <1>6, <2>1, AskStep, NothingAssumption DEF AskSetListValues, NoRequest, Sources
<1> QED
  BY <1>1, <1>2, <1>3, <1>4, <1>5, <1>6 DEF AskNext

----------------------------------------------------------------------------
(* The requests are served.                                                *)

(* What every served commit shares: what is left to show is about its own  *)
(* rows.                                                                   *)
LEMMA ServedStep ==
  ASSUME IInv, NEW a \in Callers, request' = [request EXCEPT ![a] = NoRequest],
         NEW stored, NEW known, Commit(stored, known), Agree(known, stored),
         UNCHANGED <<registry, profile, torn>>, issued \subseteq issued', issued' \subseteq Issuable
  PROVE  /\ TypeOK' /\ RequestsMakeSense' /\ MemoryFollows' /\ Quiet
         /\ rows' = stored /\ Upcoming' = known
<1>1. MemoryFollows' /\ Upcoming' = known /\ rows' = stored
      /\ rows' \in Library /\ registry' \in Library /\ coming' \in Library \cup {Free}
      /\ torn' \subseteq Feeds
  BY CommitStep
<1>2. Quiet /\ request' \in [Callers -> Request]
  BY ServedIsQuiet DEF IInv
<1>3. RequestsMakeSense'
  BY <1>2, QuietRequests DEF IInv
<1>4. TypeOK'
  BY <1>1, <1>2 DEF IInv, TypeOK
<1> QED
  BY <1>1, <1>2, <1>3, <1>4

(* A commit whose rows hold no less, and whose feeds are as before.        *)
LEMMA EditStep ==
  ASSUME IInv, TypeOK', RequestsMakeSense', MemoryFollows', Quiet,
         UNCHANGED <<registry, profile>>, issued \subseteq issued',
         rows'.member = rows.member,
         KnownLists(rows) \subseteq KnownLists(rows'),
         KnownCategories(rows) \subseteq KnownCategories(rows'),
         \A f \in Feeds, l \in Lists :
           rows'.feed[f] = l \/ Upcoming'.feed[f] = l \/ <<l, f>> \in rows'.off => l \in FeedNames(f),
         IdentitiesAreIssued'
  PROVE  IInv'
<1>1. NamesExist' /\ AddedMembersExist'
  BY NamesKept, AddedKept DEF IInv
<1>2. \A f \in Feeds, l \in Lists : registry'.feed[f] = l => l \in FeedNames(f)
  BY DEF FeedNames
<1>3. FeedsHaveOneList'
  BY <1>2, FeedNamesKept DEF IInv
<1> QED
  BY <1>1, <1>3 DEF IInv

LEMMA NamesOfFeeds ==
  \A f \in Feeds, l \in Lists :
    rows.feed[f] = l \/ Upcoming.feed[f] = l \/ <<l, f>> \in rows.off => l \in FeedNames(f)
BY DEF FeedNames

LEMMA CreateListStep ==
  ASSUME IInv, NEW a \in Callers, CreateCustomList(a)
  PROVE  IInv'
<1>1. Unlocked /\ Agree(registry, rows) /\ Upcoming = registry
  BY UnlockedAgree DEF CreateCustomList, Commit
<1>2. request[a].content \in Contents
  BY DEF IInv, RequestsMakeSense, CreateCustomList, Serve
<1>3. PICK l \in CustomLists \ issued :
        /\ Commit(WithList(rows, l, request[a].content), WithList(registry, l, request[a].content))
        /\ issued' = issued \cup {l}
  BY DEF CreateCustomList
<1> DEFINE stored == WithList(rows, l, request[a].content)
           known == WithList(registry, l, request[a].content)
<1>4. Agree(known, stored) /\ rows \in Library /\ registry \in Library
  BY <1>1, <1>2, ListEditsAgree DEF Agree
<1>5. issued' \subseteq Issuable
  BY <1>3 DEF IInv, TypeOK, Issuable
<1>6. /\ TypeOK' /\ RequestsMakeSense' /\ MemoryFollows' /\ Quiet
      /\ rows' = stored /\ Upcoming' = known
  BY <1>3, <1>4, <1>5, ServedStep DEF CreateCustomList, Serve
<1>7. /\ stored.feed = rows.feed /\ stored.off = rows.off /\ known.feed = registry.feed
      /\ stored.categories = rows.categories
      /\ \A k \in CustomLists : k # l => stored.content[k] = rows.content[k]
  BY <1>4 DEF WithList, Library
<1>8. /\ rows'.member = rows.member /\ KnownLists(rows) \subseteq KnownLists(rows')
      /\ KnownCategories(rows) \subseteq KnownCategories(rows')
  BY <1>2, <1>4, <1>6, ListHolds DEF Holds
<1>9. IdentitiesAreIssued'
  BY <1>3, <1>6, <1>7 DEF IInv, IdentitiesAreIssued
<1> QED
  BY <1>1, <1>3, <1>6, <1>7, <1>8, <1>9, NamesOfFeeds, EditStep DEF CreateCustomList

LEMMA UpdateListStep ==
  ASSUME IInv, NEW a \in Callers, UpdateCustomList(a)
  PROVE  IInv'
<1> DEFINE l == request[a].list
           stored == WithList(rows, l, request[a].content)
           known == WithList(registry, l, request[a].content)
<1>1. Unlocked /\ Agree(registry, rows) /\ Upcoming = registry
  BY UnlockedAgree DEF UpdateCustomList, Commit
<1>2. request[a].content \in Contents /\ l \in CustomLists
  BY DEF IInv, RequestsMakeSense, UpdateCustomList, Serve
<1>4. Agree(known, stored) /\ rows \in Library /\ registry \in Library
  BY <1>1, <1>2, ListEditsAgree DEF Agree
<1>6. /\ TypeOK' /\ RequestsMakeSense' /\ MemoryFollows' /\ Quiet
      /\ rows' = stored /\ Upcoming' = known
  BY <1>4, ServedStep DEF UpdateCustomList, Serve, IInv, TypeOK
<1>7. /\ stored.feed = rows.feed /\ stored.off = rows.off /\ known.feed = registry.feed
      /\ stored.categories = rows.categories
      /\ \A k \in CustomLists : k # l => stored.content[k] = rows.content[k]
  BY <1>4 DEF WithList, Library
<1>8. /\ rows'.member = rows.member /\ KnownLists(rows) \subseteq KnownLists(rows')
      /\ KnownCategories(rows) \subseteq KnownCategories(rows')
  BY <1>2, <1>4, <1>6, ListHolds DEF Holds
<1>9. IdentitiesAreIssued'
  BY <1>6, <1>7 DEF IInv, IdentitiesAreIssued, UpdateCustomList
<1> QED
  BY <1>1, <1>6, <1>7, <1>8, <1>9, NamesOfFeeds, EditStep DEF UpdateCustomList

(* What tunes a list leaves lists, categories and memberships alone.       *)
LEMMA TuneStep ==
  ASSUME IInv, TypeOK', RequestsMakeSense', MemoryFollows', Quiet,
         UNCHANGED <<registry, profile>>, issued \subseteq issued',
         rows'.content = rows.content, rows'.categories = rows.categories,
         rows'.removed = rows.removed, rows'.member = rows.member,
         \A f \in Feeds, l \in Lists :
           rows'.feed[f] = l \/ Upcoming'.feed[f] = l \/ <<l, f>> \in rows'.off => l \in FeedNames(f)
  PROVE  IInv'
<1>1. rows \in Library /\ rows' \in Library
  BY DEF IInv, TypeOK
<1>2. KnownLists(rows') = KnownLists(rows) /\ KnownCategories(rows') = KnownCategories(rows)
  BY <1>1, TuningHolds DEF Holds
<1>3. IdentitiesAreIssued'
  BY DEF IInv, IdentitiesAreIssued
<1> QED
  BY <1>2, <1>3, EditStep

LEMMA SwitchStep ==
  ASSUME IInv, NEW a \in Callers, SetListSourceEnabled(a)
  PROVE  IInv'
<1> DEFINE l == request[a].list
           s == request[a].source
           op == request[a].op
           stored == Switched(rows, l, s, op)
           known == Switched(registry, l, s, op)
<1>1. Unlocked /\ Agree(registry, rows) /\ Upcoming = registry
  BY UnlockedAgree DEF SetListSourceEnabled, Commit
<1>2. l \in Lists /\ s \in Sources /\ op \in {"disable", "enable"}
  BY DEF IInv, RequestsMakeSense, SetListSourceEnabled
<1>4. Agree(known, stored) /\ rows \in Library /\ registry \in Library
  BY <1>1, <1>2, ListEditsAgree DEF Agree
<1>6. /\ TypeOK' /\ RequestsMakeSense' /\ MemoryFollows' /\ Quiet
      /\ rows' = stored /\ Upcoming' = known
  BY <1>4, ServedStep DEF SetListSourceEnabled, Serve, IInv, TypeOK
<1>7. /\ stored.feed = rows.feed /\ known.feed = registry.feed
      /\ stored.off \subseteq rows.off \cup {<<l, s>>}
  BY <1>4 DEF Switched, Library
<1>8. s \in Feeds => l \in FeedNames(s)
  BY <1>2 DEF FeedNames
<1>9. \A f \in Feeds, k \in Lists :
        rows'.feed[f] = k \/ Upcoming'.feed[f] = k \/ <<k, f>> \in rows'.off => k \in FeedNames(f)
  BY <1>1, <1>6, <1>7, <1>8, NamesOfFeeds
<1> QED
  BY <1>2, <1>4, <1>6, <1>9, TuningKeeps, TuneStep DEF SetListSourceEnabled

LEMMA SayStep ==
  ASSUME IInv, NEW a \in Callers, SetListValues(a)
  PROVE  IInv'
<1> DEFINE req == request[a]
           stored == WithSaid(rows, req.list, req.values, req.said)
           known == WithSaid(registry, req.list, req.values, req.said)
<1>1. Unlocked /\ Agree(registry, rows) /\ Upcoming = registry
  BY UnlockedAgree DEF SetListValues, Commit
<1>2. req.list \in Lists /\ req.values \in SUBSET Values /\ req.said \in Said
  BY DEF IInv, TypeOK, Request, RequestsMakeSense, SetListValues, Serve
<1>4. Agree(known, stored) /\ rows \in Library /\ registry \in Library
  BY <1>1, <1>2, ListEditsAgree DEF Agree
<1>6. /\ TypeOK' /\ RequestsMakeSense' /\ MemoryFollows' /\ Quiet
      /\ rows' = stored /\ Upcoming' = known
  BY <1>4, ServedStep DEF SetListValues, Serve, IInv, TypeOK
<1>7. stored.feed = rows.feed /\ known.feed = registry.feed /\ stored.off = rows.off
  BY <1>4 DEF WithSaid, Library
<1>9. \A f \in Feeds, k \in Lists :
        rows'.feed[f] = k \/ Upcoming'.feed[f] = k \/ <<k, f>> \in rows'.off => k \in FeedNames(f)
  BY <1>1, <1>6, <1>7, NamesOfFeeds
<1> QED
  BY <1>2, <1>4, <1>6, <1>9, TuningKeeps, TuneStep DEF SetListValues

(* A new feed has an identity nobody knows yet.                            *)
LEMMA AddFeedStep ==
  ASSUME IInv, NEW a \in Callers, AddListSource(a)
  PROVE  IInv'
<1> DEFINE l == request[a].list
<1>1. Unlocked /\ Agree(registry, rows) /\ Upcoming = registry
  BY UnlockedAgree DEF AddListSource, Commit
<1>2. l \in Lists
  BY DEF IInv, RequestsMakeSense, AddListSource, Serve
<1>3. PICK f \in Feeds \ issued :
        Commit(WithFeed(rows, f, l), WithFeed(registry, f, l)) /\ issued' = issued \cup {f}
  BY DEF AddListSource
<1> DEFINE stored == WithFeed(rows, f, l)
           known == WithFeed(registry, f, l)
<1>4. Agree(known, stored) /\ rows \in Library /\ registry \in Library
  BY <1>1, <1>2, ListEditsAgree DEF Agree
<1>5. issued' \subseteq Issuable
  BY <1>3 DEF IInv, TypeOK, Issuable
<1>6. /\ TypeOK' /\ RequestsMakeSense' /\ MemoryFollows' /\ Quiet
      /\ rows' = stored /\ Upcoming' = known
  BY <1>3, <1>4, <1>5, ServedStep DEF AddListSource, Serve
<1>7. /\ stored.content = rows.content /\ stored.categories = rows.categories
      /\ stored.removed = rows.removed /\ stored.member = rows.member /\ stored.off = rows.off
  BY <1>2, <1>4, TuningKeeps DEF WithFeed, Library
<1>8. \A g \in Feeds : /\ stored.feed[g] = (IF g = f THEN l ELSE rows.feed[g])
                       /\ known.feed[g] = (IF g = f THEN l ELSE registry.feed[g])
  BY <1>4 DEF WithFeed, Library
<1>9. FeedsHaveOneList'
  <2>1. FeedNames(f) = {}
    BY <1>3 DEF IInv, FeedsHaveOneList
  <2>2. ASSUME NEW g \in Feeds, NEW k \in FeedNames(g)'
        PROVE  k \in FeedNames(g) \/ (g = f /\ k = l)
    <3>1. k \in Lists /\ g \in Sources
      BY <2>2 DEF FeedNames, Sources
    <3>2. CASE \E b \in Callers : request'[b].source = g /\ request'[b].list = k
      BY <1>6, <3>1, <3>2, QuietRequests DEF IInv, FeedNames
    <3>3. CASE registry'.feed[g] = k
      BY <3>1, <3>3 DEF FeedNames, AddListSource
    <3>4. CASE rows'.feed[g] = k \/ Upcoming'.feed[g] = k \/ <<k, g>> \in rows'.off
      BY <1>1, <1>6, <1>7, <1>8, <3>1, <3>4, NamesOfFeeds
    <3> QED
      BY <2>2, <3>2, <3>3, <3>4 DEF FeedNames
  <2>3. \A g \in Feeds : \A j, k \in FeedNames(g)' : j = k
    BY <2>1, <2>2 DEF IInv, FeedsHaveOneList
  <2>4. \A g \in Feeds : FeedNames(g)' # {} => g \in issued'
    BY <1>3, <2>2 DEF IInv, FeedsHaveOneList
  <2> QED
    BY <2>3, <2>4 DEF FeedsHaveOneList
<1>10. KnownLists(rows') = KnownLists(rows) /\ KnownCategories(rows') = KnownCategories(rows)
  BY <1>4, <1>6, <1>7, TuningHolds DEF Holds, Agree
<1>11. NamesExist' /\ AddedMembersExist'
  BY <1>6, <1>7, <1>10, NamesKept, AddedKept DEF IInv, AddListSource
<1>12. IdentitiesAreIssued'
  BY <1>3, <1>6, <1>7 DEF IInv, IdentitiesAreIssued
<1> QED
  BY <1>6, <1>9, <1>11, <1>12 DEF IInv

LEMMA RemoveFeedStep ==
  ASSUME IInv, NEW a \in Callers, RemoveListSource(a)
  PROVE  IInv'
<1> DEFINE l == request[a].list
           f == request[a].source
           stored == SwitchesDeleted(FeedDeleted(rows, f), f)
           known == FeedForgotten(registry, l, f)
<1>1. Unlocked /\ Agree(registry, rows) /\ Upcoming = registry
  BY UnlockedAgree DEF RemoveListSource, Commit
<1>2. l \in Lists /\ f \in Feeds
  BY DEF IInv, RequestsMakeSense, RemoveListSource, Serve
<1>3. l \in FeedNames(f) /\ \A j, k \in FeedNames(f) : j = k
  BY <1>2 DEF IInv, FeedsHaveOneList, FeedNames
<1>4. rows.feed[f] = l
  <2>1. rows.feed[f] \in Lists
    BY <1>2 DEF RemoveListSource, IInv, TypeOK, Library
  <2> QED
    BY <1>2, <1>3, <2>1, NamesOfFeeds
<1>5. \A k \in Lists : <<k, f>> \in rows.off => k = l
  BY <1>2, <1>3, NamesOfFeeds
<1>6. Agree(known, stored) /\ rows \in Library /\ registry \in Library
  BY <1>1, <1>2, <1>4, <1>5, FeedRemovalsAgree DEF Agree
<1>7. /\ TypeOK' /\ RequestsMakeSense' /\ MemoryFollows' /\ Quiet
      /\ rows' = stored /\ Upcoming' = known
  BY <1>6, ServedStep DEF RemoveListSource, Serve, IInv, TypeOK
<1>8. /\ stored.off \subseteq rows.off
      /\ \A g \in Feeds, k \in Lists : /\ stored.feed[g] = k => rows.feed[g] = k
                                       /\ known.feed[g] = k => registry.feed[g] = k
  BY <1>6, NothingAssumption DEF SwitchesDeleted, FeedDeleted, FeedForgotten, Library
<1>9. \A g \in Feeds, k \in Lists :
        rows'.feed[g] = k \/ Upcoming'.feed[g] = k \/ <<k, g>> \in rows'.off => k \in FeedNames(g)
  BY <1>1, <1>7, <1>8, NamesOfFeeds
<1> QED
  BY <1>2, <1>6, <1>7, <1>9, TuningKeeps, TuneStep DEF RemoveListSource

(* The half removal: the feed is torn, and that is all.                    *)
LEMMA TornStep ==
  ASSUME IInv, NEW a \in Callers, RemoveListSourceTorn(a)
  PROVE  IInv'
<1> DEFINE f == request[a].source
<1>1. Unlocked /\ Agree(registry, rows) /\ Upcoming = registry /\ Upcoming' = registry
  BY UnlockedAgree DEF RemoveListSourceTorn, Unlocked, Upcoming
<1>2. f \in Feeds
  BY DEF IInv, RequestsMakeSense, RemoveListSourceTorn, Serve
<1>3. rows \in Library /\ FeedDeleted(rows, f) \in Library /\ rows' = FeedDeleted(rows, f)
  BY <1>1, <1>2 DEF Agree, RemoveListSourceTorn, FeedDeleted, Library
<1>4. /\ rows'.content = rows.content /\ rows'.categories = rows.categories
      /\ rows'.removed = rows.removed /\ rows'.member = rows.member
      /\ rows'.off = rows.off /\ rows'.said = rows.said
      /\ \A g \in Feeds : rows'.feed[g] = IF g = f THEN NoList ELSE rows.feed[g]
  BY <1>3 DEF FeedDeleted, Library
<1>5. Quiet /\ request' \in [Callers -> Request]
  BY ServedIsQuiet DEF IInv, RemoveListSourceTorn, Serve
<1>6. TypeOK'
  BY <1>2, <1>3, <1>5 DEF IInv, TypeOK, RemoveListSourceTorn
<1>7. RequestsMakeSense'
  BY <1>5, QuietRequests DEF IInv
<1>8. MemoryFollows'
  BY <1>1, <1>2, <1>4 DEF Agree, MemoryFollows, SameButTorn, RemoveListSourceTorn
<1>9. \A g \in Feeds, k \in Lists :
        rows'.feed[g] = k \/ Upcoming'.feed[g] = k \/ <<k, g>> \in rows'.off => k \in FeedNames(g)
  BY <1>1, <1>4, NamesOfFeeds, NothingAssumption
<1> QED
  BY <1>4, <1>5, <1>6, <1>7, <1>8, <1>9, TuneStep DEF RemoveListSourceTorn

LEMMA FailStep ==
  ASSUME IInv, NEW a \in Callers, RequestFails(a)
  PROVE  IInv'
<1>1. Quiet /\ request' \in [Callers -> Request]
  BY ServedIsQuiet DEF IInv, RequestFails
<1>2. TypeOK'
  BY <1>1 DEF IInv, TypeOK, RequestFails
<1>3. RequestsMakeSense'
  BY <1>1, QuietRequests DEF IInv
<1>4. Upcoming' = Upcoming
  BY DEF RequestFails, Upcoming
<1>5. MemoryFollows'
  BY <1>4 DEF IInv, MemoryFollows, SameButTorn, RequestFails
<1> QED
  BY <1>1, <1>2, <1>3, <1>4, <1>5, NamesOfFeeds, TuneStep DEF RequestFails

LEMMA InstallStep ==
  ASSUME IInv, Install
  PROVE  IInv'
<1>1. Quiet /\ Upcoming' = Upcoming /\ registry' = Upcoming
  BY DEF Install, Quiet, Upcoming
<1>2. TypeOK' /\ RequestsMakeSense'
  BY DEF Install, IInv, TypeOK, RequestsMakeSense
<1>3. MemoryFollows'
  BY <1>1 DEF Install, IInv, MemoryFollows, SameButTorn
<1>4. FeedsHaveOneList'
  BY <1>1, NamesOfFeeds, FeedNamesKept DEF Install, IInv
<1> QED
  BY <1>2, <1>3, <1>4 DEF Install, IInv, NamesExist, AddedMembersExist, IdentitiesAreIssued

LEMMA RestartStep ==
  ASSUME IInv, Restart
  PROVE  IInv'
<1>1. Quiet /\ Upcoming' = rows /\ registry' = rows
  BY DEF Restart, Quiet, Upcoming
<1>2. TypeOK'
  BY RequestType DEF Restart, IInv, TypeOK
<1>3. RequestsMakeSense'
  BY <1>1, QuietRequests DEF IInv
<1>4. MemoryFollows'
  BY <1>1 DEF Restart, MemoryFollows, SameButTorn
<1>5. FeedsHaveOneList'
  BY <1>1, NamesOfFeeds, FeedNamesKept DEF Restart, IInv
<1> QED
  BY <1>2, <1>3, <1>4, <1>5 DEF Restart, IInv, NamesExist, AddedMembersExist, IdentitiesAreIssued

----------------------------------------------------------------------------
(* Categories and removals.                                                *)

(* What every commit without a request shares.                             *)
LEMMA DirectStep ==
  ASSUME IInv, UNCHANGED request,
         NEW stored, NEW known, Commit(stored, known), Agree(known, stored),
         UNCHANGED <<registry, profile, torn>>, issued \subseteq issued', issued' \subseteq Issuable,
         \A f \in Feeds, l \in Lists :
           stored.feed[f] = l \/ known.feed[f] = l \/ <<l, f>> \in stored.off => l \in FeedNames(f)
  PROVE  /\ TypeOK' /\ RequestsMakeSense' /\ MemoryFollows' /\ FeedsHaveOneList'
         /\ rows' = stored /\ rows' \in Library
<1>1. MemoryFollows' /\ Upcoming' = known /\ rows' = stored
      /\ rows' \in Library /\ registry' \in Library /\ coming' \in Library \cup {Free}
      /\ torn' \subseteq Feeds
  BY CommitStep
<1>2. Quiet
  BY DEF Quiet
<1>3. TypeOK' /\ RequestsMakeSense'
  BY <1>1 DEF IInv, TypeOK, RequestsMakeSense
<1>4. \A f \in Feeds, l \in Lists : registry'.feed[f] = l => l \in FeedNames(f)
  BY DEF FeedNames
<1>5. FeedsHaveOneList'
  BY <1>1, <1>2, <1>4, FeedNamesKept DEF IInv
<1> QED
  BY <1>1, <1>3, <1>5

(* A membership holds what was asked for.                                  *)
LEMMA MergedIsDesired ==
  ASSUME NEW r \in Library, NEW c \in Categories, NEW desired \in SUBSET KnownLists(r),
         r.member[c] = MembershipRows(c, desired)
  PROVE  Merged(r, c) = desired
<1>1. desired \in SUBSET Lists
  BY DEF KnownLists
<1>2. \A l \in Lists :
        r.member[c][l] = IF l \in desired \ Catalog(c) THEN "added"
                         ELSE IF l \in Catalog(c) \ desired THEN "removed" ELSE "none"
  BY <1>1, MembershipType
<1>3. KnownLists(r) \subseteq Lists
  BY DEF KnownLists
<1> QED
  BY <1>1, <1>2, <1>3 DEF Merged

(* Both edits of a category set its rows and nothing else.                 *)
LEMMA MembersStep ==
  ASSUME IInv, NEW c \in Categories, NEW desired \in SUBSET Lists,
         CreateCategory(c, desired) \/ UpdateCategory(c, desired)
  PROVE  /\ IInv'
         /\ desired \subseteq KnownLists(rows)
         /\ Holds(rows', KnownLists(rows), KnownCategories(rows) \cup {c})
         /\ rows'.member = [rows.member EXCEPT ![c] = MembershipRows(c, desired)]
<1>1. Unlocked
  BY DEF CreateCategory, UpdateCategory, Commit
<1>2. /\ Agree(registry, rows) /\ Upcoming = registry
      /\ Holds(registry, KnownLists(rows), KnownCategories(rows))
  BY <1>1, UnlockedAgree
<1>3. rows \in Library /\ registry \in Library
  BY <1>2 DEF Agree
<1>4. desired \subseteq KnownLists(rows)
  BY <1>2 DEF CreateCategory, UpdateCategory, ValidMembers, Holds
<1>5. PICK stored, known :
        /\ Commit(stored, known) /\ Agree(known, stored)
        /\ Holds(stored, KnownLists(rows), KnownCategories(rows) \cup {c})
        /\ stored.member = [rows.member EXCEPT ![c] = MembershipRows(c, desired)]
        /\ stored.feed = rows.feed /\ stored.off = rows.off /\ known.feed = registry.feed
        /\ stored.content = rows.content
        /\ stored.categories \subseteq rows.categories \cup {c}
        /\ issued' \subseteq Issuable /\ issued \subseteq issued'
        /\ stored.categories \subseteq issued'
  <2>1. CASE CreateCategory(c, desired)
    <3> DEFINE new == WithCategory(rows, c, desired)
               next == WithCategory(registry, c, desired)
    <3>1. c \in CustomCategories
      BY <2>1 DEF CreateCategory
    <3>2. Commit(new, next) /\ Agree(next, new)
      BY <1>2, <2>1, <3>1, MembersAgree DEF CreateCategory, WithCategory
    <3>3. /\ Holds(new, KnownLists(rows), KnownCategories(rows) \cup {c})
          /\ new.member = [rows.member EXCEPT ![c] = MembershipRows(c, desired)]
      BY <1>3, <3>1, MembersHold
    <3>4. /\ new.feed = rows.feed /\ new.off = rows.off
          /\ next.feed = registry.feed /\ new.content = rows.content
          /\ new.categories = rows.categories \cup {c}
      BY <1>3 DEF WithCategory, WithMembers, Library
    <3>5. issued' = issued \cup {c} /\ issued' \subseteq Issuable
      BY <2>1, <3>1 DEF CreateCategory, IInv, TypeOK, Issuable
    <3>6. rows.categories \subseteq issued
      BY DEF IInv, IdentitiesAreIssued
    <3> HIDE DEF new, next
    <3> QED
      BY <3>2, <3>3, <3>4, <3>5, <3>6
  <2>2. CASE UpdateCategory(c, desired)
    <3> DEFINE new == WithMembers(rows, c, desired)
               next == WithMembers(registry, c, desired)
    <3>1. c \in KnownCategories(rows)
      BY <1>2, <2>2 DEF UpdateCategory, Holds, KnownCategories
    <3>2. Commit(new, next) /\ Agree(next, new)
      BY <1>2, <2>2, MembersAgree DEF UpdateCategory
    <3>3. /\ Holds(new, KnownLists(rows), KnownCategories(rows) \cup {c})
          /\ new.member = [rows.member EXCEPT ![c] = MembershipRows(c, desired)]
      BY <1>3, <3>1, MembersHold DEF Holds
    <3>4. /\ new.feed = rows.feed /\ new.off = rows.off
          /\ next.feed = registry.feed /\ new.content = rows.content
          /\ new.categories = rows.categories
      BY <1>3 DEF WithMembers, Library
    <3>5. issued' = issued /\ issued' \subseteq Issuable
      BY <2>2 DEF UpdateCategory, IInv, TypeOK
    <3>6. rows.categories \subseteq issued
      BY DEF IInv, IdentitiesAreIssued
    <3> HIDE DEF new, next
    <3> QED
      BY <3>2, <3>3, <3>4, <3>5, <3>6
  <2> QED
    BY <2>1, <2>2
<1>6. UNCHANGED <<request, registry, profile, torn>>
  BY DEF CreateCategory, UpdateCategory
<1>7. /\ TypeOK' /\ RequestsMakeSense' /\ MemoryFollows' /\ FeedsHaveOneList'
      /\ rows' = stored /\ rows' \in Library
  BY <1>2, <1>5, <1>6, NamesOfFeeds, DirectStep
<1>8. NamesExist'
  BY <1>5, <1>6, <1>7, NamesKept DEF IInv, Holds
<1>9. AddedMembersExist'
  <2>1. ASSUME NEW k \in Categories, NEW l \in Lists, rows'.member[k][l] = "added"
        PROVE  l \in KnownLists(rows') /\ k \in KnownCategories(rows')
    <3>1. CASE k = c
      <4>1. rows'.member[c] = MembershipRows(c, desired)
        BY <1>3, <1>5, <1>7 DEF Library
      <4>2. l \in desired
        BY <2>1, <3>1, <4>1, MembershipType
      <4> QED
        BY <1>4, <1>5, <1>7, <3>1, <4>2 DEF Holds
    <3>2. CASE k # c
      <4>1. rows.member[k][l] = "added"
        BY <1>3, <1>5, <1>7, <2>1, <3>2 DEF Library
      <4> QED
        BY <1>5, <1>7, <4>1 DEF IInv, AddedMembersExist, Holds
    <3> QED
      BY <3>1, <3>2
  <2> QED
    BY <2>1 DEF AddedMembersExist
<1>10. IdentitiesAreIssued'
  BY <1>5, <1>7 DEF IInv, IdentitiesAreIssued
<1> QED
  BY <1>4, <1>5, <1>7, <1>8, <1>9, <1>10 DEF IInv

(* Removals: the refusal and the rows that go together keep every name.    *)
LEMMA RemovalStep ==
  ASSUME IInv, UNCHANGED <<registry, profile, request, issued, torn>>,
         NEW cs \in SUBSET Categories, NEW ls \in SUBSET Lists,
         NEW stored, NEW known, Commit(stored, known), Agree(known, stored),
         ProfilesNaming(cs, ls) = {},
         Holds(stored, KnownLists(rows) \ ls, KnownCategories(rows) \ cs),
         \A c \in Categories, l \in Lists :
           stored.member[c][l] = "added" => rows.member[c][l] = "added" /\ l \notin ls /\ c \notin cs,
         \A f \in Feeds, l \in Lists : /\ stored.feed[f] = l => rows.feed[f] = l
                                       /\ known.feed[f] = l => registry.feed[f] = l
                                       /\ <<l, f>> \in stored.off => <<l, f>> \in rows.off,
         \A l \in CustomLists : stored.content[l] # NoContent => rows.content[l] # NoContent,
         stored.categories \subseteq rows.categories
  PROVE  IInv'
<1>1. /\ TypeOK' /\ RequestsMakeSense' /\ MemoryFollows' /\ FeedsHaveOneList'
      /\ rows' = stored
  <2>1. \A f \in Feeds, l \in Lists : registry.feed[f] = l => l \in FeedNames(f)
    BY DEF FeedNames
  <2> QED
    BY <2>1, NamesOfFeeds, DirectStep DEF IInv, TypeOK
<1>2. NamesExist'
  <2>1. ASSUME NEW p \in Profiles, profile[p].shelf # "none"
        PROVE  /\ profile[p].composition.lists \subseteq KnownLists(rows) \ ls
               /\ profile[p].composition.categories \subseteq KnownCategories(rows) \ cs
    BY <2>1 DEF IInv, NamesExist, ProfilesNaming
  <2> QED
    BY <1>1, <2>1 DEF NamesExist, Holds
<1>3. AddedMembersExist'
  BY <1>1 DEF IInv, AddedMembersExist, Holds
<1>4. IdentitiesAreIssued'
  BY <1>1 DEF IInv, IdentitiesAreIssued
<1> QED
  BY <1>1, <1>2, <1>3, <1>4 DEF IInv

(* The feeds, contents and categories a removal leaves were there before.  *)
LEMMA RemovalLeaves ==
  ASSUME NEW r \in Library, NEW ls \in SUBSET Lists
  PROVE  LET s == ListRowsRemoved(r, ls)
             k == ForgetLists(r, ls)
         IN  /\ \A f \in Feeds, l \in Lists : /\ s.feed[f] = l => r.feed[f] = l
                                              /\ k.feed[f] = l => r.feed[f] = l
             /\ s.off \subseteq r.off
             /\ \A l \in CustomLists : s.content[l] # NoContent => r.content[l] # NoContent
             /\ s.categories = r.categories
<1>1. \A f \in Feeds :
        /\ ListRowsRemoved(r, ls).feed[f] = IF r.feed[f] \in ls THEN NoList ELSE r.feed[f]
        /\ ForgetLists(r, ls).feed[f] = IF r.feed[f] \in ls THEN NoList ELSE r.feed[f]
  BY DEF ListRowsRemoved, ForgetLists, Library
<1>2. /\ ListRowsRemoved(r, ls).off \subseteq r.off
      /\ ListRowsRemoved(r, ls).categories = r.categories
      /\ \A l \in CustomLists : ListRowsRemoved(r, ls).content[l] # NoContent => r.content[l] # NoContent
  BY DEF ListRowsRemoved, Library
<1> QED
  BY <1>1, <1>2, NothingAssumption

LEMMA RemoveListStep ==
  ASSUME IInv, NEW l \in Lists, RemoveList(l)
  PROVE  IInv'
<1> DEFINE stored == ListRowsRemoved(rows, {l})
           known == ForgetLists(registry, {l})
<1>1. Unlocked /\ Agree(registry, rows)
  BY UnlockedAgree DEF RemoveList, Commit
<1>2. rows \in Library /\ registry \in Library /\ Agree(known, stored)
  BY <1>1, ListRemovalsAgree DEF Agree
<1>3. /\ Holds(stored, KnownLists(rows) \ {l}, KnownCategories(rows) \ {})
      /\ \A c \in Categories, k \in Lists :
           stored.member[c][k] = "added" => rows.member[c][k] = "added" /\ k \notin {l} /\ c \notin {}
  BY <1>2, ListRemovalHolds DEF Holds
<1>4. /\ \A f \in Feeds, k \in Lists : /\ stored.feed[f] = k => rows.feed[f] = k
                                       /\ known.feed[f] = k => registry.feed[f] = k
                                       /\ <<k, f>> \in stored.off => <<k, f>> \in rows.off
      /\ \A k \in CustomLists : stored.content[k] # NoContent => rows.content[k] # NoContent
      /\ stored.categories \subseteq rows.categories
  BY <1>2, RemovalLeaves
<1>5. /\ Commit(stored, known) /\ ProfilesNaming({}, {l}) = {}
      /\ UNCHANGED <<registry, profile, request, issued, torn>>
  BY DEF RemoveList
<1> HIDE DEF stored, known
<1> QED
  BY <1>2, <1>3, <1>4, <1>5, RemovalStep

LEMMA RemoveCategoryStep ==
  ASSUME IInv, NEW c \in Categories, NEW held \in SUBSET Lists, RemoveCategory(c, held)
  PROVE  IInv'
<1> DEFINE r == CategoryRowsRemoved(rows, c)
           k == ForgetCategory(registry, c)
           stored == ListRowsRemoved(r, held)
           known == ForgetLists(k, held)
<1>1. Unlocked /\ Agree(registry, rows)
  BY UnlockedAgree DEF RemoveCategory, Commit
<1>2. rows \in Library /\ registry \in Library
  BY <1>1 DEF Agree
<1>3. Agree(k, r)
  BY <1>1, <1>2, CategoryRemovalsAgree DEF RemoveCategory, Library
<1>4. r \in Library /\ k \in Library /\ Agree(known, stored)
  BY <1>3, ListRemovalsAgree DEF Agree
<1>5. /\ Holds(r, KnownLists(rows), KnownCategories(rows) \ {c})
      /\ r.member = [rows.member EXCEPT ![c] = NoMembership]
  BY <1>2, CategoryRemovalHolds
<1>6. /\ Holds(stored, KnownLists(rows) \ held, KnownCategories(rows) \ {c})
      /\ \A d \in Categories, l \in Lists :
           stored.member[d][l] = IF l \in held THEN "none" ELSE r.member[d][l]
  <2>1. /\ Holds(stored, KnownLists(r) \ held, KnownCategories(r))
        /\ \A d \in Categories, l \in Lists :
             stored.member[d][l] = IF l \in held THEN "none" ELSE r.member[d][l]
    BY <1>4, ListRemovalHolds
  <2>2. KnownLists(r) = KnownLists(rows) /\ KnownCategories(r) = KnownCategories(rows) \ {c}
    BY <1>5 DEF Holds
  <2> HIDE DEF r, stored
  <2> QED
    BY <2>1, <2>2
<1>7. \A d \in Categories, l \in Lists :
        stored.member[d][l] = "added" => rows.member[d][l] = "added" /\ l \notin held /\ d \notin {c}
  <2>1. \A d \in Categories, l \in Lists : r.member[d][l] = IF d = c THEN "none" ELSE rows.member[d][l]
    BY <1>2, <1>5 DEF NoMembership, Library
  <2>2. \A d \in Categories, l \in Lists :
          stored.member[d][l] = IF l \in held THEN "none" ELSE r.member[d][l]
    BY <1>6
  <2> HIDE DEF r, stored
  <2> QED
    BY <2>1, <2>2
<1>8. /\ r.feed = rows.feed /\ r.off = rows.off /\ k.feed = registry.feed
      /\ r.content = rows.content /\ r.categories \subseteq rows.categories
  BY <1>2 DEF CategoryRowsRemoved, ForgetCategory, Library
<1>9. /\ \A f \in Feeds, l \in Lists : /\ stored.feed[f] = l => rows.feed[f] = l
                                       /\ known.feed[f] = l => registry.feed[f] = l
                                       /\ <<l, f>> \in stored.off => <<l, f>> \in rows.off
      /\ \A l \in CustomLists : stored.content[l] # NoContent => rows.content[l] # NoContent
      /\ stored.categories \subseteq rows.categories
  BY <1>4, <1>8, RemovalLeaves
<1>10. /\ Commit(stored, known) /\ ProfilesNaming({c}, held) = {}
       /\ UNCHANGED <<registry, profile, request, issued, torn>>
  BY DEF RemoveCategory, RemovedFromLibrary
<1> HIDE DEF stored, known
<1> QED
  BY <1>4, <1>6, <1>7, <1>9, <1>10, RemovalStep

----------------------------------------------------------------------------
(* Profiles, the initial state and the whole step.                         *)

LEMMA ComposedType ==
  ASSUME NEW c \in Composition
  PROVE  Composed(c) \in Profile /\ Composed(c).composition = c /\ Composed(c).shelf = "kept"
<1>1. Resolved(registry, c) \in SUBSET Lists
  BY DEF Resolved, KnownLists, Merged, Composition
<1> QED
  BY <1>1 DEF Composed, Profile

LEMMA SameLibrary ==
  ASSUME IInv, UNCHANGED <<rows, registry, coming, request, issued, torn>>
  PROVE  /\ RequestsMakeSense' /\ MemoryFollows' /\ FeedsHaveOneList'
         /\ AddedMembersExist' /\ IdentitiesAreIssued'
<1>1. Upcoming' = Upcoming
  BY DEF Upcoming
<1>2. MemoryFollows'
  BY <1>1 DEF IInv, MemoryFollows, SameButTorn
<1>3. RequestsMakeSense'
  BY DEF IInv, RequestsMakeSense
<1>4. FeedsHaveOneList'
  <2>1. \A f \in Feeds : FeedNames(f)' = FeedNames(f)
    BY <1>1 DEF FeedNames
  <2> QED
    BY <2>1 DEF IInv, FeedsHaveOneList
<1>5. AddedMembersExist' /\ IdentitiesAreIssued'
  BY DEF IInv, AddedMembersExist, IdentitiesAreIssued
<1> QED
  BY <1>2, <1>3, <1>4, <1>5

LEMMA ProfileStep ==
  ASSUME IInv, NEW p \in Profiles, ProfileNext(p)
  PROVE  IInv'
<1>1. UNCHANGED <<rows, registry, coming, request, issued, torn>>
  BY DEF ProfileNext, CreateProfile, UpdateProfile, SetArchived, DeleteProfile
<1>2. NoProfile \in Profile /\ NoProfile.shelf = "none"
  BY DEF NoProfile, Profile, NoComposition, Composition
<1>3. /\ profile' \in [Profiles -> Profile]
      /\ NamesExist'
  <2>1. ASSUME NEW c \in Composition, CreateProfile(p, c) \/ UpdateProfile(p, c)
        PROVE  profile' \in [Profiles -> Profile] /\ NamesExist'
    <3>1. Holds(registry, KnownLists(rows), KnownCategories(rows))
      BY <2>1, UnlockedAgree DEF CreateProfile, UpdateProfile
    <3>2. /\ c.lists \subseteq KnownLists(rows) /\ c.categories \subseteq KnownCategories(rows)
          /\ profile' = [profile EXCEPT ![p] = Composed(c)]
      BY <2>1, <3>1 DEF CreateProfile, UpdateProfile, ValidComposition, Holds
    <3> QED
      BY <1>1, <3>2, ComposedType DEF IInv, TypeOK, NamesExist
  <2>2. ASSUME NEW shelf \in {"kept", "archived"}, SetArchived(p, shelf)
        PROVE  profile' \in [Profiles -> Profile] /\ NamesExist'
    <3>1. [profile[p] EXCEPT !.shelf = shelf] \in Profile
      BY DEF IInv, TypeOK, Profile
    <3>2. /\ profile' = [profile EXCEPT ![p] = [profile[p] EXCEPT !.shelf = shelf]]
          /\ profile[p].shelf # "none"
      BY <2>2 DEF SetArchived
    <3>3. [profile[p] EXCEPT !.shelf = shelf].composition = profile[p].composition
      BY DEF IInv, TypeOK, Profile
    <3> QED
      BY <1>1, <3>1, <3>2, <3>3 DEF IInv, TypeOK, NamesExist
  <2>3. CASE DeleteProfile(p)
    BY <1>1, <1>2, <2>3 DEF DeleteProfile, IInv, TypeOK, NamesExist
  <2> QED
    BY <2>1, <2>2, <2>3 DEF ProfileNext
<1>4. TypeOK'
  BY <1>1, <1>3 DEF IInv, TypeOK
<1> QED
  BY <1>1, <1>3, <1>4, SameLibrary DEF IInv

LEMMA InitStep == Init => IInv
<1> SUFFICES ASSUME Init PROVE IInv
  OBVIOUS
<1> USE DEF Init
<1>1. TypeOK
  BY UntouchedType, RequestType DEF TypeOK, NoProfile, Profile, NoComposition, Composition
<1>2. MemoryFollows
  BY DEF MemoryFollows, Upcoming, SameButTorn
<1>3. NamesExist
  BY DEF NamesExist, NoProfile
<1>4. AddedMembersExist
  BY DEF AddedMembersExist, Untouched, NoMembership
<1>5. RequestsMakeSense
  BY DEF RequestsMakeSense, NoRequest
<1>6. FeedsHaveOneList
  <2>1. \A f \in Feeds : rows.feed[f] = NoList /\ registry.feed[f] = NoList /\ Upcoming = registry
    BY DEF Untouched, Upcoming
  <2>2. rows.off = {} /\ \A a \in Callers : request[a].list = NoList
    BY DEF Untouched, NoRequest
  <2>3. \A f \in Feeds : FeedNames(f) = {}
    BY <2>1, <2>2, NothingAssumption DEF FeedNames
  <2> QED
    BY <2>3 DEF FeedsHaveOneList
<1>7. IdentitiesAreIssued
  BY DEF IdentitiesAreIssued, Untouched
<1> QED
  BY <1>1, <1>2, <1>3, <1>4, <1>5, <1>6, <1>7 DEF IInv

LEMMA NextStep == IInv /\ [Next]_vars => IInv'
<1> SUFFICES ASSUME IInv, [Next]_vars PROVE IInv'
  OBVIOUS
<1>1. CASE UNCHANGED vars
  <2>1. TypeOK' /\ NamesExist'
    BY <1>1 DEF vars, IInv, TypeOK, NamesExist
  <2> QED
    BY <1>1, <2>1, SameLibrary DEF vars, IInv
<1>2. ASSUME NEW a \in Callers, AskNext(a) PROVE IInv'
  BY <1>2, AskNextStep
<1>3. ASSUME NEW a \in Callers, ServeNext(a) PROVE IInv'
  BY <1>3, CreateListStep, UpdateListStep, SwitchStep, AddFeedStep, RemoveFeedStep, TornStep, SayStep,
     FailStep DEF ServeNext
<1>4. ASSUME NEW c \in Categories, CategoryNext(c) PROVE IInv'
  BY <1>4, MembersStep, RemoveCategoryStep DEF CategoryNext
<1>5. ASSUME NEW l \in Lists, RemoveList(l) PROVE IInv'
  BY <1>5, RemoveListStep
<1>6. ASSUME NEW p \in Profiles, ProfileNext(p) PROVE IInv'
  BY <1>6, ProfileStep
<1>7. CASE Install \/ Restart
  BY <1>7, InstallStep, RestartStep
<1> QED
  BY <1>1, <1>2, <1>3, <1>4, <1>5, <1>6, <1>7 DEF Next

LEMMA Inductive == Spec => []IInv
BY InitStep, NextStep, PTL DEF Spec

(* The store, the registry and every request keep their types: no sequence *)
(* of edits, half-done removals and restarts leaves a row of a wrong kind. *)
THEOREM TypeCorrect == Spec => []TypeOK
<1>1. IInv => TypeOK
  BY DEF IInv
<1> QED
  BY <1>1, Inductive, PTL

----------------------------------------------------------------------------
(* What LoadCategories would refuse is never stored.                       *)

LoadInv == IsFiniteSet(rows.categories) /\ Loadable(rows)

(* Only the operations on categories and removals touch either part.       *)
LEMMA ElsewhereKept ==
  ASSUME IInv, NEW a \in Callers, AskNext(a) \/ ServeNext(a)
  PROVE  rows'.categories = rows.categories /\ rows'.member = rows.member
<1>1. rows \in Library
  BY DEF IInv, TypeOK
<1>2. CASE AskNext(a)
  BY <1>2 DEF AskNext, AskCreateCustomList, AskUpdateCustomList, AskAddListSource, AskRemoveListSource,
     AskSetListSourceEnabled, AskSetListValues, Ask
<1>3. CASE CreateCustomList(a) \/ UpdateCustomList(a)
  BY <1>1, <1>3 DEF CreateCustomList, UpdateCustomList, Commit, WithList, Library
<1>4. CASE SetListSourceEnabled(a)
  BY <1>1, <1>4 DEF SetListSourceEnabled, Commit, Switched, Library
<1>5. CASE AddListSource(a)
  BY <1>1, <1>5 DEF AddListSource, Commit, WithFeed, Library
<1>6. CASE RemoveListSource(a) \/ RemoveListSourceTorn(a)
  BY <1>1, <1>6 DEF RemoveListSource, RemoveListSourceTorn, Commit, SwitchesDeleted, FeedDeleted, Library
<1>7. CASE SetListValues(a)
  BY <1>1, <1>7 DEF SetListValues, Commit, WithSaid, Library
<1>8. CASE RequestFails(a)
  BY <1>8 DEF RequestFails
<1> QED
  BY <1>2, <1>3, <1>4, <1>5, <1>6, <1>7, <1>8 DEF ServeNext

(* The limit is compared with the registry, which is what the store holds, *)
(* and no catalog puts a list in a category of the operator's.             *)
LEMMA MembersLoad ==
  ASSUME IInv, LoadInv, NEW c \in Categories, NEW desired \in SUBSET Lists,
         CreateCategory(c, desired) \/ UpdateCategory(c, desired)
  PROVE  LoadInv'
<1>1. rows \in Library /\ rows.categories = registry.categories
  <2>1. Unlocked
    BY DEF CreateCategory, UpdateCategory, Commit
  <2> QED
    BY <2>1, UnlockedAgree DEF Agree, SameButTorn
<1>2. rows'.member = [rows.member EXCEPT ![c] = MembershipRows(c, desired)]
  BY MembersStep
<1>3. \A d \in CustomCategories, l \in Lists : rows'.member[d][l] # "removed"
  <2>1. ASSUME NEW l \in Lists, c \in CustomCategories
        PROVE  MembershipRows(c, desired)[l] # "removed"
    BY <2>1, KindsAssumption DEF MembershipRows, Catalog
  <2> QED
    BY <1>1, <1>2, <2>1 DEF LoadInv, Loadable, Categories, Library
<1>4. IsFiniteSet(rows'.categories) /\ Cardinality(rows'.categories) <= MaxCategories
  <2>1. CASE CreateCategory(c, desired)
    <3>1. rows'.categories = rows.categories \cup {c}
      BY <1>1, <2>1 DEF CreateCategory, Commit, WithCategory, WithMembers, Library
    <3>2. Cardinality(rows.categories) < MaxCategories
      BY <1>1, <2>1 DEF CreateCategory
    <3>3. /\ IsFiniteSet(rows.categories \cup {c}) /\ Cardinality(rows.categories) \in Nat
          /\ \/ Cardinality(rows.categories \cup {c}) = Cardinality(rows.categories)
             \/ Cardinality(rows.categories \cup {c}) = Cardinality(rows.categories) + 1
      BY FS_AddElement, FS_CardinalityType DEF LoadInv
    <3> QED
      BY <3>1, <3>2, <3>3, LimitAssumption
  <2>2. CASE UpdateCategory(c, desired)
    <3>1. rows'.categories = rows.categories
      BY <1>1, <2>2 DEF UpdateCategory, Commit, WithMembers, Library
    <3> QED
      BY <3>1 DEF LoadInv, Loadable
  <2> QED
    BY <2>1, <2>2
<1> QED
  BY <1>3, <1>4 DEF LoadInv, Loadable

(* A removal only takes rows away.                                         *)
LEMMA FewerLoad ==
  ASSUME LoadInv, rows'.categories \subseteq rows.categories,
         \A d \in CustomCategories, l \in Lists :
           rows'.member[d][l] = "removed" => rows.member[d][l] = "removed"
  PROVE  LoadInv'
<1>1. /\ IsFiniteSet(rows'.categories)
      /\ Cardinality(rows'.categories) <= Cardinality(rows.categories)
      /\ Cardinality(rows'.categories) \in Nat /\ Cardinality(rows.categories) \in Nat
  BY FS_Subset, FS_CardinalityType DEF LoadInv
<1> QED
  BY <1>1, LimitAssumption DEF LoadInv, Loadable

LEMMA RemovalsLoad ==
  ASSUME IInv, LoadInv,
         \/ \E l \in Lists : RemoveList(l)
         \/ \E c \in Categories, held \in SUBSET Lists : RemoveCategory(c, held)
  PROVE  LoadInv'
<1>1. rows \in Library
  BY DEF IInv, TypeOK
<1>2. ASSUME NEW r \in Library, NEW ls \in SUBSET Lists
      PROVE  /\ ListRowsRemoved(r, ls).categories = r.categories
             /\ \A d \in Categories, l \in Lists :
                  ListRowsRemoved(r, ls).member[d][l] = "removed" => r.member[d][l] = "removed"
  BY DEF ListRowsRemoved, Library
<1>3. CASE \E l \in Lists : RemoveList(l)
  <2>1. PICK l \in Lists : rows' = ListRowsRemoved(rows, {l})
    BY <1>3 DEF RemoveList, Commit
  <2> QED
    BY <1>1, <1>2, <2>1, FewerLoad DEF Categories
<1>4. CASE \E c \in Categories, held \in SUBSET Lists : RemoveCategory(c, held)
  <2>1. PICK c \in Categories, held \in SUBSET Lists :
          rows' = ListRowsRemoved(CategoryRowsRemoved(rows, c), held)
    BY <1>4 DEF RemoveCategory, RemovedFromLibrary, Commit
  <2>2. CategoryRowsRemoved(rows, c) \in Library
    BY <1>1, CategoryEditTypes
  <2>3. /\ CategoryRowsRemoved(rows, c).categories \subseteq rows.categories
        /\ \A d \in Categories, l \in Lists :
             CategoryRowsRemoved(rows, c).member[d][l] = "removed" => rows.member[d][l] = "removed"
    BY <1>1 DEF CategoryRowsRemoved, NoMembership, Library
  <2> QED
    BY <1>2, <2>1, <2>2, <2>3, FewerLoad DEF Categories
<1> QED
  BY <1>3, <1>4

LEMMA LoadStep == IInv /\ LoadInv /\ [Next]_vars => LoadInv'
<1> SUFFICES ASSUME IInv, LoadInv, [Next]_vars PROVE LoadInv'
  OBVIOUS
<1>1. ASSUME rows'.categories = rows.categories, rows'.member = rows.member PROVE LoadInv'
  BY <1>1 DEF LoadInv, Loadable
<1>2. CASE UNCHANGED vars \/ Install \/ Restart
  BY <1>1, <1>2 DEF vars, Install, Restart
<1>3. ASSUME NEW a \in Callers, AskNext(a) \/ ServeNext(a) PROVE LoadInv'
  BY <1>1, <1>3, ElsewhereKept
<1>4. ASSUME NEW c \in Categories, CategoryNext(c) PROVE LoadInv'
  BY <1>4, MembersLoad, RemovalsLoad DEF CategoryNext
<1>5. ASSUME NEW l \in Lists, RemoveList(l) PROVE LoadInv'
  BY <1>5, RemovalsLoad
<1>6. ASSUME NEW p \in Profiles, ProfileNext(p) PROVE LoadInv'
  BY <1>1, <1>6 DEF ProfileNext, CreateProfile, UpdateProfile, SetArchived, DeleteProfile
<1> QED
  BY <1>2, <1>3, <1>4, <1>5, <1>6 DEF Next

LEMMA InitLoads == Init => LoadInv
<1> SUFFICES ASSUME Init PROVE LoadInv
  OBVIOUS
<1>1. rows.categories = {}
  BY DEF Init, Untouched
<1>2. \A c \in Categories, l \in Lists : rows.member[c][l] = "none"
  BY DEF Init, Untouched, NoMembership
<1>3. IsFiniteSet(rows.categories) /\ Cardinality(rows.categories) = 0
  BY <1>1, FS_EmptySet
<1>4. Cardinality(rows.categories) <= MaxCategories
  BY <1>3, LimitAssumption
<1>5. \A c \in CustomCategories, l \in Lists : rows.member[c][l] # "removed"
  BY <1>2 DEF Categories
<1> QED
  BY <1>3, <1>4, <1>5 DEF LoadInv, Loadable

(* The registry in memory follows the store (list_tuning.go, categories.go *)
(* and removals.go against their rows), and no edit stores what the next   *)
(* start would refuse (CategoryOverlay in categories.go).                  *)
THEOREM RegistryCorrect == Spec => []RegistryIsStore
<1>1. IInv /\ LoadInv => RegistryIsStore
  BY DEF IInv, LoadInv, RegistryIsStore
<1>2. Spec => []LoadInv
  BY InitLoads, LoadStep, Inductive, PTL DEF Spec
<1> QED
  BY <1>1, <1>2, Inductive, PTL

(* No profile names what the library does not hold (profilesNaming), and   *)
(* no membership outlives its list or its category (removeListRows and     *)
(* removeCategoryRows).                                                    *)
THEOREM NamesCorrect == Spec => []NothingDangles
<1>1. IInv => NothingDangles
  BY DEF IInv, NothingDangles
<1> QED
  BY <1>1, Inductive, PTL

(* A membership stored as a difference reads back as what was asked for    *)
(* (membershipRows against mergedCategory).                                *)
THEOREM MembershipCorrect == Spec => MembersAreWhatWasAsked
<1> DEFINE Asked == \A c \in Categories, desired \in SUBSET Lists :
                      CreateCategory(c, desired) \/ UpdateCategory(c, desired) =>
                        KnownCategory(rows', c) /\ Merged(rows', c) = desired
<1>1. IInv /\ IInv' => Asked
  <2> SUFFICES ASSUME IInv, IInv', NEW c \in Categories, NEW desired \in SUBSET Lists,
                      CreateCategory(c, desired) \/ UpdateCategory(c, desired)
               PROVE  KnownCategory(rows', c) /\ Merged(rows', c) = desired
    OBVIOUS
  <2>1. /\ desired \subseteq KnownLists(rows)
        /\ Holds(rows', KnownLists(rows), KnownCategories(rows) \cup {c})
        /\ rows'.member = [rows.member EXCEPT ![c] = MembershipRows(c, desired)]
    BY MembersStep
  <2>2. rows \in Library /\ rows' \in Library
    BY DEF IInv, TypeOK
  <2>3. rows'.member[c] = MembershipRows(c, desired)
    BY <2>1, <2>2 DEF Library
  <2>4. desired \in SUBSET KnownLists(rows')
    BY <2>1 DEF Holds
  <2>5. Merged(rows', c) = desired
    BY <2>2, <2>3, <2>4, MergedIsDesired
  <2> QED
    BY <2>1, <2>5 DEF Holds, KnownCategories
<1>2. Spec => [][Asked]_vars
  BY <1>1, Inductive, PTL DEF Spec
<1> QED
  BY <1>2 DEF MembersAreWhatWasAsked

----------------------------------------------------------------------------
(* The library implements the plain one.                                   *)

TheLists == KnownLists(rows)
TheCategories == KnownCategories(rows)
Held(c) == IF KnownCategory(rows, c) THEN Merged(rows, c) ELSE {}
Owned == (Shipped \cup issued) \ Feeds
Gone == Owned \ (TheLists \cup TheCategories)
Named(p) == profile[p].composition.lists \cup profile[p].composition.categories

(* A profile that is not there names nothing.                              *)
DeletedNameNothing == \A p \in Profiles : profile[p].shelf = "none" => profile[p] = NoProfile

LEMMA DeletedStep == TypeOK /\ DeletedNameNothing /\ [Next]_vars => DeletedNameNothing'
<1> SUFFICES ASSUME TypeOK, DeletedNameNothing, [Next]_vars PROVE DeletedNameNothing'
  OBVIOUS
<1> USE DEF DeletedNameNothing
<1>1. ASSUME UNCHANGED profile PROVE DeletedNameNothing'
  BY <1>1
<1>2. CASE UNCHANGED vars
  BY <1>1, <1>2 DEF vars
<1>3. ASSUME NEW a \in Callers, AskNext(a) PROVE DeletedNameNothing'
  BY <1>1, <1>3 DEF AskNext, Ask, AskCreateCustomList, AskUpdateCustomList, AskAddListSource,
                    AskRemoveListSource, AskSetListSourceEnabled, AskSetListValues
<1>4. ASSUME NEW a \in Callers, ServeNext(a) PROVE DeletedNameNothing'
  BY <1>1, <1>4 DEF ServeNext, CreateCustomList, UpdateCustomList, SetListSourceEnabled, AddListSource,
                    RemoveListSource, RemoveListSourceTorn, SetListValues, RequestFails
<1>5. ASSUME NEW c \in Categories, CategoryNext(c) PROVE DeletedNameNothing'
  BY <1>1, <1>5 DEF CategoryNext, CreateCategory, UpdateCategory, RemoveCategory
<1>6. ASSUME NEW l \in Lists, RemoveList(l) PROVE DeletedNameNothing'
  BY <1>1, <1>6 DEF RemoveList
<1>7. ASSUME NEW p \in Profiles, ProfileNext(p) PROVE DeletedNameNothing'
  <2>1. ASSUME NEW c \in Composition, CreateProfile(p, c) \/ UpdateProfile(p, c)
        PROVE  DeletedNameNothing'
    BY <2>1, ComposedType DEF CreateProfile, UpdateProfile, TypeOK
  <2>2. ASSUME NEW shelf \in {"kept", "archived"}, SetArchived(p, shelf) PROVE DeletedNameNothing'
    <3>1. profile[p] \in Profile
      BY DEF TypeOK
    <3>2. [profile[p] EXCEPT !.shelf = shelf].shelf = shelf
      BY <3>1 DEF Profile
    <3> QED
      BY <2>2, <3>2 DEF SetArchived, TypeOK
  <2>3. CASE DeleteProfile(p)
    BY <2>3 DEF DeleteProfile, TypeOK
  <2> QED
    BY <1>7, <2>1, <2>2, <2>3 DEF ProfileNext
<1>8. CASE Install \/ Restart
  BY <1>1, <1>8 DEF Install, Restart
<1> QED
  BY <1>2, <1>3, <1>4, <1>5, <1>6, <1>7, <1>8 DEF Next

LEMMA DeletedCorrect == Spec => []DeletedNameNothing
<1>1. Init => DeletedNameNothing
  BY DEF Init, DeletedNameNothing
<1>2. Spec => []TypeOK
  BY TypeCorrect
<1> QED
  BY <1>1, <1>2, DeletedStep, PTL DEF Spec

(* What is known is shipped or was issued.                                 *)
LEMMA KnownAreOwned ==
  ASSUME IInv
  PROVE  /\ TheLists \subseteq Owned \cap Lists /\ TheCategories \subseteq Owned \cap Categories
         /\ \A l \in CustomLists \ issued : l \notin TheLists \cup Gone
         /\ \A c \in CustomCategories \ issued : c \notin TheCategories \cup Gone
<1>1. TheLists \subseteq Owned \cap Lists
  BY KindsAssumption DEF IInv, IdentitiesAreIssued, TheLists, KnownLists, KnownList, Owned, Lists,
                         Categories, Shipped
<1>2. TheCategories \subseteq Owned \cap Categories
  BY KindsAssumption DEF IInv, IdentitiesAreIssued, TheCategories, KnownCategories, KnownCategory, Owned,
                         Lists, Categories, Shipped
<1>3. \A l \in CustomLists \cup CustomCategories : l \notin Shipped
  BY KindsAssumption DEF Shipped, Lists, Categories
<1> QED
  BY <1>1, <1>2, <1>3, KindsAssumption DEF Owned, Gone, Lists, Categories

(* What stays the same in the rows stays the same to the operator.         *)
LEMMA SameHeld ==
  ASSUME NEW c \in Categories, UNCHANGED <<TheLists, TheCategories>>, rows'.member[c] = rows.member[c]
  PROVE  Held(c)' = Held(c)
<1>1. KnownCategory(rows', c) <=> KnownCategory(rows, c)
  BY DEF TheCategories, KnownCategories
<1> QED
  BY <1>1 DEF Held, Merged, TheLists

TheMembers == [c \in Categories |-> Held(c)]
TheNames == [p \in Profiles |-> Named(p)]

LEMMA OperatorView ==
  /\ OL!vars = <<TheLists, TheCategories, TheMembers, Gone, TheNames>>
  /\ \A l \in Lists : OL!AddList(l) <=>
       /\ l \notin TheLists \cup Gone /\ TheLists' = TheLists \cup {l}
       /\ UNCHANGED <<TheCategories, TheMembers, Gone, TheNames>>
  /\ \A c \in Categories, new \in SUBSET Lists : OL!SetCategory(c, new) <=>
       /\ c \notin Gone /\ new \subseteq TheLists /\ TheCategories' = TheCategories \cup {c}
       /\ TheMembers' = [TheMembers EXCEPT ![c] = new]
       /\ UNCHANGED <<TheLists, Gone, TheNames>>
  /\ \A p \in Profiles, ids \in SUBSET (Lists \cup Categories) : OL!Name(p, ids) <=>
       /\ ids \subseteq TheLists \cup TheCategories /\ TheNames' = [TheNames EXCEPT ![p] = ids]
       /\ UNCHANGED <<TheLists, TheCategories, TheMembers, Gone>>
BY DEF OL!vars, OL!AddList, OL!SetCategory, OL!Name, TheLists, TheCategories, TheMembers, Gone, TheNames,
       Owned, Held, Named
LEMMA OperatorRemoves ==
  ASSUME NEW cs \in SUBSET Categories, NEW ls \in SUBSET Lists
  PROVE  OL!Remove(cs, ls) <=>
           /\ cs \subseteq TheCategories /\ ls \subseteq TheLists
           /\ \A p \in Profiles : TheNames[p] \cap (cs \cup ls) = {}
           /\ TheLists' = TheLists \ ls /\ TheCategories' = TheCategories \ cs
           /\ TheMembers' = [c \in Categories |-> IF c \in cs THEN {} ELSE TheMembers[c] \ ls]
           /\ Gone' = Gone \cup cs \cup ls
           /\ UNCHANGED TheNames
BY DEF OL!Remove, OL!Unnamed, TheLists, TheCategories, TheMembers, Gone, TheNames,
       Owned, Held, Named

----------------------------------------------------------------------------
(* Most steps are none to the operator.                                    *)

LEMMA Stutter ==
  ASSUME UNCHANGED <<TheLists, TheCategories, Owned, profile>>, rows'.member = rows.member
  PROVE  UNCHANGED OL!vars
<1>1. \A c \in Categories : Held(c)' = Held(c)
  BY SameHeld
<1>2. TheMembers' = TheMembers
  BY <1>1 DEF TheMembers
<1>3. Gone' = Gone /\ TheNames' = TheNames
  BY DEF Gone, TheNames, Named
<1>4. OL!vars = <<TheLists, TheCategories, TheMembers, Gone, TheNames>>
  BY OperatorView
<1>5. OL!vars' = <<TheLists', TheCategories', TheMembers', Gone', TheNames'>>
  BY DEF OL!vars, TheLists, TheCategories, TheMembers, Gone, TheNames, Owned, Held, Named
<1> QED
  BY <1>2, <1>3, <1>4, <1>5

LEMMA RowsStutter ==
  ASSUME UNCHANGED <<rows, issued, profile>>
  PROVE  UNCHANGED OL!vars
BY Stutter DEF TheLists, TheCategories, Owned

LEMMA TuneStutter ==
  ASSUME rows \in Library, rows' \in Library, UNCHANGED <<profile, Owned>>,
         rows.content = rows'.content, rows.categories = rows'.categories,
         rows.removed = rows'.removed, rows.member = rows'.member
  PROVE  UNCHANGED OL!vars
BY TuningHolds, Stutter DEF Holds, TheLists, TheCategories

LEMMA ServeRefines ==
  ASSUME IInv, IInv', NEW a \in Callers, ServeNext(a)
  PROVE  OL!Next \/ UNCHANGED OL!vars
<1>0. rows \in Library /\ rows' \in Library
  BY DEF IInv, TypeOK
<1>1. CASE CreateCustomList(a)
  <2>1. PICK l \in CustomLists \ issued :
          rows' = WithList(rows, l, request[a].content) /\ issued' = issued \cup {l}
    BY <1>1 DEF CreateCustomList, Commit
  <2>2. request[a].content \in Contents
    BY <1>1 DEF IInv, RequestsMakeSense, CreateCustomList, Serve
  <2>3. TheLists' = TheLists \cup {l} /\ TheCategories' = TheCategories /\ rows'.member = rows.member
    BY <1>0, <2>1, <2>2, ListHolds DEF Holds, TheLists, TheCategories
  <2>4. l \in Lists /\ l \notin Feeds /\ l \notin TheLists \cup Gone
    BY KnownAreOwned, KindsAssumption DEF Lists
  <2>5. Owned' = Owned \cup {l}
    BY <2>1, <2>4 DEF Owned
  <2>6. Gone' = Gone
    BY <2>3, <2>4, <2>5, KindsAssumption DEF Gone, TheLists, TheCategories, KnownCategories
  <2>7. ASSUME NEW c \in Categories PROVE Held(c)' = Held(c)
    <3>1. rows.member[c][l] # "added" /\ l \notin Catalog(c)
      BY <2>4, KindsAssumption, CatalogAssumption DEF IInv, AddedMembersExist, TheLists, Catalog
    <3>2. Merged(rows', c) = Merged(rows, c)
      BY <2>3, <3>1 DEF Merged, TheLists
    <3>3. KnownCategory(rows', c) <=> KnownCategory(rows, c)
      BY <2>3 DEF TheCategories, KnownCategories
    <3> QED
      BY <3>2, <3>3 DEF Held
  <2>8. TheMembers' = TheMembers /\ TheNames' = TheNames
    BY <1>1, <2>7 DEF TheMembers, TheNames, Named, CreateCustomList
  <2>9. OL!AddList(l)
    BY <2>3, <2>4, <2>6, <2>8, OperatorView
  <2> QED
    BY <2>4, <2>9 DEF OL!Next
<1>2. CASE UpdateCustomList(a)
  <2> DEFINE l == request[a].list
  <2>1. request[a].content \in Contents /\ l \in CustomLists
    BY <1>2 DEF IInv, RequestsMakeSense, UpdateCustomList, Serve
  <2>2. rows' = WithList(rows, l, request[a].content) /\ UNCHANGED <<issued, profile>>
    BY <1>2 DEF UpdateCustomList, Commit
  <2>3. l \in TheLists
    BY <1>2, <2>1, KindsAssumption DEF UpdateCustomList, TheLists, KnownLists, KnownList, Lists
  <2>4. TheLists' = TheLists /\ TheCategories' = TheCategories /\ rows'.member = rows.member
    <3>1. /\ TheLists' = TheLists \cup {l} /\ TheCategories' = TheCategories
          /\ rows'.member = rows.member
      BY <1>0, <2>1, <2>2, ListHolds DEF Holds, TheLists, TheCategories
    <3> QED
      BY <2>3, <3>1
  <2> QED
    BY <2>2, <2>4, Stutter DEF Owned
<1>3. CASE SetListSourceEnabled(a)
  <2>1. /\ request[a].list \in Lists /\ request[a].source \in Sources
        /\ request[a].op \in {"disable", "enable"}
    BY <1>3 DEF IInv, RequestsMakeSense, SetListSourceEnabled
  <2> QED
    BY <1>0, <1>3, <2>1, TuningKeeps, TuneStutter DEF SetListSourceEnabled, Commit, Owned
<1>4. CASE AddListSource(a)
  <2>1. request[a].list \in Lists
    BY <1>4 DEF IInv, RequestsMakeSense, AddListSource, Serve
  <2>2. PICK f \in Feeds \ issued :
          rows' = WithFeed(rows, f, request[a].list) /\ issued' = issued \cup {f}
    BY <1>4 DEF AddListSource, Commit
  <2>3. Owned' = Owned /\ UNCHANGED profile
    BY <1>4, <2>2 DEF Owned, AddListSource
  <2> QED
    BY <1>0, <2>1, <2>2, <2>3, TuningKeeps, TuneStutter
<1>5. CASE RemoveListSource(a) \/ RemoveListSourceTorn(a)
  <2>1. request[a].source \in Feeds
    BY <1>5 DEF IInv, RequestsMakeSense, RemoveListSource, RemoveListSourceTorn, Serve
  <2> DEFINE f == request[a].source
  <2>2. /\ rows' \in {FeedDeleted(rows, f), SwitchesDeleted(FeedDeleted(rows, f), f)}
        /\ UNCHANGED <<issued, profile>>
    BY <1>5 DEF RemoveListSource, RemoveListSourceTorn, Commit
  <2>3. /\ rows.content = rows'.content /\ rows.categories = rows'.categories
        /\ rows.removed = rows'.removed /\ rows.member = rows'.member
    BY <1>0, <2>1, <2>2, TuningKeeps
  <2> QED
    BY <1>0, <2>2, <2>3, TuneStutter DEF Owned
<1>6. CASE SetListValues(a)
  <2>1. request[a].list \in Lists /\ request[a].values \in SUBSET Values /\ request[a].said \in Said
    BY <1>6 DEF IInv, TypeOK, Request, RequestsMakeSense, SetListValues, Serve
  <2> QED
    BY <1>0, <1>6, <2>1, TuningKeeps, TuneStutter DEF SetListValues, Commit, Owned
<1>7. CASE RequestFails(a)
  BY <1>7, RowsStutter DEF RequestFails
<1> QED
  BY <1>1, <1>2, <1>3, <1>4, <1>5, <1>6, <1>7 DEF ServeNext

LEMMA MembersRefine ==
  ASSUME IInv, NEW c \in Categories, NEW desired \in SUBSET Lists,
         CreateCategory(c, desired) \/ UpdateCategory(c, desired)
  PROVE  OL!SetCategory(c, desired)
<1>1. /\ IInv' /\ desired \subseteq TheLists
      /\ TheLists' = TheLists /\ TheCategories' = TheCategories \cup {c}
      /\ rows'.member = [rows.member EXCEPT ![c] = MembershipRows(c, desired)]
  BY MembersStep DEF Holds, TheLists, TheCategories
<1>2. rows \in Library /\ rows' \in Library
  BY <1>1 DEF IInv, TypeOK
<1>3. c \notin Gone
  <2>1. CASE CreateCategory(c, desired)
    BY <2>1, KnownAreOwned DEF CreateCategory
  <2>2. CASE UpdateCategory(c, desired)
    <3>1. Holds(registry, KnownLists(rows), KnownCategories(rows))
      BY <2>2, UnlockedAgree DEF UpdateCategory, Commit
    <3> QED
      BY <2>2, <3>1 DEF UpdateCategory, Holds, KnownCategories, Gone, TheCategories
  <2> QED
    BY <2>1, <2>2
<1>4. issued' \ {c} = issued \ {c} /\ profile' = profile /\ (issued' # issued => c \in CustomCategories)
  BY DEF CreateCategory, UpdateCategory
<1>5. Gone' = Gone
  BY <1>1, <1>3, <1>4 DEF Gone, Owned
<1>6. Held(c)' = desired
  <2>1. rows'.member[c] = MembershipRows(c, desired) /\ desired \in SUBSET KnownLists(rows')
    BY <1>1, <1>2 DEF Library, TheLists
  <2>2. Merged(rows', c) = desired
    BY <1>2, <2>1, MergedIsDesired
  <2>3. KnownCategory(rows', c)
    BY <1>1 DEF TheCategories, KnownCategories
  <2> QED
    BY <2>2, <2>3 DEF Held
<1>7. ASSUME NEW d \in Categories, d # c PROVE Held(d)' = Held(d)
  <2>1. rows'.member[d] = rows.member[d]
    BY <1>1, <1>2, <1>7 DEF Library
  <2>2. KnownCategory(rows', d) <=> KnownCategory(rows, d)
    BY <1>1, <1>7 DEF TheCategories, KnownCategories
  <2> QED
    BY <1>1, <2>1, <2>2 DEF Held, Merged, TheLists
<1>8. TheMembers' = [TheMembers EXCEPT ![c] = desired] /\ TheNames' = TheNames
  BY <1>4, <1>6, <1>7 DEF TheMembers, TheNames, Named
<1> QED
  BY <1>1, <1>3, <1>5, <1>8, OperatorView

(* What removals do to the rows, as the operator sees it.                  *)
LEMMA RemovalRefines ==
  ASSUME IInv, IInv', DeletedNameNothing, UNCHANGED <<issued, profile>>,
         NEW cs \in SUBSET TheCategories, NEW ls \in SUBSET TheLists,
         ProfilesNaming(cs, ls) = {},
         TheLists' = TheLists \ ls, TheCategories' = TheCategories \ cs,
         \A c \in Categories \ cs, l \in Lists \ ls : rows'.member[c][l] = rows.member[c][l]
  PROVE  OL!Remove(cs, ls)
<1>1. cs \in SUBSET Categories /\ ls \in SUBSET Lists
  BY DEF TheCategories, KnownCategories, TheLists, KnownLists
<1>2. \A p \in Profiles : TheNames[p] \cap (cs \cup ls) = {}
  <2> SUFFICES ASSUME NEW p \in Profiles PROVE Named(p) \cap (cs \cup ls) = {}
    BY DEF TheNames
  <2>1. CASE profile[p].shelf = "none"
    BY <2>1 DEF DeletedNameNothing, NoProfile, NoComposition, Named
  <2>2. CASE profile[p].shelf # "none"
    <3>1. profile[p].composition.categories \cap cs = {} /\ profile[p].composition.lists \cap ls = {}
      BY <2>2 DEF ProfilesNaming
    <3>2. /\ profile[p].composition.lists \subseteq Lists
          /\ profile[p].composition.categories \subseteq Categories
      BY DEF IInv, TypeOK, Profile, Composition
    <3> QED
      BY <1>1, <3>1, <3>2, KindsAssumption DEF Named
  <2> QED
    BY <2>1, <2>2
<1>3. ASSUME NEW c \in Categories PROVE Held(c)' = IF c \in cs THEN {} ELSE Held(c) \ ls
  <2>1. KnownCategory(rows', c) <=> KnownCategory(rows, c) /\ c \notin cs
    BY DEF TheCategories, KnownCategories
  <2>2. c \notin cs => Merged(rows', c) = Merged(rows, c) \ ls
    BY <1>1 DEF Merged, TheLists, KnownLists
  <2> QED
    BY <2>1, <2>2 DEF Held
<1>4. TheMembers' = [c \in Categories |-> IF c \in cs THEN {} ELSE TheMembers[c] \ ls]
  BY <1>3 DEF TheMembers
<1>5. Owned' = Owned /\ cs \cup ls \subseteq Owned
  BY KnownAreOwned DEF Owned
<1>6. Gone' = Gone \cup cs \cup ls
  <2>1. cs \cap TheLists = {} /\ ls \cap TheCategories = {}
    BY <1>1, KindsAssumption DEF TheLists, TheCategories, KnownLists, KnownCategories
  <2> QED
    BY <1>5, <2>1 DEF Gone
<1>7. TheNames' = TheNames
  BY DEF TheNames, Named
<1> QED
  BY <1>1, <1>2, <1>4, <1>6, <1>7, OperatorRemoves

LEMMA RemoveListRefines ==
  ASSUME IInv, IInv', DeletedNameNothing, NEW l \in Lists, RemoveList(l)
  PROVE  OL!Remove({}, {l})
<1>1. rows \in Library /\ Holds(registry, KnownLists(rows), KnownCategories(rows))
  BY UnlockedAgree DEF RemoveList, Commit, IInv, TypeOK
<1>2. rows' = ListRowsRemoved(rows, {l}) /\ UNCHANGED <<issued, profile>> /\ ProfilesNaming({}, {l}) = {}
  BY DEF RemoveList, Commit
<1>3. l \in TheLists
  BY <1>1 DEF RemoveList, Holds, KnownLists, TheLists
<1>4. /\ TheLists' = TheLists \ {l} /\ TheCategories' = TheCategories
      /\ \A c \in Categories, k \in Lists \ {l} : rows'.member[c][k] = rows.member[c][k]
  BY <1>1, <1>2, ListRemovalHolds DEF Holds, TheLists, TheCategories
<1>5. {} \in SUBSET TheCategories /\ {l} \in SUBSET TheLists /\ TheCategories \ {} = TheCategories
  BY <1>3
<1> QED
  BY <1>2, <1>4, <1>5, RemovalRefines

LEMMA RemoveCategoryRefines ==
  ASSUME IInv, IInv', DeletedNameNothing, NEW c \in Categories, NEW held \in SUBSET Lists,
         RemoveCategory(c, held)
  PROVE  OL!Remove({c}, held)
<1> DEFINE r == CategoryRowsRemoved(rows, c)
<1>1. /\ rows \in Library /\ Holds(registry, KnownLists(rows), KnownCategories(rows))
      /\ Merged(registry, c) = Merged(rows, c)
  BY UnlockedAgree DEF RemoveCategory, Commit, IInv, TypeOK
<1>2. /\ rows' = ListRowsRemoved(r, held) /\ UNCHANGED <<issued, profile>>
      /\ ProfilesNaming({c}, held) = {}
  BY DEF RemoveCategory, RemovedFromLibrary, Commit
<1>3. {c} \in SUBSET TheCategories /\ held \in SUBSET TheLists
  BY <1>1 DEF RemoveCategory, Holds, KnownCategories, TheCategories, TheLists, Merged
<1>4. /\ r \in Library
      /\ KnownLists(r) = TheLists /\ KnownCategories(r) = TheCategories \ {c}
      /\ \A d \in Categories \ {c}, k \in Lists : r.member[d][k] = rows.member[d][k]
  <2>1. r \in Library
    BY <1>1, CategoryEditTypes
  <2>2. KnownLists(r) = TheLists /\ KnownCategories(r) = TheCategories \ {c}
    BY <1>1, CategoryRemovalHolds DEF Holds, TheLists, TheCategories
  <2>3. r.member = [rows.member EXCEPT ![c] = NoMembership]
    BY <1>1, CategoryRemovalHolds
  <2>4. \A d \in Categories \ {c} : r.member[d] = rows.member[d]
    BY <1>1, <2>3 DEF Library
  <2> QED
    BY <2>1, <2>2, <2>4
<1> HIDE DEF r
<1>5. /\ TheLists' = TheLists \ held /\ TheCategories' = TheCategories \ {c}
      /\ \A d \in Categories \ {c}, k \in Lists \ held : rows'.member[d][k] = rows.member[d][k]
  <2>1. /\ Holds(rows', KnownLists(r) \ held, KnownCategories(r))
        /\ \A d \in Categories, k \in Lists \ held : rows'.member[d][k] = r.member[d][k]
    <3>1. /\ Holds(ListRowsRemoved(r, held), KnownLists(r) \ held, KnownCategories(r))
          /\ \A d \in Categories, k \in Lists :
               ListRowsRemoved(r, held).member[d][k] = IF k \in held THEN "none" ELSE r.member[d][k]
      BY <1>4, ListRemovalHolds
    <3> QED
      BY <1>2, <3>1
  <2> QED
    BY <1>4, <2>1 DEF Holds, TheLists, TheCategories
<1> QED
  BY <1>2, <1>3, <1>5, RemovalRefines

LEMMA ProfileRefines ==
  ASSUME IInv, NEW p \in Profiles, ProfileNext(p)
  PROVE  OL!Next \/ UNCHANGED OL!vars
<1>1. UNCHANGED <<rows, issued>> /\ profile \in [Profiles -> Profile]
  BY DEF ProfileNext, CreateProfile, UpdateProfile, SetArchived, DeleteProfile, IInv, TypeOK
<1>2. UNCHANGED <<TheLists, TheCategories, Gone, TheMembers>>
  BY <1>1 DEF TheLists, TheCategories, Gone, Owned, TheMembers, Held
<1>3. ASSUME NEW c \in Composition, CreateProfile(p, c) \/ UpdateProfile(p, c)
      PROVE  OL!Next
  <2> DEFINE ids == c.lists \cup c.categories
  <2>1. Holds(registry, TheLists, TheCategories)
    BY <1>3, UnlockedAgree DEF CreateProfile, UpdateProfile, TheLists, TheCategories
  <2>2. ids \subseteq TheLists \cup TheCategories /\ ids \in SUBSET (Lists \cup Categories)
    BY <1>3, <2>1 DEF CreateProfile, UpdateProfile, ValidComposition, Holds, Composition
  <2>3. profile' = [profile EXCEPT ![p] = Composed(c)]
    BY <1>3 DEF CreateProfile, UpdateProfile
  <2>4. TheNames' = [TheNames EXCEPT ![p] = ids]
    BY <1>1, <2>3, ComposedType DEF TheNames, Named
  <2> HIDE DEF ids
  <2>5. OL!Name(p, ids) <=> /\ ids \subseteq TheLists \cup TheCategories
                            /\ TheNames' = [TheNames EXCEPT ![p] = ids]
                            /\ UNCHANGED <<TheLists, TheCategories, TheMembers, Gone>>
    BY <2>2, OperatorView
  <2>6. OL!Name(p, ids)
    BY <1>2, <2>2, <2>4, <2>5
  <2> QED
    BY <2>2, <2>6 DEF OL!Next
<1>4. ASSUME NEW shelf \in {"kept", "archived"}, SetArchived(p, shelf) PROVE UNCHANGED OL!vars
  <2>1. profile' = [profile EXCEPT ![p] = [profile[p] EXCEPT !.shelf = shelf]]
    BY <1>4 DEF SetArchived
  <2>2. [profile[p] EXCEPT !.shelf = shelf].composition = profile[p].composition
    BY <1>1 DEF Profile
  <2>3. TheNames' = TheNames
    BY <1>1, <2>1, <2>2 DEF TheNames, Named
  <2>4. OL!vars = <<TheLists, TheCategories, TheMembers, Gone, TheNames>>
    BY OperatorView
  <2>5. OL!vars' = <<TheLists', TheCategories', TheMembers', Gone', TheNames'>>
    BY DEF OL!vars, TheLists, TheCategories, TheMembers, Gone, TheNames, Owned, Held, Named
  <2> QED
    BY <1>2, <2>3, <2>4, <2>5
<1>5. ASSUME DeleteProfile(p) PROVE OL!Next
  <2>1. TheNames' = [TheNames EXCEPT ![p] = {}]
    BY <1>1, <1>5 DEF DeleteProfile, TheNames, Named, NoProfile, NoComposition
  <2>2. OL!Name(p, {})
    BY <1>2, <2>1, OperatorView
  <2> QED
    BY <2>2 DEF OL!Next
<1> QED
  BY <1>3, <1>4, <1>5 DEF ProfileNext

LEMMA NextRefines == IInv /\ IInv' /\ DeletedNameNothing /\ [Next]_vars => [OL!Next]_(OL!vars)
<1> SUFFICES ASSUME IInv, IInv', DeletedNameNothing, [Next]_vars
             PROVE  OL!Next \/ UNCHANGED OL!vars
  OBVIOUS
<1>1. CASE UNCHANGED vars
  BY <1>1, RowsStutter DEF vars
<1>2. ASSUME NEW a \in Callers, AskNext(a) PROVE UNCHANGED OL!vars
  BY <1>2, RowsStutter DEF AskNext, Ask, AskCreateCustomList, AskUpdateCustomList, AskAddListSource,
                           AskRemoveListSource, AskSetListSourceEnabled, AskSetListValues
<1>3. ASSUME NEW a \in Callers, ServeNext(a) PROVE OL!Next \/ UNCHANGED OL!vars
  BY <1>3, ServeRefines
<1>4. ASSUME NEW c \in Categories, CategoryNext(c) PROVE OL!Next
  BY <1>4, MembersRefine, RemoveCategoryRefines DEF CategoryNext, OL!Next
<1>5. ASSUME NEW l \in Lists, RemoveList(l) PROVE OL!Next
  BY <1>5, RemoveListRefines DEF OL!Next
<1>6. ASSUME NEW p \in Profiles, ProfileNext(p) PROVE OL!Next \/ UNCHANGED OL!vars
  BY <1>6, ProfileRefines
<1>7. CASE Install \/ Restart
  BY <1>7, RowsStutter DEF Install, Restart
<1> QED
  BY <1>1, <1>2, <1>3, <1>4, <1>5, <1>6, <1>7 DEF Next

LEMMA InitRefines == Init => OL!Init
<1> SUFFICES ASSUME Init PROVE OL!Init
  OBVIOUS
<1>1. /\ rows = Untouched /\ issued = {} /\ rows.removed = {} /\ rows.categories = {}
      /\ \A l \in CustomLists : rows.content[l] = NoContent
      /\ \A c \in Categories, l \in Lists : rows.member[c][l] = "none"
  BY DEF Init, Untouched, NoMembership
<1>2. TheLists = ShippedLists /\ TheCategories = ShippedCategories
  BY <1>1, KindsAssumption DEF TheLists, TheCategories, KnownLists, KnownList, KnownCategories,
                               KnownCategory, Lists, Categories
<1>3. Gone = {}
  BY <1>1, <1>2 DEF Gone, Owned, Shipped
<1>4. ASSUME NEW c \in Categories PROVE Held(c) = IF c \in ShippedCategories THEN Carried[c] ELSE {}
  <2>1. KnownCategory(rows, c) <=> c \in ShippedCategories
    BY <1>2 DEF TheCategories, KnownCategories
  <2>2. c \in ShippedCategories => Merged(rows, c) = Carried[c]
    BY <1>1, <1>2, CatalogAssumption DEF Merged, TheLists, Catalog, Lists
  <2> QED
    BY <2>1, <2>2 DEF Held
<1>5. TheMembers = [c \in Categories |-> IF c \in ShippedCategories THEN Carried[c] ELSE {}]
  BY <1>4 DEF TheMembers
<1>6. TheNames = [p \in Profiles |-> {}]
  BY DEF Init, TheNames, Named, NoProfile, NoComposition
<1> QED
  BY <1>2, <1>3, <1>5, <1>6
  DEF OL!Init, TheLists, TheCategories, TheMembers, Gone, Owned, Held, TheNames, Named

(* Rows, differences from the catalog and removal records behave like a    *)
(* plain library, for every catalog and every sequence of edits, failures  *)
(* and restarts.                                                           *)
THEOREM Refinement == Spec => ImplementsOwnedLibrary
<1>1. Spec => [](IInv /\ DeletedNameNothing)
  BY Inductive, DeletedCorrect, PTL
<1> QED
  BY <1>1, InitRefines, NextRefines, PTL DEF Spec, ImplementsOwnedLibrary, OL!Spec
=============================================================================
