------------------------------- MODULE Library -------------------------------
(***************************************************************************)
(* The operator's library: custom lists, their tuning (feeds, switched-off *)
(* sources, verdicts on destinations), categories, removals and profiles   *)
(* that refer to them.  `rows' is what the store holds and `registry' the  *)
(* copy in memory every reader uses.  A writer holds publicationMu from    *)
(* its transaction until it has brought the registry up to date; what the  *)
(* registry becomes then is `coming'.  Requests that are checked before    *)
(* they take the lock wait in `request'.                                   *)
(*                                                                         *)
(* Titles and the order a profile gives its lists are left out.  An        *)
(* identity is random and never issued twice.                              *)
(***************************************************************************)
EXTENDS Integers, FiniteSets

CONSTANTS Callers,
          ShippedLists, CustomLists, ShippedCategories, CustomCategories,
          Carried,         \* per shipped category: the lists the catalog puts in it
          CatalogSources,
          Offered,         \* per shipped list: its sources in the catalog
          Feeds, Values, Contents, Profiles,
          NoList, NoSource, NoContent, Free,
          MaxLists, MaxCategories, MaxFeedsPerList, MaxFeeds, MaxVerdicts

Lists == ShippedLists \cup CustomLists
Categories == ShippedCategories \cup CustomCategories
Sources == CatalogSources \cup Feeds
Shipped == ShippedLists \cup ShippedCategories
Issuable == CustomLists \cup CustomCategories \cup Feeds

ASSUME KindsAssumption ==
  /\ ShippedLists \cap CustomLists = {} /\ ShippedCategories \cap CustomCategories = {}
  /\ Lists \cap Categories = {} /\ CatalogSources \cap Feeds = {}
  /\ Feeds \cap (Lists \cup Categories) = {}
ASSUME CatalogAssumption ==
  /\ Carried \in [ShippedCategories -> SUBSET ShippedLists]
  /\ Offered \in [ShippedLists -> SUBSET CatalogSources]
ASSUME LimitAssumption == MaxCategories \in Nat
ASSUME NothingAssumption ==
  NoList \notin Lists /\ NoSource \notin Sources /\ NoContent \notin Contents

VARIABLES rows, registry, coming,
          profile,  \* per profile, in the store: its shelf and composition
          request,  \* per caller: what passed its checks and waits for the lock
          issued,   \* the identities ever given out
          torn      \* feeds whose removal failed between its two statements

vars == <<rows, registry, coming, profile, request, issued, torn>>

----------------------------------------------------------------------------
Membership == [Lists -> {"none", "added", "removed"}]
Said == {"auto", "include", "exclude"}
Library == [content : [CustomLists -> Contents \cup {NoContent}],
            categories : SUBSET CustomCategories,
            removed : SUBSET Shipped,
            member : [Categories -> Membership],
            feed : [Feeds -> Lists \cup {NoList}],
            off : SUBSET (Lists \X Sources),
            said : [Lists -> [Values -> Said]]]
ASSUME FreeAssumption == Free \notin Library

NoMembership == [l \in Lists |-> "none"]
NoWords == [v \in Values |-> "auto"]
Untouched == [content |-> [l \in CustomLists |-> NoContent], categories |-> {}, removed |-> {},
              member |-> [c \in Categories |-> NoMembership],
              feed |-> [f \in Feeds |-> NoList], off |-> {},
              said |-> [l \in Lists |-> NoWords]]

Composition == [lists : SUBSET Lists, categories : SUBSET Categories,
                exclusions : SUBSET Lists]
Profile == [shelf : {"none", "kept", "archived"}, composition : Composition]
NoComposition == [lists |-> {}, categories |-> {}, exclusions |-> {}]
NoProfile == [shelf |-> "none", composition |-> NoComposition]

Request == [op : {"none", "create list", "update list", "disable", "enable",
                  "add feed", "remove feed", "say"},
            list : Lists \cup {NoList}, source : Sources \cup {NoSource},
            content : Contents \cup {NoContent}, values : SUBSET Values, said : Said]
NoRequest == [op |-> "none", list |-> NoList, source |-> NoSource,
              content |-> NoContent, values |-> {}, said |-> "auto"]

(* What a reader finds, of the rows or of the registry.                    *)
KnownList(r, l) == IF l \in ShippedLists THEN l \notin r.removed ELSE r.content[l] # NoContent
KnownLists(r) == { l \in Lists : KnownList(r, l) }
KnownCategory(r, c) == IF c \in ShippedCategories THEN c \notin r.removed ELSE c \in r.categories
KnownCategories(r) == { c \in Categories : KnownCategory(r, c) }
Catalog(c) == IF c \in ShippedCategories THEN Carried[c] ELSE {}
Merged(r, c) == { l \in KnownLists(r) : \/ r.member[c][l] = "added"
                                        \/ l \in Catalog(c) /\ r.member[c][l] # "removed" }
FeedsOf(r, l) == { f \in Feeds : r.feed[f] = l }
SourcesOf(l) == IF l \in ShippedLists THEN Offered[l] ELSE {}
Resolved(r, c) ==
  ((c.lists \cap KnownLists(r)) \cup UNION { Merged(r, k) : k \in c.categories \cap KnownCategories(r) })
    \ c.exclusions

Init == /\ rows = Untouched /\ registry = Untouched /\ coming = Free
        /\ profile = [p \in Profiles |-> NoProfile]
        /\ request = [a \in Callers |-> NoRequest]
        /\ issued = {} /\ torn = {}

----------------------------------------------------------------------------
(* Requests: the checks made before the lock is taken.                     *)

Ask(a, r) == /\ request[a] = NoRequest
             /\ request' = [request EXCEPT ![a] = r]
             /\ UNCHANGED <<rows, registry, coming, profile, issued, torn>>

AskCreateCustomList(a, text) ==
  /\ Cardinality({ l \in CustomLists : registry.content[l] # NoContent }) < MaxLists
  /\ Ask(a, [NoRequest EXCEPT !.op = "create list", !.content = text])

AskUpdateCustomList(a, l, text) ==
  /\ registry.content[l] # NoContent
  /\ Ask(a, [NoRequest EXCEPT !.op = "update list", !.list = l, !.content = text])

SourceKnown(l, s) == s \in SourcesOf(l) \cup FeedsOf(registry, l)

AskSetListSourceEnabled(a, l, s, switch) ==
  /\ KnownList(registry, l) /\ SourceKnown(l, s)
  /\ Ask(a, [NoRequest EXCEPT !.op = switch, !.list = l, !.source = s])

FeedsFull(l) == \/ Cardinality(FeedsOf(registry, l)) >= MaxFeedsPerList
                \/ Cardinality({ f \in Feeds : registry.feed[f] # NoList }) >= MaxFeeds

AskAddListSource(a, l) ==
  /\ KnownList(registry, l) /\ ~ FeedsFull(l)
  /\ Ask(a, [NoRequest EXCEPT !.op = "add feed", !.list = l])

AskRemoveListSource(a, l, f) ==
  /\ f \in FeedsOf(registry, l)
  /\ Ask(a, [NoRequest EXCEPT !.op = "remove feed", !.list = l, !.source = f])

Standing(l) == { v \in Values : registry.said[l][v] # "auto" }

AskSetListValues(a, l, values, verdict) ==
  /\ KnownList(registry, l) /\ values # {}
  /\ verdict # "auto" => Cardinality(Standing(l) \cup values) <= MaxVerdicts
  /\ Ask(a, [NoRequest EXCEPT !.op = "say", !.list = l, !.values = values, !.said = verdict])

----------------------------------------------------------------------------
(* Writing: publicationMu is taken, the transaction commits, and the       *)
(* registry follows in Install.                                            *)

Unlocked == coming = Free
(* Faulty variant: nobody waits for the lock.                              *)
CommitUnlocked(stored, known) == rows' = stored /\ coming' = known
Commit(stored, known) == Unlocked /\ rows' = stored /\ coming' = known
Serve(a, op) == request[a].op = op /\ request' = [request EXCEPT ![a] = NoRequest]

WithList(r, l, text) == [r EXCEPT !.content[l] = text]

CreateCustomList(a) ==
  /\ Serve(a, "create list")
  /\ \E l \in CustomLists \ issued :
       /\ Commit(WithList(rows, l, request[a].content), WithList(registry, l, request[a].content))
       /\ issued' = issued \cup {l}
  /\ UNCHANGED <<registry, profile, torn>>

UpdateCustomList(a) ==
  LET l == request[a].list
  IN  /\ Serve(a, "update list")
      /\ rows.content[l] # NoContent
      /\ Commit(WithList(rows, l, request[a].content), WithList(registry, l, request[a].content))
      /\ UNCHANGED <<registry, profile, issued, torn>>

Switched(r, l, s, op) == [r EXCEPT !.off = IF op = "disable" THEN @ \cup {<<l, s>>}
                                                             ELSE @ \ {<<l, s>>}]

SetListSourceEnabled(a) ==
  LET l == request[a].list
      s == request[a].source
      op == request[a].op
  IN  /\ op \in {"disable", "enable"} /\ Serve(a, op)
      /\ Commit(Switched(rows, l, s, op), Switched(registry, l, s, op))
      /\ UNCHANGED <<registry, profile, issued, torn>>

WithFeed(r, f, l) == [r EXCEPT !.feed[f] = l]

AddListSource(a) ==
  /\ Serve(a, "add feed")
  /\ \E f \in Feeds \ issued :
       /\ Commit(WithFeed(rows, f, request[a].list), WithFeed(registry, f, request[a].list))
       /\ issued' = issued \cup {f}
  /\ UNCHANGED <<registry, profile, torn>>

(* The store forgets a feed by its identity alone, in two statements; the  *)
(* registry by its list and its identity.                                  *)
FeedDeleted(r, f) == [r EXCEPT !.feed[f] = NoList]
SwitchesDeleted(r, f) == [r EXCEPT !.off = { x \in @ : x[2] # f }]
FeedForgotten(r, l, f) == [r EXCEPT !.feed[f] = IF @ = l THEN NoList ELSE @, !.off = @ \ {<<l, f>>}]

RemoveListSource(a) ==
  LET l == request[a].list
      f == request[a].source
  IN  /\ Serve(a, "remove feed")
      /\ rows.feed[f] # NoList
      /\ Commit(SwitchesDeleted(FeedDeleted(rows, f), f), FeedForgotten(registry, l, f))
      /\ UNCHANGED <<registry, profile, issued, torn>>

(* The first statement has deleted the feed when the second one fails, and *)
(* the caller is told of an error.                                         *)
RemoveListSourceTorn(a) ==
  LET f == request[a].source
  IN  /\ Serve(a, "remove feed") /\ Unlocked
      /\ rows.feed[f] # NoList
      /\ rows' = FeedDeleted(rows, f)
      /\ torn' = torn \cup {f}
      /\ UNCHANGED <<registry, coming, profile, issued>>

WithSaid(r, l, values, verdict) ==
  [r EXCEPT !.said[l] = [v \in Values |-> IF v \in values THEN verdict ELSE @[v]]]

SetListValues(a) ==
  LET req == request[a]
  IN  /\ Serve(a, "say")
      /\ Commit(WithSaid(rows, req.list, req.values, req.said),
                WithSaid(registry, req.list, req.values, req.said))
      /\ UNCHANGED <<registry, profile, issued, torn>>

(* The store refuses or fails, and nothing changes.                        *)
RequestFails(a) ==
  /\ request[a] # NoRequest /\ Unlocked
  /\ request' = [request EXCEPT ![a] = NoRequest]
  /\ UNCHANGED <<rows, registry, coming, profile, issued, torn>>

(* The writer brings the registry up to date and releases the lock.        *)
Install ==
  /\ coming # Free
  /\ registry' = coming /\ coming' = Free
  /\ UNCHANGED <<rows, profile, request, issued, torn>>

----------------------------------------------------------------------------
(* Categories and removals check everything under the lock.                *)

(* The difference between what is wanted and what the catalog carries.     *)
(* Faulty variant: what the catalog carries cannot be taken out.           *)
MembershipRowsAddedOnly(c, desired) ==
  [l \in Lists |-> IF l \in desired \ Catalog(c) THEN "added" ELSE "none"]
MembershipRows(c, desired) ==
  [l \in Lists |-> CASE l \in desired \ Catalog(c) -> "added"
                     [] l \in Catalog(c) \ desired -> "removed"
                     [] OTHER -> "none"]
WithMembers(r, c, desired) == [r EXCEPT !.member[c] = MembershipRows(c, desired)]
WithCategory(r, c, desired) == [WithMembers(r, c, desired) EXCEPT !.categories = @ \cup {c}]

ValidMembers(desired) == desired \subseteq KnownLists(registry)

CreateCategory(c, desired) ==
  /\ c \in CustomCategories \ issued
  /\ ValidMembers(desired)
  /\ Cardinality(registry.categories) < MaxCategories
  /\ Commit(WithCategory(rows, c, desired), WithCategory(registry, c, desired))
  /\ issued' = issued \cup {c}
  /\ UNCHANGED <<registry, profile, request, torn>>

UpdateCategory(c, desired) ==
  /\ KnownCategory(registry, c) /\ ValidMembers(desired)
  /\ Commit(WithMembers(rows, c, desired), WithMembers(registry, c, desired))
  /\ UNCHANGED <<registry, profile, request, issued, torn>>

(* What the store deletes or records for a category and for lists.         *)
CategoryRowsRemoved(r, c) ==
  [r EXCEPT !.categories = @ \ {c}, !.removed = @ \cup ({c} \cap ShippedCategories),
            !.member[c] = NoMembership]
ListRowsRemoved(r, ls) ==
  [r EXCEPT !.content = [l \in CustomLists |-> IF l \in ls THEN NoContent ELSE @[l]],
            !.removed = @ \cup (ls \cap ShippedLists),
            !.said = [l \in Lists |-> IF l \in ls THEN NoWords ELSE @[l]],
            !.off = { x \in @ : x[1] \notin ls },
            !.feed = [f \in Feeds |-> IF @[f] \in ls THEN NoList ELSE @[f]],
            !.member = [c \in Categories |->
                          [l \in Lists |-> IF l \in ls THEN "none" ELSE @[c][l]]]]

(* What the registry forgets: whether a category was the operator's is     *)
(* decided by what the registry holds, whether a list was by its prefix.   *)
(* Faulty variant: the membership stays in the registry.                   *)
ForgetCategoryOnly(r, c) ==
  [r EXCEPT !.categories = @ \ {c}, !.removed = IF c \in r.categories THEN @ ELSE @ \cup {c}]
ForgetCategory(r, c) ==
  [r EXCEPT !.categories = @ \ {c},
            !.removed = IF c \in r.categories THEN @ ELSE @ \cup {c},
            !.member[c] = NoMembership]
(* Faulty variant: a removal is not recorded.                              *)
ForgetListsUnrecorded(r, ls) ==
  [r EXCEPT !.content = [l \in CustomLists |-> IF l \in ls THEN NoContent ELSE @[l]]]
ForgetLists(r, ls) ==
  [r EXCEPT !.content = [l \in CustomLists |-> IF l \in ls THEN NoContent ELSE @[l]],
            !.feed = [f \in Feeds |-> IF @[f] \in ls THEN NoList ELSE @[f]],
            !.off = @ \ (ls \X Sources),
            !.said = [l \in Lists |-> IF l \in ls THEN NoWords ELSE @[l]],
            !.removed = @ \cup (ls \ CustomLists),
            !.member = [c \in Categories |->
                          [l \in Lists |-> IF l \in ls THEN "none" ELSE @[c][l]]]]

(* Archived profiles count: one may be restored.                           *)
(* Faulty variant: archived profiles are forgotten.                        *)
ProfilesNamingKept(cs, ls) ==
  { p \in Profiles : /\ profile[p].shelf = "kept"
                     /\ \/ profile[p].composition.categories \cap cs # {}
                        \/ profile[p].composition.lists \cap ls # {} }
ProfilesNaming(cs, ls) ==
  { p \in Profiles : /\ profile[p].shelf # "none"
                     /\ \/ profile[p].composition.categories \cap cs # {}
                        \/ profile[p].composition.lists \cap ls # {} }

RemovedFromLibrary(r, c, held) == ListRowsRemoved(CategoryRowsRemoved(r, c), held)

(* `held' is empty when the lists of the category are only detached.       *)
RemoveCategory(c, held) ==
  /\ KnownCategory(registry, c) /\ held \in {{}, Merged(registry, c)}
  /\ ProfilesNaming({c}, held) = {}
  /\ Commit(RemovedFromLibrary(rows, c, held),
            ForgetLists(ForgetCategory(registry, c), held))
  /\ UNCHANGED <<registry, profile, request, issued, torn>>

RemoveList(l) ==
  /\ KnownList(registry, l)
  /\ ProfilesNaming({}, {l}) = {}
  /\ Commit(ListRowsRemoved(rows, {l}), ForgetLists(registry, {l}))
  /\ UNCHANGED <<registry, profile, request, issued, torn>>

----------------------------------------------------------------------------
(* Profiles are checked and stored under the read lock.                    *)

ValidComposition(c) ==
  /\ c.lists \cup c.exclusions \subseteq KnownLists(registry)
  /\ c.categories \subseteq KnownCategories(registry)
  /\ c.lists \cap c.exclusions = {}
  /\ Resolved(registry, c) # {}

Composed(c) == [shelf |-> "kept", composition |-> c]

CreateProfile(p, c) ==
  /\ profile[p].shelf = "none" /\ Unlocked /\ ValidComposition(c)
  /\ profile' = [profile EXCEPT ![p] = Composed(c)]
  /\ UNCHANGED <<rows, registry, coming, request, issued, torn>>

UpdateProfile(p, c) ==
  /\ profile[p].shelf = "kept" /\ Unlocked /\ ValidComposition(c)
  /\ profile' = [profile EXCEPT ![p] = Composed(c)]
  /\ UNCHANGED <<rows, registry, coming, request, issued, torn>>

SetArchived(p, shelf) ==
  /\ profile[p].shelf \in {"kept", "archived"} \ {shelf}
  /\ profile' = [profile EXCEPT ![p].shelf = shelf]
  /\ UNCHANGED <<rows, registry, coming, request, issued, torn>>

DeleteProfile(p) ==
  /\ profile[p].shelf = "archived"
  /\ profile' = [profile EXCEPT ![p] = NoProfile]
  /\ UNCHANGED <<rows, registry, coming, request, issued, torn>>

----------------------------------------------------------------------------
(* The process stops anywhere and reads the store when it starts again.    *)
(* It refuses to start on more categories than there may be, and on one of *)
(* the operator's that is said to lack what no catalog gave it.            *)
Loadable(r) == /\ Cardinality(r.categories) <= MaxCategories
               /\ \A c \in CustomCategories, l \in Lists : r.member[c][l] # "removed"

Restart ==
  /\ Loadable(rows)
  /\ registry' = rows /\ coming' = Free
  /\ request' = [a \in Callers |-> NoRequest]
  /\ torn' = {}
  /\ UNCHANGED <<rows, profile, issued>>

AskNext(a) ==
  \/ \E text \in Contents : \/ AskCreateCustomList(a, text)
                            \/ \E l \in CustomLists : AskUpdateCustomList(a, l, text)
  \/ \E l \in Lists : \/ AskAddListSource(a, l)
                      \/ \E f \in Feeds : AskRemoveListSource(a, l, f)
                      \/ \E s \in Sources, switch \in {"disable", "enable"} :
                           AskSetListSourceEnabled(a, l, s, switch)
                      \/ \E values \in SUBSET Values, verdict \in Said :
                           AskSetListValues(a, l, values, verdict)

ServeNext(a) == \/ CreateCustomList(a) \/ UpdateCustomList(a) \/ SetListSourceEnabled(a)
                \/ AddListSource(a) \/ RemoveListSource(a) \/ RemoveListSourceTorn(a)
                \/ SetListValues(a) \/ RequestFails(a)

CategoryNext(c) ==
  \/ \E desired \in SUBSET Lists : CreateCategory(c, desired) \/ UpdateCategory(c, desired)
  \/ \E held \in SUBSET Lists : RemoveCategory(c, held)

ProfileNext(p) ==
  \/ \E c \in Composition : CreateProfile(p, c) \/ UpdateProfile(p, c)
  \/ \E shelf \in {"kept", "archived"} : SetArchived(p, shelf)
  \/ DeleteProfile(p)

Next == \/ \E a \in Callers : AskNext(a) \/ ServeNext(a)
        \/ \E c \in Categories : CategoryNext(c)
        \/ \E l \in Lists : RemoveList(l)
        \/ \E p \in Profiles : ProfileNext(p)
        \/ Install \/ Restart

Spec == Init /\ [][Next]_vars

----------------------------------------------------------------------------
(* Types of the variables.                                                 *)
TypeOK == /\ rows \in Library /\ registry \in Library /\ coming \in Library \cup {Free}
          /\ profile \in [Profiles -> Profile]
          /\ request \in [Callers -> Request]
          /\ issued \subseteq Issuable /\ torn \subseteq Feeds

(* The registry the planner will read next equals what a restart reads     *)
(* back, but for feeds whose removal the store did half.                   *)
Upcoming == IF coming = Free THEN registry ELSE coming
SameButTorn(r, s) ==
  /\ r.content = s.content /\ r.categories = s.categories /\ r.removed = s.removed
  /\ r.member = s.member /\ r.off = s.off /\ r.said = s.said
  /\ \A f \in Feeds : r.feed[f] = s.feed[f] \/ (f \in torn /\ s.feed[f] = NoList)

(* After every sequence of edits of the library, failures and restarts,    *)
(* the copy in memory and the store agree once the writer is done: the     *)
(* two orders and shapes in which list_tuning.go, categories.go and        *)
(* removals.go delete the same things do the same.  And no edit leaves     *)
(* what LoadCategories would refuse: the program can always start again.   *)
MemoryFollows == SameButTorn(Upcoming, rows)
RegistryIsStore == MemoryFollows /\ Loadable(rows)

(* No profile, kept or archived, names a list or a category the library    *)
(* does not hold: the refusal of a removal and the check of a composition  *)
(* cannot miss each other (profilesNaming in removals.go).                 *)
NamesExist == \A p \in Profiles :
  profile[p].shelf # "none" => /\ profile[p].composition.lists \subseteq KnownLists(rows)
                               /\ profile[p].composition.categories \subseteq KnownCategories(rows)

(* A membership that was added holds a list the library still has, in a    *)
(* category it still has: removals.go takes every such row with it.        *)
AddedMembersExist == \A c \in Categories, l \in Lists :
  rows.member[c][l] = "added" => l \in KnownLists(rows) /\ c \in KnownCategories(rows)

(* Every name in the store names something, whatever was removed, archived *)
(* and restored in between, in profiles and in memberships alike.          *)
NothingDangles == NamesExist /\ AddedMembersExist

(* A membership is stored as its difference from the catalog, and the      *)
(* catalog read through that difference gives exactly what was asked for,  *)
(* whatever was removed before (membershipRows and mergedCategory).        *)
MembersAreWhatWasAsked == [][
  \A c \in Categories, desired \in SUBSET Lists :
    CreateCategory(c, desired) \/ UpdateCategory(c, desired) =>
      KnownCategory(rows', c) /\ Merged(rows', c) = desired
  ]_vars

(* Stored differences from a catalog, removal records and rows of its own  *)
(* give the operator a library that behaves like a plain one: an edit of   *)
(* one list or category never changes another, removals are for good, and  *)
(* names never dangle.                                                     *)
OL == INSTANCE OwnedLibrary WITH
        FirstLists <- ShippedLists, FirstCategories <- ShippedCategories, FirstMembers <- Carried,
        lists <- KnownLists(rows), categories <- KnownCategories(rows),
        members <- [c \in Categories |-> IF KnownCategory(rows, c) THEN Merged(rows, c) ELSE {}],
        gone <- ((Shipped \cup issued) \ Feeds) \ (KnownLists(rows) \cup KnownCategories(rows)),
        named <- [p \in Profiles |-> profile[p].composition.lists \cup profile[p].composition.categories]
ImplementsOwnedLibrary == OL!Spec
----------------------------------------------------------------------------
(* The inductive invariant behind the properties.                          *)

(* What waits for the lock is of the kind its operation takes.             *)
RequestsMakeSense == \A a \in Callers :
  LET req == request[a]
  IN  /\ req.op \in {"create list", "update list"} => req.content \in Contents
      /\ req.op = "update list" => req.list \in CustomLists
      /\ req.op \in {"disable", "enable", "add feed", "remove feed", "say"} => req.list \in Lists
      /\ req.op \in {"disable", "enable"} => req.source \in Sources
      /\ req.op = "remove feed" => req.source \in Feeds

(* All that names a feed names it with the list it was added to, so that   *)
(* forgetting it by its identity alone forgets nothing else.               *)
FeedNames(f) == { l \in Lists : \/ rows.feed[f] = l \/ registry.feed[f] = l \/ Upcoming.feed[f] = l
                                \/ <<l, f>> \in rows.off
                                \/ \E a \in Callers : request[a].source = f /\ request[a].list = l }
FeedsHaveOneList == \A f \in Feeds : /\ \A l, k \in FeedNames(f) : l = k
                                     /\ FeedNames(f) # {} => f \in issued

IdentitiesAreIssued == /\ \A l \in CustomLists : rows.content[l] # NoContent => l \in issued
                       /\ rows.categories \subseteq issued

IInv == /\ TypeOK /\ MemoryFollows /\ NamesExist /\ AddedMembersExist
        /\ RequestsMakeSense /\ FeedsHaveOneList /\ IdentitiesAreIssued

=============================================================================
