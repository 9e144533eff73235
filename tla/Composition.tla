---------------------------- MODULE Composition ----------------------------
(***************************************************************************)
(* A profile and what is built from it.  The operator names lists and a    *)
(* category, leaves some out, orders them, and corrects lists; the library *)
(* and the stored sightings change meanwhile.  A build plans what the      *)
(* composition resolves to at that moment; a forecast tells beforehand     *)
(* whether it will fit and what each list costs.  Lists are numbers, in    *)
(* the order of their ids.                                                 *)
(***************************************************************************)
EXTENDS Planner, Priorities, SequencesExt

CONSTANTS Lists,       \* the lists there are
          Base,        \* the definition of each list
          Pool,        \* the sightings that may be stored
          Targets,     \* the formats
          Bare,        \* the names of one label
          Bytes,       \* what the lines of a file take
          Requests,    \* the compositions an operator may ask for
          Values,      \* the values the operator may exclude or include
          Cutoff,      \* the time of the builds
          MaxEdits     \* bound: changes made

\* There is one category.
Category == "category"

\* What a profile may ask for: lists, categories, what to leave out,
\* an order, and names of its own for some lists.
Compositions ==
  [lists : SUBSET Lists, categories : SUBSET {Category}, exclusions : SUBSET Lists, priority : Seq(Lists),
   domains : UNION {[given -> SUBSET Names] : given \in SUBSET Lists}]

ASSUME WrittenOneWay ==
  /\ Lists \subseteq Nat /\ IsFiniteSet(Lists)
  /\ \A l \in Lists : \A s \in Base[l].seeds : s.value \in Resources
  /\ \A s \in Pool : s.value \in Resources
  /\ Values \subseteq Resources /\ Requests \subseteq Compositions

ASSUME FinitelyMany ==
  /\ IsFiniteSet(Names) /\ IsFiniteSet(Pool) /\ IsFiniteSet(Values)
  /\ \A l \in Lists : IsFiniteSet(Base[l].seeds)
  /\ \A t \in Targets : t.max \in Nat /\ t.copies \in Nat \ {0}

VARIABLES target,   \* the format of the output
          keep,     \* the output keeps addresses beside names
          library,  \* the lists of the library
          members,  \* the lists the category carries
          defaults, \* the stored default priority
          rows,     \* the composition of the profile, row by row
          verdicts, \* what is excluded from and included in each list
          material, \* the stored sightings
          read,     \* the lists that have been refreshed
          build,    \* the outcome of the last build
          edits     \* changes made so far

inputs == <<target, keep, library, members, defaults, rows, verdicts, material, read>>
vars == <<inputs, build, edits>>

-----------------------------------------------------------------------------
(* Compositions and priorities.                                            *)

\* The lists of the category own their slots, the others follow.
DefaultPriority ==
  MergePriority(defaults, MergePriority(Ids(members \cap library), Ids(library)))

\* The lists a composition stands for, in the order of its priority; positions
\* of lists that are gone are dropped, and what was not ordered comes last.
ResolveComposition(composition) ==
  LET all == composition.lists \cup (IF Category \in composition.categories THEN members ELSE {})
  IN  MergePriority(composition.priority, Ids((all \ composition.exclusions) \cap library))

NoPriority(composition) == [composition EXCEPT !.priority = <<>>]

ValidComposition(requested) ==
  LET resolved == ResolveComposition(NoPriority(requested))
  IN  /\ requested.lists \cup requested.exclusions \subseteq library
      /\ requested.lists \cap requested.exclusions = {}
      /\ resolved # <<>>
      /\ IsInjective(requested.priority)
      /\ Entries(requested.priority) \cup DOMAIN requested.domains \subseteq Entries(resolved)

\* The order is completed when the composition is stored.
Stored(requested, order) ==
  [requested EXCEPT !.priority = MergePriority(order, ResolveComposition(NoPriority(requested)))]

-----------------------------------------------------------------------------
(* The rows of a composition.  Only the priority has an order, by the      *)
(* position that is a column of its rows.                                  *)

NoRows == [lists |-> {}, categories |-> {}, exclusions |-> {}, priorities |-> {}, domains |-> {}]

ClearComposition(table) == NoRows

\* Each part is a set, and so is what the order ranks.
Normalized(composition) ==
  /\ composition.lists # {} \/ composition.categories # {}
  /\ composition.lists \cap composition.exclusions = {}
  /\ Cardinality(Entries(composition.priority)) = Len(composition.priority)

WriteComposition(table, composition) ==
  [table EXCEPT !.lists = @ \cup composition.lists,
                !.categories = @ \cup composition.categories,
                !.exclusions = @ \cup composition.exclusions,
                !.priorities = @ \cup {<<i, composition.priority[i]>> : i \in DOMAIN composition.priority}]

WriteListDomains(table, composition) ==
  [table EXCEPT !.domains = @ \cup {<<l, composition.domains[l]>> : l \in DOMAIN composition.domains}]

Replaced(table, composition) ==
  WriteListDomains(WriteComposition(ClearComposition(table), composition), composition)

\* ORDER BY position.
ByPosition(pairs) ==
  LET inOrder == Arranged(pairs, [row \in pairs |-> row[1]])
  IN  [i \in 1 .. Len(inOrder) |-> inOrder[i][2]]

ReadListDomains(table) ==
  [l \in {row[1] : row \in table.domains} |-> (CHOOSE row \in table.domains : row[1] = l)[2]]

ReadComposition(table) ==
  [lists |-> table.lists, categories |-> table.categories, exclusions |-> table.exclusions,
   priority |-> ByPosition(table.priorities), domains |-> ReadListDomains(table)]

profile == ReadComposition(rows)

-----------------------------------------------------------------------------
(* Definitions.                                                            *)

SeedText(s) == Text(Value(s.value))

\* The catalog orders the seeds of a list.
Seed(place, v, component, class) == [place |-> place, value |-> v, component |-> component, class |-> class]

Added == 0

TunedDefinition(list) ==
  LET base == Base[list]
      on == {s \in base.seeds : SeedText(s) \notin verdicts[list].excluded}
      added == {Seed(Added, v, base.first, "manual") :
                  v \in {w \in verdicts[list].included : \A s \in on : SeedText(s) # Text(w)}}
  IN  [list |-> list, components |-> base.components, required |-> base.required,
       first |-> base.first, seeds |-> on \cup added, excluded |-> verdicts[list].excluded]

\* A profile's own names take the place of the list's, in the component of the
\* first name of the catalog, else in the list's first; its addresses stay.
WithProfileListDomains(def, names) ==
  LET replaced == {s \in def.seeds : IsName(s.value)}
      catalogued == {s \in replaced : s.place # Added}
      component == IF catalogued = {} THEN def.first
                   ELSE (CHOOSE s \in catalogued : \A t \in catalogued : s.place <= t.place).component
  IN  [def EXCEPT !.seeds = (@ \ replaced) \cup {Seed(Added, Name("suffix", n), component, "manual") : n \in names}]

Effective(composition, list) ==
  IF list \in DOMAIN composition.domains
  THEN WithProfileListDomains(TunedDefinition(list), composition.domains[list])
  ELSE TunedDefinition(list)

-----------------------------------------------------------------------------
(* Preparing a plan.                                                       *)

\* The plan before ownership is settled.
PlanSet(composition, lists) ==
  UNION {ListPlan(Effective(composition, l), material, target, keep, Cutoff) : l \in lists}

Incomplete(composition, lists) ==
  {l \in lists : \/ l \notin read
                 \/ Uncovered(Effective(composition, l), PlanSet(composition, {l})) # {}}

\* What a file will hold: in some formats a list has groups of its own, and in
\* a RouterOS script a name goes into one list for each family.
Projection(rules) ==
  UNION {{<<IF target.groups = 0 THEN 0 ELSE r.list, Value(r)>>}
           \X (1 .. (IF IsName(r) THEN target.copies ELSE 1)) : r \in rules}

ProjectedRuleCount(rules) == Cardinality(Projection(rules))

\* The check before anything is rendered: a rule the format cannot carry, one
\* that has expired, or two for one destination of a component.
Refused(rules) ==
  \/ \E r \in rules : \/ ~Supports(target, r.kind) \/ (r.expires # NoExpiry /\ r.expires <= Cutoff)
                      \/ target.dotted /\ IsName(r) /\ r.at \in Bare
  \/ \E p, r \in rules : p # r /\ CandidateKey(p) = CandidateKey(r)

Outcome(kind, rules) == [kind |-> kind, rules |-> rules]

Exceeds(count) == target.max # 0 /\ count > target.max

\* Mutant: the limit is compared before ownership is settled.
LimitFirst(composition, bounded) ==
  LET order == ResolveComposition(composition)
      all == PlanSet(composition, Entries(order))
  IN  IF order = <<>> THEN Outcome("unlisted", {})
      ELSE IF Entries(order) \ read # {} THEN Outcome("unread", {})
      ELSE IF Incomplete(composition, Entries(order)) # {} THEN Outcome("coverage", {})
      ELSE IF Refused(all) THEN Outcome("refused", {})
      ELSE IF bounded /\ Exceeds(ProjectedRuleCount(all)) THEN Outcome("limit", {})
      ELSE Outcome("plan", ApplyListPriority(all, order))

PrepareProfile(composition, bounded) ==
  LET order == ResolveComposition(composition)
      all == PlanSet(composition, Entries(order))
      owned == ApplyListPriority(all, order)
  IN  IF order = <<>> THEN Outcome("unlisted", {})
      ELSE IF Entries(order) \ read # {} THEN Outcome("unread", {})
      ELSE IF Incomplete(composition, Entries(order)) # {} THEN Outcome("coverage", {})
      ELSE IF Refused(all) \/ Refused(owned) THEN Outcome("refused", {})
      ELSE IF bounded /\ Exceeds(ProjectedRuleCount(owned)) THEN Outcome("limit", {})
      ELSE Outcome("plan", owned)

\* The groups a file defines: each list has as many as its entries fill.
Groups(rules) ==
  LET entries(l) == {e \in Projection(rules) : e[1][1] = l}
      shards(l) == (Cardinality(entries(l)) + target.perGroup - 1) \div target.perGroup
  IN  IF target.groups = 0 THEN {} ELSE UNION {{l} \X (1 .. shards(l)) : l \in {r.list : r \in rules}}

\* The bounds of the renderers, and those on the size of a file.
Writable(rules) ==
  LET names == {e \in Projection(rules) : IsName(e[1][2])}
      blocks == Projection(rules) \ names
  IN  /\ target.lines # 0 => ProjectedRuleCount(rules) <= target.lines
      /\ Cardinality(Groups(rules)) <= target.groups
      /\ Bytes.name * Cardinality(names) + Bytes.block * Cardinality(blocks)
           + Bytes.group * Cardinality(Groups(rules)) <= target.bytes

\* Each renderer refuses an empty file, and one beyond its own bounds.
Render(prepared) ==
  IF prepared.kind # "plan" THEN prepared
  ELSE IF prepared.rules = {} THEN Outcome("empty", {})
  ELSE IF ~Writable(prepared.rules) THEN Outcome("unwritable", {})
  ELSE prepared

\* What is shown of the rules that the lists without gaps would take.
Shown(lists, missing, available, rules, overlaps) ==
  LET projected == ProjectedRuleCount(rules)
  IN  IF projected = 0
      THEN [told |-> TRUE, fits |-> FALSE, incomplete |-> lists, share |-> <<>>, overlaps |-> {}]
      ELSE [told |-> TRUE,
            fits |-> missing = {} /\ ~Exceeds(projected),
            incomplete |-> missing,
            share |-> [l \in Entries(available) |-> Cardinality({r \in rules : r.list = l})],
            overlaps |-> overlaps]

\* What the check refuses is not told of.
NoForecast == [told |-> FALSE, fits |-> FALSE, incomplete |-> {}, share |-> <<>>, overlaps |-> {}]

\* The plan of what is complete, measured without the limit.
PrepareAvailable(composition, missing, available, whole) ==
  IF missing = {} THEN whole
  ELSE IF available = <<>> THEN Outcome("plan", {})
  ELSE PrepareProfile([composition EXCEPT !.lists = Entries(available), !.categories = {},
                                          !.exclusions = {}, !.priority = available], FALSE)

Forecast(composition) ==
  LET order == ResolveComposition(composition)
      shown(measured, missing, available) ==
        IF measured.kind # "plan" THEN NoForecast
        ELSE Shown(Entries(order), missing, available, measured.rules,
                   Overlaps(PlanSet(composition, Entries(available))))
      told(whole, missing) ==
        LET available == Arranged(Entries(order) \ missing, [l \in Entries(order) |-> Place(order, l)])
        IN  shown(PrepareAvailable(composition, missing, available, whole), missing, available)
      found(whole) ==
        told(whole, IF whole.kind \in {"unread", "coverage"}
                    THEN Incomplete(composition, Entries(order)) ELSE {})
  IN  found(PrepareProfile(composition, FALSE))

-----------------------------------------------------------------------------
(* Actions.                                                                *)

NotBuilt == Outcome("none", {})

NoVerdicts == [l \in Lists |-> [excluded |-> {}, included |-> {}]]

Init ==
  /\ target \in Targets /\ keep = FALSE
  /\ library = Lists /\ members = {} /\ defaults = <<>> /\ verdicts = NoVerdicts
  /\ rows \in {Replaced(NoRows, Stored(c, Ids(Lists))) : c \in {d \in Requests : ValidComposition(d)}}
  /\ material = {} /\ read \in {{}, Lists} /\ build = NotBuilt /\ edits = 0

Edit == edits < MaxEdits /\ edits' = edits + 1 /\ build' = NotBuilt

\* A new profile takes the library's order where its request has none.
CreateProfile(requested) ==
  /\ Edit /\ ValidComposition(requested)
  /\ LET stored == Stored(requested, IF requested.priority = <<>> THEN DefaultPriority ELSE requested.priority)
     IN  Normalized(stored) /\ rows' = WriteListDomains(WriteComposition(NoRows, stored), stored)
  /\ UNCHANGED <<target, keep, library, members, defaults, verdicts, material, read>>

SetProfileComposition(requested) ==
  /\ Edit /\ ValidComposition(requested)
  /\ LET stored == Stored(requested, requested.priority)
     IN  Normalized(stored) /\ rows' = Replaced(rows, stored)
  /\ UNCHANGED <<target, keep, library, members, defaults, verdicts, material, read>>

SetDefaultPriority(order) ==
  /\ Edit /\ Len(order) = Cardinality(library) /\ Entries(order) = library
  /\ defaults' = order
  /\ UNCHANGED <<target, keep, library, members, rows, verdicts, material, read>>

\* The category takes in or gives up a list.
EditCategory(list) ==
  /\ Edit /\ list \in library
  /\ members' = IF list \in members THEN members \ {list} ELSE members \cup {list}
  /\ UNCHANGED <<target, keep, library, defaults, rows, verdicts, material, read>>

\* The program starts with a catalog that lacks a list, or has it again.
CatalogChanges(list) ==
  /\ Edit
  /\ library' = IF list \in library THEN library \ {list} ELSE library \cup {list}
  /\ UNCHANGED <<target, keep, members, defaults, rows, verdicts, material, read>>

\* Off, on, or as the sources say.
SetVerdict(list, v) ==
  /\ Edit
  /\ \E off, on \in BOOLEAN :
       /\ ~(off /\ on)
       /\ verdicts' = [verdicts EXCEPT
            ![list].excluded = (@ \ {Text(v)}) \cup (IF off THEN {Text(v)} ELSE {}),
            ![list].included = (@ \ {v}) \cup (IF on THEN {v} ELSE {})]
  /\ UNCHANGED <<target, keep, library, members, defaults, rows, material, read>>

SetKeepAddresses ==
  /\ Edit /\ (target.exact \/ target.suffix) /\ (target.addresses \/ target.prefixes)
  /\ keep' = ~keep
  /\ UNCHANGED <<target, library, members, defaults, rows, verdicts, material, read>>

\* A refresh of a list; its sources report something, or nothing.
Refresh(list) ==
  /\ Edit
  /\ read' = read \cup {list}
  /\ \E news \in {{}} \cup {{s} : s \in {t \in Pool : t.list = list}} :
       /\ news # {} \/ list \notin read
       /\ material' = material \cup news
  /\ UNCHANGED <<target, keep, library, members, defaults, rows, verdicts>>

Build ==
  /\ build' = Render(PrepareProfile(profile, TRUE))
  /\ UNCHANGED <<inputs, edits>>

Next ==
  \/ \E r \in Requests : CreateProfile(r) \/ SetProfileComposition(r)
  \/ \E order \in {Ids(Lists), Reverse(Ids(Lists))} : SetDefaultPriority(order)
  \/ \E l \in Lists : EditCategory(l) \/ CatalogChanges(l) \/ Refresh(l)
  \/ \E l \in Lists, v \in Values : SetVerdict(l, v)
  \/ SetKeepAddresses
  \/ Build

Spec == Init /\ [][Next]_vars

-----------------------------------------------------------------------------
(* Properties.                                                             *)

\* A plan steers exactly what is admitted of the lists it stands for: merging
\* equal and adjacent rules, and giving a destination to one of several lists,
\* neither loses a destination nor adds one.
PlanRoutesTheMaterial ==
  build.kind = "plan" =>
    Routed(build.rules) =
      UNION {Routed(Accepted(Effective(profile, l), material, target, keep, Cutoff)) :
               l \in Entries(ResolveComposition(profile))}

\* The order the operator gave the lists, then the order of their ids.
Precedes(a, b) ==
  LET given == Entries(profile.priority)
      at(l) == CHOOSE i \in 1 .. Len(profile.priority) : profile.priority[i] = l
  IN  CASE a \in given /\ b \in given -> at(a) < at(b)
        [] a \notin given /\ b \notin given -> a < b
        [] OTHER -> a \in given

\* A destination that two lists of a profile offer belongs to the one the
\* operator placed first, however lists have joined and left since, and no list
\* spends a rule on what a rule of an earlier one steers already.
OwnershipIsSettled ==
  \A p, r \in build.rules :
    p.list # r.list /\ Precedes(p.list, r.list) => ~(Endpoints(r) \subseteq Endpoints(p))

\* A forecast is what the next build finds of the plan: it promises a fit exactly
\* when the plan will be rendered, whatever the renderer's own bounds then say of
\* it, counts each list's rules in the file, names a list as incomplete only when
\* there will be no plan, and tells nothing only of what the check refuses.
ForecastIsTheBuild ==
  build.kind # "none" /\ ValidComposition(profile) =>
    \A forecast \in {Forecast(profile)} :
        /\ forecast.fits <=> build.kind \in {"plan", "unwritable"}
        /\ forecast.told /\ forecast.incomplete = {} <=> build.kind \in {"plan", "unwritable", "limit"}
        /\ build.kind = "refused" => ~forecast.told
        /\ build.kind = "plan" =>
             \A l \in Entries(ResolveComposition(profile)) :
               forecast.share[l] = Cardinality({r \in build.rules : r.list = l})

\* The lists shown as overlapping are the ones that steer a common destination,
\* though only the names and widths above each rule are looked up.
OverlapsAreShared ==
  build.kind = "plan" =>
    LET lists == Entries(ResolveComposition(profile))
        rules(l) == {r \in PlanSet(profile, lists) : r.list = l}
    IN  Forecast(profile).overlaps =
          {pair \in SUBSET lists : \E a, b \in lists : /\ pair = {a, b} /\ a # b
                                                       /\ Routed(rules(a)) \cap Routed(rules(b)) # {}}
=============================================================================
