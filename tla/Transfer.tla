------------------------------ MODULE Transfer ------------------------------
(***************************************************************************)
(* A configuration goes from one installation to another in a file.  The   *)
(* export reads the rows in one transaction and the default order after    *)
(* it; the operator carries the file, previews it and applies it to an     *)
(* empty database, whose registries follow the commit.  Releases before    *)
(* this one wrote other words and left parts out.  Lists, categories and   *)
(* all rows are numbers; within a file rows go by references of its own.   *)
(***************************************************************************)
EXTENDS Priorities, SequencesExt

CONSTANTS Catalogs,       \* the catalogs a release may ship
          Configurations, \* what a database may hold at first
          Pool,           \* identities there are, per kind of row
          Refs,           \* references a file numbers its rows by, per kind
          Forms,          \* the forms a file may come in
          Installations,
          MaxEdits        \* bound: changes an operator makes

\* The catalog is [lists, local, carries, sources, targets]: all lists, those
\* found on this network, the lists of each category, the sources of each
\* list, and the formats with whether they take both names and addresses.

VARIABLES catalog,   \* per installation: the catalog of its release
          store,     \* per installation: the rows
          registry,  \* per installation: the library held in memory
          mutex,     \* per installation: who holds publicationMu
          up,        \* per installation: the process runs
          export,    \* per installation: an export under way
          file,      \* the file the operator has
          previewed, \* per installation: the file the last preview accepted
          job,       \* per installation: an import under way
          came,      \* per installation: the import nothing was changed since
          edits      \* changes made so far

vars == <<catalog, store, registry, mutex, up, export, file, previewed, job, came, edits>>

-----------------------------------------------------------------------------
(* Rows.                                                                   *)

Nothing == [x \in {} |-> x]
f ++ g == [x \in DOMAIN f \cup DOMAIN g |-> IF x \in DOMAIN f THEN f[x] ELSE g[x]]
\* Beside what a file carries: feeds of the operator's own, what devices were
\* given, and everything that publications, builds and deletions left behind.
EmptyStore ==
  [interval |-> "unset", order |-> <<>>, lists |-> Nothing, categories |-> {}, memberships |-> {},
   removals |-> {}, off |-> {}, words |-> {}, feeds |-> Nothing, profiles |-> Nothing, devices |-> Nothing,
   outputs |-> Nothing, trusted |-> {}, history |-> FALSE]

View(rows) == [lists |-> rows.lists, categories |-> rows.categories, memberships |-> rows.memberships,
               removals |-> rows.removals, off |-> rows.off, words |-> rows.words, feeds |-> rows.feeds]

\* The library that rows, or a document, make of a catalog.
KnownLists(shipped, d) == (shipped \ d.removals) \cup DOMAIN d.lists
Shipped(c, k) == IF k \in DOMAIN c.carries THEN c.carries[k] ELSE {}
Stated(d, k, state) == {m.list : m \in {n \in d.memberships : n.category = k /\ n.state = state}}
Members(c, d, k) == (Shipped(c, k) \ Stated(d, k, "removed")) \cup Stated(d, k, "added")
Resolved(c, d, p, known) ==
  ((p.lists \cup UNION {Members(c, d, k) : k \in p.categories \ d.removals}) \ p.exclusions) \cap known

\* The first category that carries a list owns its slot; those that none
\* carries follow.
Grouped(c, d) ==
  LET known == KnownLists(c.lists, d)
      groups == (DOMAIN c.carries \cup d.categories) \ d.removals
      slot == [l \in known |->
                Cardinality({k \in groups : \A owner \in groups : l \in Members(c, d, owner) => k < owner})]
      Before(a, b) == slot[a] < slot[b] \/ (slot[a] = slot[b] /\ a < b)
  IN  Arranged(known, [l \in known |-> Cardinality({other \in known : Before(other, l)})])
DefaultPriority(c, d, order) == MergePriority(order, Grouped(c, d))

NoDevice == 0

-----------------------------------------------------------------------------
(* Identities.  Those of one kind are apart from those of another and from *)
(* what a release ships; custom-list-1 and so on are apart from identities.*)

Kinds == {"lists", "categories", "profiles", "devices", "outputs"}
ShippedLists == UNION {c.lists : c \in Catalogs}
ShippedCategories == UNION {DOMAIN c.carries : c \in Catalogs}
Drawn(kind) == Pool[kind] \cup Entries(Refs[kind])

ASSUME IdentitiesApart ==
  /\ \A kind \in Kinds :
       /\ IsFiniteSet(Pool[kind]) /\ Pool[kind] \subseteq Nat
       /\ Refs[kind] \in Seq(Nat) /\ IsInjective(Refs[kind]) /\ Cardinality(Pool[kind]) <= Len(Refs[kind])
       /\ Pool[kind] \cap Entries(Refs[kind]) = {}
       /\ Drawn(kind) \cap (ShippedLists \cup ShippedCategories \cup {NoDevice}) = {}
  /\ \A kind, other \in Kinds : kind # other => Drawn(kind) \cap Drawn(other) = {}

\* No list is shipped under an identity of the operator's lists, "custom-" and more.
ASSUME ShippedAside ==
  \A l \in ShippedLists : \A a, b \in Drawn("lists") : l < a <=> l < b

ASSUME CatalogsAreFinite ==
  \A c \in Catalogs :
    /\ {"lists", "local", "carries"} \subseteq DOMAIN c
    /\ IsFiniteSet(c.lists) /\ c.lists \subseteq Nat
    /\ IsFiniteSet(DOMAIN c.carries) /\ DOMAIN c.carries \subseteq Nat
    /\ \A k \in DOMAIN c.carries : c.carries[k] \subseteq c.lists

\* Rows have all the tables, and speak of lists and categories there may be.
TypedProfile(p) ==
  /\ DOMAIN p = {"lists", "categories", "exclusions", "priority", "domains", "archived"}
  /\ p.lists \cup p.exclusions \cup DOMAIN p.domains \subseteq ShippedLists \cup Pool.lists
  /\ p.categories \subseteq ShippedCategories \cup Pool.categories
  /\ p.priority \in Seq(ShippedLists \cup Pool.lists)
TypedOutput(o) ==
  /\ {"profile", "device"} \subseteq DOMAIN o
  /\ o.profile \in Pool.profiles /\ o.device \in Pool.devices \cup {NoDevice}
Typed(rows) ==
  /\ DOMAIN rows = DOMAIN EmptyStore
  /\ rows.order \in Seq(ShippedLists \cup Pool.lists)
  /\ DOMAIN rows.lists \subseteq Pool.lists /\ rows.categories \subseteq Pool.categories
  /\ rows.memberships \subseteq [category : ShippedCategories \cup Pool.categories,
                                 list : ShippedLists \cup Pool.lists, state : {"added", "removed"}]
  /\ \A x \in rows.off : {"list", "source"} \subseteq DOMAIN x /\ x.list \in ShippedLists \cup Pool.lists
  /\ \A x \in rows.words : "list" \in DOMAIN x /\ x.list \in ShippedLists \cup Pool.lists
  /\ DOMAIN rows.profiles \subseteq Pool.profiles /\ \A k \in DOMAIN rows.profiles : TypedProfile(rows.profiles[k])
  /\ DOMAIN rows.devices \subseteq Pool.devices
  /\ DOMAIN rows.outputs \subseteq Pool.outputs /\ \A k \in DOMAIN rows.outputs : TypedOutput(rows.outputs[k])
ASSUME ConfigurationsAreRows == \A rows \in Configurations : Typed(rows)

-----------------------------------------------------------------------------
(* The document.                                                           *)

ReadLibrary(rows) == [lists |-> rows.lists, categories |-> rows.categories,
                      memberships |-> rows.memberships, removals |-> rows.removals]
\* An address of a feed may hold a secret: the feed stays behind, and with it
\* what is said of it.
ReadTunings(rows) == [off |-> {x \in rows.off : x.source \notin DOMAIN rows.feeds},
                      words |-> rows.words, omitted |-> Cardinality(DOMAIN rows.feeds)]
ReadProfiles(rows) == [profiles |-> rows.profiles]
ReadDevices(rows) == [devices |-> rows.devices]
ReadOutputs(rows) == [outputs |-> rows.outputs]
ReadRows(rows) ==
  [interval |-> IF rows.interval = "unset" THEN "off" ELSE rows.interval, order |-> rows.order]
    ++ ReadLibrary(rows) ++ ReadTunings(rows) ++ ReadProfiles(rows) ++ ReadDevices(rows) ++ ReadOutputs(rows)

\* Identities replaced all through a document; those not named stay.
To(name, id) == IF id \in DOMAIN name THEN name[id] ELSE id
All(name, ids) == {To(name, id) : id \in ids}
InOrder(name, seq) == [k \in DOMAIN seq |-> To(name, seq[k])]
Keyed(name, rows) ==
  [id \in All(name, DOMAIN rows) |-> rows[CHOOSE old \in DOMAIN rows : To(name, old) = id]]
Elsewhere(name, p) ==
  [p EXCEPT !.lists = All(name, @), !.categories = All(name, @), !.exclusions = All(name, @),
            !.priority = InOrder(name, @), !.domains = Keyed(name, @)]
Rebound(name, o) == [o EXCEPT !.profile = To(name, @), !.device = To(name, @)]
Belonging(name, m) == [m EXCEPT !.category = To(name, @), !.list = To(name, @)]
About(name, x) == [x EXCEPT !.list = To(name, @)]
Renamed(d, name) ==
  [d EXCEPT !.order = InOrder(name, @), !.lists = Keyed(name, @), !.categories = All(name, @),
            !.memberships = {Belonging(name, m) : m \in @},
            !.off = {About(name, x) : x \in @}, !.words = {About(name, x) : x \in @},
            !.profiles = Keyed(name, [k \in DOMAIN @ |-> Elsewhere(name, @[k])]),
            !.devices = Keyed(name, @), !.outputs = Keyed(name, [k \in DOMAIN @ |-> Rebound(name, @[k])])]

\* custom-list-1, custom-list-2 and so on, in the order of the identities.
Numbered(ids, refs) == [id \in ids |-> refs[Cardinality({other \in ids : other <= id})]]
References(d) ==
  Numbered(DOMAIN d.lists, Refs.lists) ++ Numbered(d.categories, Refs.categories)
    ++ Numbered(DOMAIN d.profiles, Refs.profiles) ++ Numbered(DOMAIN d.devices, Refs.devices)
    ++ Numbered(DOMAIN d.outputs, Refs.outputs)
\* Faulty variant: the saved order keeps the identities of the database.
CanonicalizeButOrder(d) == [Renamed(d, References(d)) EXCEPT !.order = d.order]
CanonicalizeTransferReferences(d) == Renamed(d, References(d))

CompleteTransferDefaultPriority(c, d) ==
  LET allowed == ((c.lists \ c.local) \ d.removals) \cup DOMAIN d.lists
  IN  [d EXCEPT !.order = MergePriority(@, Ids(allowed))]

-----------------------------------------------------------------------------
(* What a document must satisfy where it is read.                          *)

PortableCategories(c) == {k \in DOMAIN c.carries : c.carries[k] \cap c.local = {}}
CatalogSources(i, list) ==
  IF list \in DOMAIN catalog[i].sources /\ list \notin registry[i].removals THEN catalog[i].sources[list] ELSE {}

ValidComposition(c, d, p, lists, categories) ==
  LET known == lists \ d.removals
      resolved == Resolved(c, d, p, known)
  IN  /\ p.lists \cup p.exclusions \subseteq known
      /\ p.categories \subseteq categories \ d.removals
      /\ p.lists \cap p.exclusions = {}
      /\ resolved # {}
      /\ IsInjective(p.priority)
      /\ DOMAIN p.domains \cup Entries(p.priority) \subseteq resolved

\* What the validation writes back: a priority ends with what it did not name.
Prioritized(p, resolved) == [p EXCEPT !.priority = MergePriority(@, Ids(resolved))]
Normalized(c, d) ==
  LET known == KnownLists(c.lists \ c.local, d)
  IN  [d EXCEPT !.profiles = [k \in DOMAIN @ |-> Prioritized(@[k], Resolved(c, d, @[k], known))]]

PortableLists(c, d) == (c.lists \ c.local) \cup DOMAIN d.lists
ValidLibrary(c, d) ==
  LET lists == PortableLists(c, d)
      categories == PortableCategories(c) \cup d.categories
  IN  /\ d.removals \subseteq (c.lists \ c.local) \cup PortableCategories(c)
      /\ \A m \in d.memberships :
           /\ m.category \in categories /\ m.list \in lists
           /\ m.category \in d.categories => m.state = "added"
ValidTunings(i, d) ==
  /\ \A x \in d.off \cup d.words : x.list \in PortableLists(catalog[i], d)
  /\ \A x \in d.off : x.source \in CatalogSources(i, x.list)
ValidProfiles(c, d) ==
  \A k \in DOMAIN d.profiles :
    /\ Entries(d.profiles[k].priority) \subseteq PortableLists(c, d)
    /\ ValidComposition(c, d, d.profiles[k], PortableLists(c, d), PortableCategories(c) \cup d.categories)
ValidBindings(c, d) ==
  /\ \A k \in DOMAIN d.devices : d.devices[k].target \in DOMAIN c.targets
  /\ \A k \in DOMAIN d.outputs : LET o == d.outputs[k] IN
       /\ o.profile \in DOMAIN d.profiles /\ o.target \in DOMAIN c.targets
       /\ o.device # NoDevice => /\ o.device \in DOMAIN d.devices
                                 /\ d.devices[o.device].target = o.target
       /\ o.keep => c.targets[o.target]
       /\ \A n \in DOMAIN d.outputs :
            d.outputs[n].profile = o.profile /\ d.outputs[n].target = o.target => n = k
ValidTransferShape(i, d, ordered) ==
  LET c == catalog[i]
  IN  /\ ValidLibrary(c, d) /\ ValidTunings(i, d)
      /\ ordered => Entries(d.order) = PortableLists(c, d) \ d.removals
      /\ ValidProfiles(c, d) /\ ValidBindings(c, d)

CarriesDefaultPriority(version) == version >= 13
\* Most parts of a file have had their words changed: each says a thing in the
\* words of now or in those of before, not in both.
Parts == {"memberships", "tunings", "lists", "domains", "outputs", "custom lists", "profiles"}
SaidOnce(word) == word # "both"
ReadsMemberships(words) == SaidOnce(words["memberships"])
ReadsTunings(words) == SaidOnce(words["tunings"])
ReadsProfile(words) == SaidOnce(words["lists"]) /\ SaidOnce(words["domains"])
ReadsOutputs(words) == SaidOnce(words["outputs"])
ReadsDocument(words) == SaidOnce(words["custom lists"]) /\ SaidOnce(words["profiles"])
OneVocabulary(words) ==
  /\ ReadsMemberships(words) /\ ReadsTunings(words) /\ ReadsProfile(words)
  /\ ReadsOutputs(words) /\ ReadsDocument(words)
\* Versions are 10 for v1.0 to 14 for v1.4; strict is JSON with no key twice,
\* no key unknown and nothing after it.
Readable(form) ==
  /\ form.strict
  /\ form.version \in 10 .. 14
  /\ form.omission <=> form.version > 10
  /\ CarriesDefaultPriority(form.version) => form.order
  /\ OneVocabulary(form.words)
Throughout(words) == [part \in Parts |-> words]
ThisRelease == [version |-> 14, words |-> Throughout("now"), omission |-> TRUE, order |-> TRUE, strict |-> TRUE]

ValidateTransfer(i, f) == /\ Readable(f.form)
                          /\ ValidTransferShape(i, f.document, CarriesDefaultPriority(f.form.version))

-----------------------------------------------------------------------------
(* State.                                                                  *)

NoFile == [form |-> ThisRelease, document |-> Nothing, origin |-> Nothing]
NoExport == [at |-> "idle", document |-> Nothing, rows |-> Nothing]
NoJob == [at |-> "idle", document |-> Nothing, name |-> Nothing, origin |-> Nothing]
NoOrigin == Nothing

Init == /\ catalog \in [Installations -> Catalogs]
        /\ store \in [Installations -> Configurations]
        /\ \E i \in Installations : store[i] = EmptyStore
        /\ \E i \in Installations : store[i] # EmptyStore
        /\ registry = [i \in Installations |-> View(store[i])]
        /\ mutex = [i \in Installations |-> "free"]
        /\ up = [i \in Installations |-> TRUE]
        /\ export = [i \in Installations |-> NoExport]
        /\ file = NoFile
        /\ previewed = [i \in Installations |-> NoFile]
        /\ job = [i \in Installations |-> NoJob]
        /\ came = [i \in Installations |-> NoOrigin]
        /\ edits = 0

-----------------------------------------------------------------------------
(* Export.                                                                 *)

ReadSnapshot(i) ==
  /\ up[i] /\ file = NoFile /\ \A k \in Installations : export[k].at = "idle"
  /\ export' = [export EXCEPT ![i] = [at |-> "read", document |-> ReadRows(store[i]), rows |-> store[i]]]
  /\ UNCHANGED <<catalog, store, registry, mutex, up, file, previewed, job, came, edits>>

\* The order is what is stored by now, for the library as memory has it by now.
OrderByNow(i) == DefaultPriority(catalog[i], registry[i], store[i].order)
Exported(i) ==
  LET read == [export[i].document EXCEPT !.order = OrderByNow(i)]
  IN  CompleteTransferDefaultPriority(catalog[i], CanonicalizeTransferReferences(read))

FinishExport(i) ==
  /\ export[i].at = "read" /\ mutex[i] = "free"
  /\ LET d == Exported(i)
         origin == [rows |-> export[i].rows, order |-> OrderByNow(i), catalog |-> catalog[i], form |-> ThisRelease]
     IN  file' = IF ValidTransferShape(i, d, TRUE)
                 THEN [form |-> ThisRelease, document |-> Normalized(catalog[i], d), origin |-> origin]
                 ELSE file
  /\ export' = [export EXCEPT ![i] = NoExport]
  /\ UNCHANGED <<catalog, store, registry, mutex, up, previewed, job, came, edits>>

\* The file is one of an earlier release instead, or somebody edited it.
Told(d, form) == [d EXCEPT !.order = IF form.order THEN @ ELSE <<>>, !.omitted = IF form.omission THEN @ ELSE 0]
Rewrite(form) ==
  /\ file # NoFile /\ file.form = ThisRelease /\ form # ThisRelease
  /\ file' = [form |-> form, document |-> Told(file.document, form), origin |-> [file.origin EXCEPT !.form = form]]
  /\ UNCHANGED <<catalog, store, registry, mutex, up, export, previewed, job, came, edits>>

-----------------------------------------------------------------------------
(* Import.                                                                 *)

Preview(i) ==
  /\ up[i] /\ file # NoFile /\ ValidateTransfer(i, file)
  /\ previewed' = [previewed EXCEPT ![i] = file]
  /\ UNCHANGED <<catalog, store, registry, mutex, up, export, file, job, came, edits>>

\* Random identities, no two alike; only those of lists have an order to show.
FreshNames(d) ==
  LET rest == Numbered(d.categories, Ids(Pool.categories)) ++ Numbered(DOMAIN d.profiles, Ids(Pool.profiles))
                ++ Numbered(DOMAIN d.devices, Ids(Pool.devices)) ++ Numbered(DOMAIN d.outputs, Ids(Pool.outputs))
  IN  {lists ++ rest : lists \in {f \in [DOMAIN d.lists -> Pool.lists] : IsInjective(f)}}

\* One import at a time: the handler holds the delivery gate.
PrepareApply(i) ==
  /\ up[i] /\ job[i].at = "idle" /\ file # NoFile /\ previewed[i] = file /\ ValidateTransfer(i, file)
  /\ LET d == Normalized(catalog[i], file.document)
         kept == IF CarriesDefaultPriority(file.form.version) THEN d ELSE [d EXCEPT !.order = <<>>]
     IN  \E name \in FreshNames(kept) :
           job' = [job EXCEPT ![i] = [at |-> "prepared", document |-> kept, name |-> name, origin |-> file.origin]]
  /\ UNCHANGED <<catalog, store, registry, mutex, up, export, file, previewed, came, edits>>

\* Devices come without a secret and without consent to automatic delivery.
RowsOf(d) ==
  [EmptyStore EXCEPT !.interval = d.interval, !.order = d.order, !.lists = d.lists, !.categories = d.categories,
                     !.memberships = d.memberships, !.removals = d.removals, !.off = d.off, !.words = d.words,
                     !.profiles = d.profiles, !.devices = d.devices, !.outputs = d.outputs]
Imported(j) == RowsOf(Renamed(j.document, j.name))
\* Faulty variant: memory gets the rows under the references of the document.
PreparedByReference(j) == View(RowsOf(j.document))
PreparedRegistries(j) == View(Imported(j))

MayReceive(rows) == rows = EmptyStore
CommitTransfer(i) ==
  /\ job[i].at = "prepared" /\ mutex[i] = "free" /\ MayReceive(store[i])
  /\ mutex' = [mutex EXCEPT ![i] = "import"]
  /\ store' = [store EXCEPT ![i] = Imported(job[i])]
  /\ job' = [job EXCEPT ![i].at = "committed"]
  /\ came' = [came EXCEPT ![i] = job[i].origin]
  /\ UNCHANGED <<catalog, registry, up, export, file, previewed, edits>>

\* Not empty, or the transaction fails.
RefuseTransfer(i) ==
  /\ job[i].at = "prepared" /\ mutex[i] = "free"
  /\ job' = [job EXCEPT ![i] = NoJob]
  /\ UNCHANGED <<catalog, store, registry, mutex, up, export, file, previewed, came, edits>>

InstallTransferRegistries(i) ==
  /\ job[i].at = "committed"
  /\ registry' = [registry EXCEPT ![i] = PreparedRegistries(job[i])]
  /\ mutex' = [mutex EXCEPT ![i] = "free"]
  /\ job' = [job EXCEPT ![i] = NoJob]
  /\ UNCHANGED <<catalog, store, up, export, file, previewed, came, edits>>

Crash(i) ==
  /\ up[i] /\ edits < MaxEdits
  /\ up' = [up EXCEPT ![i] = FALSE] /\ edits' = edits + 1
  /\ mutex' = [mutex EXCEPT ![i] = "free"]
  /\ registry' = [registry EXCEPT ![i] = View(EmptyStore)]
  /\ job' = [job EXCEPT ![i] = NoJob] /\ export' = [export EXCEPT ![i] = NoExport]
  /\ UNCHANGED <<catalog, store, file, previewed, came>>

Restart(i) ==
  /\ ~up[i] /\ up' = [up EXCEPT ![i] = TRUE]
  /\ registry' = [registry EXCEPT ![i] = View(store[i])]
  /\ UNCHANGED <<catalog, store, mutex, export, file, previewed, job, came, edits>>

-----------------------------------------------------------------------------
(* What operators change meanwhile, here in brief.  What changes the       *)
(* library waits for publicationMu; the rest does not.                     *)

Write(i, rows) ==
  /\ up[i] /\ edits < MaxEdits /\ rows # store[i]
  /\ store' = [store EXCEPT ![i] = rows]
  /\ came' = [came EXCEPT ![i] = NoOrigin]
  /\ edits' = edits + 1
  /\ UNCHANGED <<catalog, mutex, up, export, file, previewed, job>>
WriteLibrary(i, rows) ==
  /\ mutex[i] = "free" /\ Write(i, rows) /\ registry' = [registry EXCEPT ![i] = View(rows)]

CreateCustomList(i) ==
  \E l \in Pool.lists \ DOMAIN store[i].lists :
    WriteLibrary(i, [store[i] EXCEPT !.lists = @ ++ [k \in {l} |-> "late"]])

\* All that says something of the list goes; what profiles keep of it stays.
RemoveList(i, l) ==
  /\ l \in KnownLists(catalog[i].lists, registry[i])
  /\ \A k \in DOMAIN store[i].profiles : l \notin store[i].profiles[k].lists
  /\ LET rows == store[i]
     IN  WriteLibrary(i, [rows EXCEPT
           !.lists = [k \in DOMAIN @ \ {l} |-> @[k]],
           !.removals = IF l \in DOMAIN rows.lists THEN @ ELSE @ \cup {l},
           !.memberships = {m \in @ : m.list # l}, !.off = {x \in @ : x.list # l},
           !.words = {x \in @ : x.list # l}, !.feeds = [f \in {g \in DOMAIN @ : @[g] # l} |-> @[f]]])

\* Of all orders, the one that takes the last list to the front.
SetDefaultPriority(i) ==
  /\ Write(i, [store[i] EXCEPT !.order = MergePriority(<<Last(OrderByNow(i))>>, OrderByNow(i))])
  /\ UNCHANGED registry

\* A connection, with a secret and with consent.
RegisterDevice(i, target) ==
  \E k \in Pool.devices \ DOMAIN store[i].devices :
    /\ target \in DOMAIN catalog[i].targets
    /\ Write(i, [store[i] EXCEPT !.devices = @ ++ [new \in {k} |-> [target |-> target]], !.trusted = @ \cup {k}])
    /\ UNCHANGED registry

Edit(i) == \/ CreateCustomList(i)
           \/ \E l \in catalog[i].lists \cup Pool.lists : RemoveList(i, l)
           \/ SetDefaultPriority(i)
           \/ \E t \in DOMAIN catalog[i].targets : RegisterDevice(i, t)

Next == \/ \E i \in Installations :
             \/ ReadSnapshot(i) \/ FinishExport(i) \/ Preview(i) \/ PrepareApply(i) \/ CommitTransfer(i)
             \/ RefuseTransfer(i) \/ InstallTransferRegistries(i) \/ Crash(i) \/ Restart(i) \/ Edit(i)
        \/ \E form \in Forms : Rewrite(form)

Spec == Init /\ [][Next]_vars

-----------------------------------------------------------------------------
(* Properties.                                                             *)

\* What an operator sees of an installation beside the orders.
Meaning(c, d) ==
  [interval |-> IF d.interval = "unset" THEN "off" ELSE d.interval,
   lists |-> [l \in KnownLists(c.lists, d) |-> IF l \in DOMAIN d.lists THEN d.lists[l] ELSE "shipped"],
   members |-> [k \in (DOMAIN c.carries \cup d.categories) \ d.removals |->
                  Members(c, d, k) \cap KnownLists(c.lists, d)],
   off |-> {x \in d.off : x.source \notin DOMAIN d.feeds}, words |-> d.words,
   profiles |-> [k \in DOMAIN d.profiles |->
     LET p == d.profiles[k]
     IN  [routed |-> Resolved(c, d, p, KnownLists(c.lists, d)), named |-> p.lists, categories |-> p.categories,
          domains |-> p.domains, archived |-> p.archived]],
   devices |-> d.devices, outputs |-> d.outputs]

\* The same under other names: of lists, categories, profiles, devices, outputs.
Renaming(m, name) ==
  LET Profile(p) == [p EXCEPT !.routed = All(name, @), !.named = All(name, @), !.categories = All(name, @),
                              !.domains = Keyed(name, @)]
  IN  [m EXCEPT !.lists = Keyed(name, @), !.members = Keyed(name, [k \in DOMAIN @ |-> All(name, @[k])]),
                !.off = {About(name, x) : x \in @}, !.words = {About(name, x) : x \in @},
                !.profiles = Keyed(name, [k \in DOMAIN @ |-> Profile(@[k])]), !.devices = Keyed(name, @),
                !.outputs = Keyed(name, [k \in DOMAIN @ |-> Rebound(name, @[k])])]

\* A profile routes its lists in the order of its priority, the rest by identity.
Routes(c, d, p) == MergePriority(p.priority, Ids(Resolved(c, d, p, KnownLists(c.lists, d))))

Portable(c) == [c EXCEPT !.lists = @ \ c.local, !.carries = [k \in PortableCategories(c) |-> @[k]]]
SamePortable(c, other) ==
  Portable(c).lists = Portable(other).lists /\ Portable(c).carries = Portable(other).carries

Correspondences(a, b) ==
  {l ++ k ++ p ++ d ++ o : l \in Bijection(DOMAIN a.lists, DOMAIN b.lists), k \in Bijection(a.categories, b.categories),
     p \in Bijection(DOMAIN a.profiles, DOMAIN b.profiles), d \in Bijection(DOMAIN a.devices, DOMAIN b.devices),
     o \in Bijection(DOMAIN a.outputs, DOMAIN b.outputs)}

Precedes(seq, a, b) == \E j, k \in 1 .. Len(seq) : j < k /\ seq[j] = a /\ seq[k] = b

\* As text custom-list-10 comes before custom-list-2: the references of more
\* than nine lists have not the order of the lists.
InReferenceOrder(d) ==
  \A j, k \in 1 .. Cardinality(DOMAIN d.lists) : j < k => Refs.lists[j] < Refs.lists[k]

(* ADR 0033: an import makes of an empty database what the exported one    *)
(* was, under fresh identities: the same library, profiles that route the  *)
(* same lists in the same order, the same connections and outputs, and,    *)
(* from a file that tells it, the default order the export read; with      *)
(* nothing in it that the file may not carry (feeds, secrets, consent,     *)
(* history), and nothing of what was there before.  Only lists that no     *)
(* priority names may change places, with ten or more lists of one's own.  *)
ImportIsTheExport == \A i \in Installations : came[i] # NoOrigin =>
  LET here == store[i]
      there == came[i].rows
      now == Portable(catalog[i])
      then == Portable(came[i].catalog)
  IN  /\ here.feeds = Nothing /\ here.trusted = {} /\ ~here.history
      /\ SamePortable(came[i].catalog, catalog[i]) => \E name \in Correspondences(there, here) :
           /\ Renaming(Meaning(then, there), name) = Meaning(now, here)
           /\ \A k \in DOMAIN there.profiles : \A a, b \in Resolved(then, there, there.profiles[k], KnownLists(then.lists, there)) :
                /\ Precedes(Routes(then, there, there.profiles[k]), a, b)
                /\ a \in Entries(there.profiles[k].priority) \/ InReferenceOrder(there)
                => Precedes(Routes(now, here, here.profiles[To(name, k)]), To(name, a), To(name, b))
           /\ CarriesDefaultPriority(came[i].form.version) =>
                \A a, b \in Entries(came[i].order) \cap KnownLists(then.lists, there) :
                  Precedes(came[i].order, a, b) =>
                    Precedes(DefaultPriority(now, here, here.order), To(name, a), To(name, b))

(* config_transfer.go:579: what became durable is what memory holds, after *)
(* an import, a failed one, a crash in the middle and a restart.           *)
RegistryIsStore == \A i \in Installations :
  up[i] /\ mutex[i] = "free" => registry[i] = View(store[i])
=============================================================================
