# A TLA+ model of Routevane

Routevane builds routing lists for a router or VPN client. One process keeps a
library of lists, combines lists and categories into profiles, publishes every
profile in one or more output formats, and may deliver a published format to a
router. This directory holds TLA+ modules of the parts of that program whose
correctness depends on the order in which things happen or on many cases that
meet, the TLC configurations that check them, and theorems that TLAPS checks.
`PROJECT.json` is the machine readable index: components, runs, the source lines
each definition stands for, hazards, findings and theorems.

## 1. Inventory of the system

All paths are relative to `src/internal/` unless they start with `cmd/`.

| Component | State it keeps | Operations | What is hard | Model |
| --- | --- | --- | --- | --- |
| **Static-route delivery** `application/{deploy,device_removal,managed_routes,deployment_service,delivery_gate}.go`, `infrastructure/sqlite/managed_routes.go`, `deployers/keenetic/{keenetic,session}.go` | an ownership ledger (claims and routes) per router surface; a one-token gate; the router's running and saved configuration | send, remove, retire, roll back | the router is not transactional, an operator edits it meanwhile, ledger read and replacement are far apart, cancellation, crash | `ManagedRoutes`, `RouteDelivery`, `OutputClaims` |
| **DNS object groups** `application/managed_fqdn.go`, `deployers/keenetic/{fqdngroup,fqdn_ownership}.go`, `infrastructure/sqlite/managed_fqdn.go` | a second ledger, of group names per output; groups, entries and routes on the router | send, remove, retire, roll back | command lines take effect one by one and may be refused one by one; capacities | `ObjectGroups` |
| **Devices, credentials, automatic delivery, cleanup, attempts** `application/{device,automatic_delivery,preflight,device_cleanup,deployment_attempt}.go`, `cmd/routevane/serve.go` | connections, passwords in the operating system's store, consent, the attempt journal, what the ledgers name | register, edit, forget, save and clear a password, enable, disable, send, deliver on schedule, remove an output or a profile with what it delivered | two stores and a router without a common transaction; consent read long before it is used | `Deliveries` |
| **Publication** `application/{build,publication,archive,retirement,output_addresses,output_prefix,subscription}.go`, `infrastructure/sqlite/{publish,outputs,profiles,retirement}.go`, `infrastructure/filesystem/publication.go` | profiles, outputs with latest/previous pointers, immutable snapshots and artifacts, subscription tokens, content-addressed files, a generation counter under a reader/writer lock | build, create/edit/archive/delete a profile, add/remove an output, settings, issue/reissue/serve a subscription | a build holds no lock while it plans, renders and stores; it must not publish what is stale | `Publication`, `InstantBuilds` |
| **Library** `application/{custom_lists,list_tuning,categories,removals}.go` and the `sqlite` files of the same names | custom lists, feeds, switches, verdicts, categories, tombstones: rows in the store and a registry in memory | create, edit, tune, remove lists and categories | write-through under one lock while some checks precede it; store and registry delete by different rules; references from profiles; an import that replaces every registry under its readers | `OwnedLibrary`, `Library`, `LibraryReads` |
| **Sources and observations** `application/{application,list_freshness,list_contents}.go`, `domain/observation.go`, `sources/{dns,httpfeed}`, `infrastructure/sqlite/{observations,planning}.go` | sightings and cycles per source and revision | refresh, switch a source, restart with another catalog | refreshes run at once and store in any order; values expire, are withdrawn, or live on a grace | `Freshness`, `Observations` |
| **Planner, composition, forecast** `planner/*.go`, `application/{publication,build,forecast}.go`, `infrastructure/sqlite/{profiles,library_priority}.go` | the rows of a composition | resolve, order, plan, forecast, overlaps | what is merged, covered or owned by another list depends on every other list | `Planner`, `Composition` |
| **Renderers, local deployer** `renderers/*`, `deployers/singboxlocal` | a file on this machine | render, parse, install, undo | one meaning must have one form; another writer, cancellation, crash | `Formats`, `FileDelivery` |
| **Configuration transfer** `application/config_transfer.go`, `infrastructure/sqlite/config_transfer.go` | none of its own | export, preview, import | every other part's rows under new identities; older files; a crash between commit and memory | `Transfer`, `LibraryReads` |
| **Scheduled refreshes** `application/schedule.go`, `cmd/routevane/serve.go` | per profile: an interval, the last round, whether it failed | decide what is due, refresh, build, record | a round takes minutes and the operator works meanwhile | what a round hands on: `Deliveries`; the rest section 10 |
| Process lock, catalog loader, discovery, plugin host, HTTP, CLI, desktop, web, migrations | | | parsing, or process and network I/O | not modelled (section 10) |

The components interact as follows. An HTTP request or the scheduler calls the
publication service; a build reads the library (through registries guarded by
`registryMu`) and the observations in the store, plans, renders, writes a file,
and commits the artifact. A delivery reads the published artifact of an output
and runs against the router under the delivery gate. Editing or forgetting a
connection passes the same gate and retires the ledgers of its surface. Library
edits and publications exclude each other through `publicationMu` only for the
moment of their commits; an import takes it for its commit and the swap of the
registries.

## 2. How the project is laid out

Every part keeps to the same split: a pure or abstract module, the machine, an
`MC` module with the values and symmetry sets of the small instance, and, where
theorems are proved, a `_proofs` module.

| Machine | Uses | Abstract specification | Run | Proofs |
| --- | --- | --- | --- | --- |
| `RouteDelivery` | `ManagedRoutes` | `OutputClaims` | `route_delivery`, `route_delivery_pair` | `RouteDelivery_proofs` |
| `ObjectGroups` | | | `object_groups` | `ObjectGroups_proofs` |
| `Deliveries` | | | `deliveries` | `Deliveries_proofs` |
| `Publication` | | `InstantBuilds` | `publication`, `publication_links` | `Publication_proofs` |
| `Library` | | `OwnedLibrary` | `library` | `Library_proofs` |
| `LibraryReads` | | | `library_reads_stuck` | |
| `Observations` | `Freshness` | | `observations` | `Publication_proofs` |
| `Composition` | `Planner`, `Freshness`, `Priorities` | | `planning` | `Composition_proofs` |
| `FileDelivery` | `Formats` | | `formats` | `FileDelivery_proofs` |
| `Transfer` | `Priorities` | | `transfer` | `Transfer_proofs` |

The parts are joined at values: a plan is what `Planner` says of sightings that
`Freshness` admits (`Composition` extends both, so that a build and the stored
observations share one definition of "counts"); to `Publication` a plan is a
version of the library and of the observations; to `RouteDelivery` and
`ObjectGroups` a published file is the set it names; `Priorities` holds the orders
of lists that compositions and the transfer share (`mergePriority` and the sorting
of identities); `Deliveries` sees of a
delivery only what the ledgers name afterwards.

Faulty variants (`GateIgnored`, `FaultyRemovals`, ...) stand next to the
definitions they replace; `PROJECT.json` pairs each with the property it breaks.
No run and no proof uses them.

## 3. Static-route delivery

### Modules

* `ManagedRoutes` is pure: the ledger of one surface, `ValidLedger`
  (`validateManagedRouteOwnership`), `NextLedger`, `Upserts` and `Removals`
  (`reconcileManagedRoutes`) and `Verified` (`verifyManagedRouteMutation`). A
  description is the first label and a count (`CompactManagedRouteDescription`);
  the byte limit that truncates long labels is left out.
* `RouteDelivery` is the machine. `running` and `saved` are the router's two
  configurations; each entry also records who *really* made the route, which
  the code can never read (`Observe` drops it). `ledger` is the committed
  ledger, `gate` the worker that holds `DeliveryGate`, `op` each request with
  its private snapshots. `contested` and `stranded` are history: prefixes an
  operator changed under an active record or inside a delivery, and prefixes an
  interruption left without a record. They appear in no guard.
* `OutputClaims` is the abstract specification: each output has a claim table
  of its own.

| Action | Code |
| --- | --- |
| `Receive`, `GiveUp`, `Acquire`, `Finish` | `DeploymentService`, `DeliveryGate.Acquire` and its release |
| `Probe`, `ReadLedger`, `TakeBackup`, `Reconcile`, `Refuse` | `DeployToDevice` / `RemoveFromDevice` up to the first command; the two orders of probing and reading differ and are kept |
| `Command`, `SaveConfiguration` | `Deployer.ApplyManagedRoutes`: one batch, any part of which may have been executed, in any order |
| `Verify`, `Persist`, `StepFails` | read-back, `ReplaceManagedRouteOwnership`, and every failure after the reconciliation |
| `UploadBackup`, `SaveRestored`, `ConfirmRestored`, `RestoreFails` | `restoreDetached` and `Deployer.Rollback` |
| `RetireSurface`, `RetireFails` | `RetireManagedRoutes` |
| `OperatorAdds/Deletes/Saves`, `Reboot`, `Crash` | the world outside (external) |

### Runs

| Run | Instance | Question |
| --- | --- | --- |
| `route_delivery` | 1 worker, 2 outputs, 2 prefixes, 2 labels, one outside event | deletion authority, ledger and router agree, honest success |
| `route_delivery_pair` | 2 workers, 2 outputs, 1 prefix, fairness | the ledger snapshot survives concurrency; refinement of `OutputClaims`; requests end, the gate is not kept |

`MCArtifacts` gives o1 a file with one label for p1 and o2 either another label
for p1 or a label-less p1 and p2, so that sharing, description changes, the
label-less case and removals with a remaining claimant all happen. With one
worker every interleaving with the operator is explored; with two, the gate is
what is tested, without outside events: an outside event touches neither the
gate nor a snapshot, and `SnapshotCorrect` and `Refinement` are proved with any
number of them. `MaxUpsets = 1` bounds, in the first run, the events from
outside: an operator edit, a save, a reboot *or* a crash at any step. Two
prefixes are needed for a batch that is half executed; a third adds no new
relation, because every rule of the reconciliation is per prefix.

What the properties say: `ReconcileNeverRefuses` (no history makes a surface
undeliverable), `LedgerIsTrue` (the ledger never calls an operator's uncontested
route its own, and ledger and router agree in both directions at rest),
`SharedAndForeignRoutesStay`, `OperatorRoutesSurvive`, `SuccessIsTrue`,
`SnapshotIsCurrent`, `ImplementsOutputClaims`, `RequestsEnd`.

### Fairness

`Running(w)` is weakly fair: every step of a delivery has a deadline
(`stepBudget`s and HTTP timeouts) and the rollback has its own detached context,
so the worker that holds the gate always takes another step, successful or not.
`Acquire(w)` is strongly fair: the gate is a Go channel with one token, and a
channel serves its blocked receivers in order. Nothing is assumed of requests
arriving, of the operator or of crashes.

### Noted while modelling

* The comment on `Backup` says it fetches the running configuration and the
  manual says that changes made *after* the backup may be undone; the code
  fetches the startup configuration (`keenetic.go:256`), so an unsaved change
  made before it is undone as well. `OperatorRoutesSurvive` excepts the restore
  of a delivery that had sent commands.

### Proofs

`RouteDelivery_proofs` begins with the pure part: for every valid ledger, output,
wanted set and observation, `NextLedger` is a valid ledger of the right type
(`NextLedgerIsValid`). The lemmas are per conjunct of `ValidLedger`. The
inductive invariant `IInv` is `TypeOK`, the validity of the committed ledger and of every snapshot of it
(`LedgersAreValid`), `SnapshotIsCurrent`, and `RequestsAreAsked` (what a request
wants is one of the files its output may have); each action is
one step of the proof. `SnapshotIsCurrent` is itself inductive once mutual
exclusion is part of it: only the gate's holder writes the ledger, and it
releases the gate in the same step. From it follow `TypeCorrect`,
`SnapshotCorrect`, `ReconcileCorrect` and `Refinement` (every step of
`RouteDelivery` is a step of `OutputClaims` or leaves its variable alone; the
snapshot invariant is what makes `Persist` a `Deliver` of the *current* claims).

The properties about the router need more than that: what is true of the router
in the middle of a batch and of a rollback. `TruthInv` adds to `IInv` that the
running configuration, the saved one and the backup all `Tell` the ledger: no
route the ledger calls created is the operator's, and, outside the prefixes an
interruption left (`stranded`) and those the request under way has in `Doubt`,
what Routevane made is on record and what is on record is there. For the request
that holds the gate it says what the batch knows (`SeenAt`: its view of the table
still tells which routes were there before), and what its read-back has shown
(`ShownAt`). `LedgerIsTrue`, `SharedAndForeignRoutesStay`,
`OperatorRoutesSurvive` and `SuccessIsTrue` follow from `TruthInv` and one step.

The theorems hold for any sets of outputs, prefixes and workers, any finite set
of labels and any number of outside events.

## 4. DNS object groups

`ObjectGroups` is the other branch of the same two functions, for one router and
one request at a time (that there is only one is what section 3 and section 5
show). A group is who made it, its entries and its route; the route is absent,
as Routevane sets it, on another interface, or of a form the deployer cannot
express. Names and entries are numbers, because the deployer sorts both and its
order of command lines depends on that. The router takes command lines one at a
time (`Accepts`, `After`, external): a line that would exceed a capacity, drop a
group that is still routed or empty one, is refused, and the lines after it are
executed all the same.

| Action | Code |
| --- | --- |
| `Receive`, `Prepare` | the call, the probe and `PreviewFQDNGroups` |
| `PrepareRemoval` | `prepareRemoval`: the ledger first, and nothing more when it names nothing |
| `TakeBackup`, `Reconcile` | `storeVerifiedBackup`; `DeployWithMutation` / `RemoveFQDNGroups`, with `scopedGroups` (`Refuses`) and `reconcileGroups` (`Reconciled`, `Refill`, `Removal`) |
| `Execute`, `Answer` | `parseBatch`: at most `MaxParseCommands` lines in a request, one refused line fails it |
| `Verify`, `Persist`, `StepFails` | `compareGroups`; `Store.ReplaceManagedFQDNOwnership`, in which a name has one owner |
| `UploadBackup`, `ConfirmRestored`, `RestoreFails` | `Deployer.Rollback` and the save that follows |
| `Retire`, `Crash` | `RetireManagedFQDNOwnership`; the process stops |
| `OperatorAdds/Deletes/Reroutes/Saves`, `Reboot` | outside |

`object_groups`: three names, room for two groups of two entries, batches of
three lines. `MCFiles` lets o1's list grow from one entry to two others and a
second group, whose name o2 uses as well: a refill at the capacity, a group
whose name is taken, and a batch of more than one request all happen; one outside
event comes between any two lines. The lines still to be sent are a set (`op.todo`), and the next one is the first of
them in the deployer's order (`Comes`, by `Part` and `Stage`, then name and
entry). `LinesAreAccepted` (that order is
right for the router), `RoutedGroupsAreWhole` (traffic is never steered by half
a list), `RecordsAreTrue` and `ForeignGroupsStay` are about the router *and* the
ledger, at every moment, not only at the end of a delivery.

### Proofs

`ObjectGroups_proofs` proves the four properties for any outputs, names, entries
and files, any capacities, any size of a request and any number of events from
outside. The assumptions are that names and entries are finite sets of numbers,
as in the code's sorted slices, and that no group of a file is larger than
`MaxEntriesPerGroup`: a file is read with the validator of its renderer
(`artifactGroups`), which has the same bound.

The inductive invariant `GInv` follows a delivery through its batch.
`LinesCompleteTheFile` is the heart: of a name nobody else has touched, the lines
that are left make exactly the group the file asks for, and those that change its
entries still have the line that takes its route away before them. With it,
`GroupsAreWhole` (a routed group is a group of some file) survives each line,
whichever of them is the last to be executed. `LinesFindRoom` says why no line is
refused while nobody interferes: what is to be filled or routed exists or is
created first, and there are never more groups or entries than what the router
holds. `LedgersNameOurs`, `NobodyElses` and `DeliveredIsSaved` tie the ledgers to
both configurations and the backup, except where a request has its hands on a
name. The proof splits by action, and `Execute` by the kind of line.

## 5. Devices, passwords, consent, sends and cleanup

`Deliveries` is everything that happens under the one delivery gate of the
served process, from `serveBackend` down to the stores. `job` holds each
request with its next step; every write to the device row, to the operating
system's secret store, to a ledger or to the journal is a step of its own that
may fail, and the process may stop between any two. `agreed` (the connection
consent was last given for), `runs`, `answer` and `wiped` are history; `secret`
holds the connection a password was kept for. What a router does with a send is
left to sections 3 and 4: here a send makes the ledgers name the output at the
address, or fails.

| Action | Code |
| --- | --- |
| `RegisterDevice`, `SetArchived` | the registration and the archival of the profile, which take no gate |
| `UpdateDevice`, `ForgetDevice`, `SaveCredential`, `RemoveCredential`, `EnableAutoDelivery`, `DisableAutoDelivery` | `DeviceService`: which step comes first |
| `DropSecret`, `PutSecret`, `WriteRow`, `RetireManagedRoutes`, `DeleteDevice` | the writes, in the order of `AfterSecret`, `AfterRetire`, `AfterRow` |
| `Fail` | any of them fails; a password whose flag cannot be stored is taken back, unless that fails too |
| `SetOutputDevice`, `RemoveOutput`, `DeleteProfile` | one transaction under the gate |
| `RemoveOutputCleaning`, `DeleteProfileCleaning`, `CleanSurface`, `LeaveShelf` | `DeviceCleanupService` and the retirement after it |
| `DeployAttempt`, `Claim`, `Send`, `Receive`, `Complete` | `DeploymentAttemptService.Deploy` and the journal |
| `ScheduledBuild`, `DeliverOne`, `ClaimUnattended`, `SkipDelivery` | `RunDueRefreshes` and `AutomaticDeliveryService` |
| `Crash` | the process stops |

`deliveries`: two requests and the timer, one device that may be given another
address, two outputs, one attempt identity. One device is enough: its row, its
password and its consent are never compared with another device's; two addresses
are what a move takes, two outputs what a removal leaves behind. The gate is
held through each request, so that the second request waits for the first;
`ScheduledBuild` and everything ungated do interleave with it. Symmetry: requests,
devices, outputs, addresses.

`RequestsKnowTheirRow` is what the gate and the order of a request's own writes are
for: `Store.UpdateDevice` writes a whole row, as the request read it with one fact
changed, and no such write may take back what another request has recorded
meanwhile, or an earlier write of the same one (`SaveCredential`, then the consent
of `EnableAutoDelivery`). Where the gate is ignored, two requests break it.
`SecretsNameTheirDevice` and `ConsentNamesItsConnection` are the two promises of
the device page, under every failure; `OnlyAuthorisedSends` is ADR 0031 at the
moment of the send; `AttemptsAreSingleRuns` is the journal of ADR 0042;
`WipedStaysWiped` is the cleanup of ADR 0060.

### Proofs

`Deliveries_proofs` proves every property of the run for any number of handlers,
devices, outputs, addresses and attempt identities, so that a second device,
which the run leaves out, is covered there.
The assumptions are those of the module: names for "nobody", "nowhere" and "no
attempt" are not members of the sets they stand outside of.

The inductive invariant `Inv` has a part per store (`DevicePart`, `ShelfPart`,
`JournalPart`, `QueuePart`), one for the gate (`OneHolder`: whoever is at work
holds it), and two that tie them together. `WorkIsOK` says for every request and
step what the earlier steps have left behind: `OnDeviceOK` that the row in the
request is the stored one (`RequestsKnowTheirRow`) and, for a move, that the password is gone before the
consent is dropped and both before the address changes; `CleaningOK` that the
surfaces a cleanup still has to empty are all the ledgers name; `SendingOK` that
the row of an attempt is there, pending and not yet run. `TimerIsOK` keeps what
`deliverOne` has checked true until the delivery is over. Without `WorkIsOK` none
of the properties is inductive: a move, for one, is safe only because the steps
before it were taken. One lemma per action shows that `Inv` is kept;
`NobodyAtWork` and `WorkOfOne` reduce each to the request that moved.

## 6. Publication

### Modules

`Publication` is one profile, the outputs it has had of one format (at most one
live), their subscription tokens, the published files, the library as a version
number behind `publicationMu`, and the builds under way. `InstantBuilds` is the
promise: an output's pointer only ever advances to what a build that took no
time would publish at that moment.

`library` counts edits of anything in memory that a plan is made from. A plan
reads it at many moments; two of them, `first` and `second`, are enough to tell
a torn plan from a whole one. `observed` is the version of the stored
observations and `known[i]` what was stored at the i-th moment at which a plan
was begun, so that a cutoff is an index and time needs no clock. A file *is* its
content (`Payload`), as its name is a hash; an `Artifact` row also has the
cutoff, because the snapshot it belongs to records it.

| Action | Code |
| --- | --- |
| `CreateProfile`, `UpdateProfile`, `SetArchived`, `DeleteProfile` | `PublicationService` and the transaction of the same name in the store |
| `AddOutput`, `SetSetting`, `RemoveOutput` | `Store.CreateOutput`, `UpdateOutputKeepAddresses` and `UpdateOutputFQDNPrefix`, `Store.RemoveOutput` |
| `IssueSubscription`, `ReissueSubscription` | `Store.CreateSubscription`, `Store.ReissueSubscription` |
| `WantEdit`, `BeginEdit`, `EditFails`, `ChangeLibrary`, `EndEdit` | the pattern every library edit follows, mapped at `CreateCustomList`: `publicationMu.Lock`, store, registry, generation, unlock |
| `Observe` | a refresh stores observations, without a lock |
| `ReadOutput` .. `Plan` | `PublicationService.Build` up to the rendered bytes |
| `UseFile`, `MissFile`, `LinkFile`, `ConfirmFile`, `CleanUp` | `PutPublished` |
| `BeginPublish`, `RefuseStale`, `Publish`, `PublishFails` | `publishCurrent` and `Store.Publish` |
| `BuildFails` | every early return of `Build` before `publishCurrent` |
| `Crash`, `LoseFile`, `DamageFile` | outside; a restart loads the library again and counts generations from 0 |

### Runs

| Run | Instance | Question |
| --- | --- | --- |
| `publication` | 1 builder, 1 output, 2 compositions, 1 edit, 1 crash, fairness | nothing stale, torn or of another composition is published (refinement of `InstantBuilds`); builds and edits end, the lock comes back |
| `publication_links` | 2 builders, 1 output, 1 refresh, 2 cutoffs, 2 tokens, 1 crash, 1 damaged file | an output never goes back; links work; attempts and artifacts agree |

Two builders are what a race of builds takes, and neither the number of builds
nor of operator actions is bounded, only edits of the library, refreshes,
distinct cutoffs and mishaps are. One edit is enough to be before, inside or
after any part of a plan; one refresh separates an older from a newer cutoff.
Builders, outputs, tokens and compositions are symmetric where no liveness is
checked. Deadlock is not checked: after `DeleteProfile`, and with the bounds
used up, nothing is left to do.

### Fairness

Every step of a build and of an edit has a deadline or does a bounded amount of
work, so both are weakly fair (`Proceeds`, `Edit`). The steps that wait for the
read lock are strongly fair: a `sync.RWMutex` lets waiting readers in when a
writer unlocks. `BuildFails` of a build that only waits for the lock is left out
of the fairness, so that no build is made to end by an invented error.

### Noted while modelling

* `PutPublished` removes the file it linked when a directory sync or a read-back
  fails at that moment (`filesystem/publication.go:113`), also after another
  build has found that file, reused it and published it (`CleanUp`).
* After every rebuild that found nothing new, the latest and the previous
  artifact are the same file, so that the fallback ADR 0004 promises is empty
  until the content changes.

### Proofs

`Publication_proofs`. The inductive invariant `IInv` is `TypeOK`,
`StepsTookEffect`, `GenerationsCount` and `CutoffsAreReal`. The heart is
`GenerationsCount`: the generation a build read *before* it planned says about
the library *now* that they are the same library, except in the moment between
an edit's change and its count, and in that moment no build can hold the read
lock. From it, `Refinement` (no publication is stale or torn) needs only the
checks of `Store.Publish`. `Forward` uses `CutoffsAreReal` (cutoffs are ordered
as what was stored at them), `Links` and `Attempts` are inductive next to `IInv`.
All hold for any number of builders, outputs, tokens, edits, crashes and damaged
files. They assume only that the named values `NoArtifact`, `NoOutput` and
`Frozen` are not rows.

## 7. Library

### Modules

`OwnedLibrary` is what the operator is promised: a set of lists, categories that
hold exactly what they were last given, profiles that name nothing missing, and
removals that are for good. `Library` is how the code does it: the supplied
catalog is never written, so the store keeps *differences* from it (memberships
added or removed, tombstones) next to the operator's own rows, and a copy of all
of it in memory, the registry, which every reader uses.

`rows` is the store, `registry` the copy, both of the same record type. A writer
takes `publicationMu`, commits, and brings the registry up to date; between the
two `coming` holds what the registry becomes, and nobody else may write. Where
the code checks *before* it takes the lock (lists and their tuning), the checked
request waits in `request` while others write. Categories, removals and profiles
are checked under the lock, in one step. `issued` keeps identities from being
issued twice (they are random); `torn` is history: feeds whose removal
failed between its two statements.

| Action | Code |
| --- | --- |
| `AskCreateCustomList` .. `AskSetListValues` | the checks of `CreateCustomList`, `UpdateCustomList`, `SetListSourceEnabled`, `AddListSource`, `RemoveListSource`, `SetListValues` |
| `CreateCustomList` .. `SetListValues` | the same operations from the lock to the committed transaction, with the rows the store writes and the registry's own update |
| `RemoveListSourceTorn` | `Store.RemoveCustomSource` fails after its first statement |
| `RequestFails` | every refusal or error of the store |
| `Install` | the registry's update and the unlock that follows |
| `CreateCategory`, `UpdateCategory` | with `MembershipRows`, the difference from the catalog |
| `RemoveCategory`, `RemoveList` | `removeCategoryRows`/`removeListRows` in the store, `forgetCategory`/`forgetList` in memory; refused while `ProfilesNaming` is not empty |
| `CreateProfile`, `UpdateProfile`, `SetArchived`, `DeleteProfile` | only what a profile names and its shelf |
| `Restart` | at any moment: the registries are loaded from the rows, waiting requests are lost; possible only when the rows are `Loadable`, as the loader refuses more categories than it may hold and members that are no list |

The two removals are translated separately, because they are written
separately: the store deletes by foreign keys and kinds, the registry decides by
identity prefix and by what it holds. `RegistryIsStore` says that they agree, and
that the store can always be loaded again.

`LibraryReads` is the other side, the readers. `registryMu` is modelled as Go's
`RWMutex` is documented to behave: once a writer waits, every `RLock` waits,
also that of a goroutine that holds a read lock already. `mergedCategory` holds
it while it asks for it again for each member; a definition takes it twice in a
row; a listing takes it per category. The import replaces all registries while
it holds every mutex, which makes the swap one step.

### Runs

| Run | Instance | Question |
| --- | --- | --- |
| `library` | a shipped and a custom list, a shipped and a custom category, 1 feed, 1 profile, 1 caller | names exist, memberships read back, the registry follows and can be loaded; refinement of `OwnedLibrary` |
| `library_reads_stuck` | 1 reader, fairness | *violated*: an import and a category read wait for each other |

One list of each kind and one category of each kind are what the rules
distinguish; the shipped category carries the shipped list and the custom list
can be added to it or to the custom category, so that every membership (`added`,
`removed`, none) meets every removal. `MaxCategories = 1` makes a category the
last that fits. The constraint `Small` keeps the instance small: at most two
identities are issued, a profile names one list or category and leaves out at
most one list, and one switch, verdict or removal stands at a time. There is one
caller, so that a checked request still waits while categories, removals,
profiles and restarts happen; that two callers' edits of lists keep every
property, whatever they are checked against, is what the theorems say for any
number of callers. There is no bound on the length of a history. `MaxLists`,
`MaxCategories`, `MaxFeedsPerList`, `MaxFeeds` and `MaxVerdicts` are the caps of
the code. Deadlock is checked in `library`; in `library_reads_stuck` it is not,
because the system really stops: that is the finding.

### Fairness

`Library` has no liveness property: its writers hold one lock for one bounded
transaction. In `LibraryReads`, `Import` and each reader's `Step` are weakly
fair: goroutines run, and they wait for nothing but the lock. Nothing is assumed
of new reads.

### Finding

`library_reads_stuck`: `mergedCategory` asks for `registryMu` while it holds it.
If the import asks in between, both wait for ever, and the import keeps
`publicationMu`: after its commit, against the comment that the swap cannot
fail, no registry follows.

### Noted while modelling

* `SetListSourceEnabled` and `AddListSource` look the list up before the lock;
  a list removed in between leaves tuning of a list that is gone, which
  `removals.go` of the store means to exclude. `RegistryIsStore` still holds.
* A feed can be removed between the check and the switch of it, and the switch
  stays in the store although the removal of a feed deletes its switches.
* The caps on lists, feeds and verdicts are compared before the lock and may be
  exceeded.
* A feed's removal that fails half-way leaves the registry ahead of the store
  until the next start (`torn`).
* At the start the store reads at most 16384 verdicts for all lists together
  (`verdictLimit`, `list_tuning.go:35,244`), while each list may have 2048 of
  them: with more than eight lists fully tuned the rest is silently forgotten,
  against `list_tuning.go:29-33`. As many memberships make the start fail
  (`categories.go:213`). The bounds of these reads are not in the model.

### Proofs

`Library_proofs` proves every property of the run, for any
catalog, any sets and any caps, from the assumptions that kinds of identities are
disjoint, that the catalog is of its type, that the cap on categories is a number
and that the named values are not
rows. The inductive invariant `IInv` adds three parts to the properties.
`RequestsMakeSense` types the requests that wait. `FeedsHaveOneList` says that
everything that names a feed (rows, registry, switches, requests) names it with
one and the same list; it is what makes the store's removal by identity and the
registry's by list and identity agree, and rests on identities never being
issued twice. `IdentitiesAreIssued` makes a new identity really new. `MemoryFollows`
is carried through each pair of edits: one lemma per pair. That the rows stay
`Loadable` is an invariant of its own (`LoadInv`): an edit that adds a category
is made under the cap, and every removal takes the memberships with it. The
lemmas `...Holds` say what each edit does to the lists and categories the library
holds; the invariants about names and the refinement both use them. For
`Refinement` a last invariant is needed: a deleted profile names nothing.
`LibraryReads` is model-checked only.

## 8. From observations to files

### Observations

`Freshness` says how long a sighting counts: its lifecycle, the health of a
source (latest success, the one before, latest failure) and the grace in which a
failing source keeps its last answer. `Observations` is one list with its
sources: refreshes (`Start`, `Answer`, `NoAnswer`, `GiveUp`, `Finish`) ask one
source after the other and store each answer as a cycle that carries the time at
which the refresh *began*; two refreshes store in any order, over a clock that
ticks meanwhile. The operator switches sources off and on
(`SetListSourceEnabled`), and `Restart` may bring a catalog with another
revision of a source, whose earlier sightings then no longer count. `answered`
is history: every answer that was stored.

`observations`: a DNS source whose answers are short-lived and a feed whose
answers live as long as the grace; answers that grow, shrink, move, hold an entry
that is none, or are too long; three ticks, three refreshes, two at a time. Three
refreshes are what it takes for a value to be seen, withdrawn and asked about
again; three ticks reach beyond the validity of the DNS answer and beyond the
grace. `AdmittedIsPromised` compares what a build would get at *every* past
cutoff with what the answers promise; `FailuresWithdrawNothing` is about steps;
`CardTellsTheLatestRead` relates the card's three figures to the history of
answers. Deadlock is not checked: refreshes and time are bounded. Values that a
source reports only under grace are left off the card by the code; the property
says they are promised, not that they are shown.

The second part of `Publication_proofs` proves the three properties for any
sources, revisions, values and number of refreshes, two at a time or twenty; one
module speaks of both machines because a build reads what refreshes store, and
therefore `Observations` names its machine `ObservationsInit`, `ObservationsNext`
and `ObservationsSpec`. The inductive invariant
`OInv` says that no refresh and no cycle is dated later than now, that the
successful cycles of a source are the times of its answers, and that a stored
sighting *summarises* the answers that named its value: the first and the last
time it was named, in whatever order they came to be stored. From that,
`AdmittedIsPromised` is a computation at any cutoff that has passed;
`FailuresWithdrawNothing` holds because a failed cycle changes only whether a
grace has begun; `CardTellsTheLatestRead` compares two answers, the latest and the
one before. Two assumptions are needed beside types: some catalog comes first
(`CatalogsAreNumbered`), and a grace ends before what it keeps is archived
(`GraceEndsBeforeArchive`; the code has a day, `application.go:92`, against ninety,
`observation.go:108`). Without the second an archived entry would be withdrawn
although its source is still in grace.

### Plans

`Planner` is the pure part: what is admitted of each list (`Accepted`), equal
rules made one (`Dedupe`), complete blocks merged (`Collapse`), destinations
given to one list (`ApplyListPriority`), overlaps (`Overlaps`). Addresses are
numbers, in the run of three bits, so that a block, both its halves, a special address and
networks that are too wide all occur. The reference is `Endpoints`: the traffic
a value steers. `Composition` is the machine around it: the composition of a
profile as *rows* of five tables (`WriteComposition`, `ReadComposition`), the
default order, verdicts, a category and a catalog that change, refreshes that
bring sightings from a pool, `Build` and `Forecast`.

| Action | Code |
| --- | --- |
| `CreateProfile`, `SetProfileComposition` | `Store.CreateProfile`, `Store.UpdateProfileComposition` with their rows, after `ValidComposition` and the normalisation of the order |
| `SetDefaultPriority`, `EditCategory`, `CatalogChanges`, `SetVerdict`, `SetKeepAddresses` | the edits a plan depends on |
| `Refresh` | a list has been read, and sightings are stored |
| `Build` | `PrepareProfile` and `Render` |

What a format writes of a plan is its `Projection`: in groups each list has
entries of its own, a RouterOS script has a name in both families, and rules that
are written alike count once. `PrepareProfile` compares its size with the limit of
the target, after the check that refuses what the format cannot carry (`Refused`).
`Render` then refuses an empty file and one beyond the renderer's own bounds
(`Writable`): more groups or lines than it writes, or more bytes, of which each
name, block and group takes a number (`Bytes`). No source of the program sets the
mark by which a shared network is trusted (`SharedNetworkEvidenceTrusted`), so that
`DeclaredNetwork` has no case for it.

`planning`: three lists with seeds, twelve possible sightings (fresh, kept
under grace, withdrawn; observed, official, community), two nested names, three
compositions, two values to correct, and any three changes before and between
builds. There are five formats: routes, with addresses only; a rule set; groups,
of which it has two with two entries each; a list of sites, which takes no name of
one label and has no limit of its own; and a script that writes a name twice.
Between them every outcome of a build is reached: unread, incomplete, refused, over
the limit, empty, refused by the renderer, and built. `PlanRoutesTheMaterial`
(merging neither adds nor loses a destination), `OwnershipIsSettled` (the first list
owns, however lists joined and left), `ForecastIsTheBuild` and `OverlapsAreShared` compare the
result with a definition that knows nothing of the algorithm. Three changes are
needed for an order that names a list which leaves and comes back.

`ForecastIsTheBuild` says what a forecast is good for and what not. It promises a
fit exactly when the plan of the next build passes its check and has something to
write. Whether the renderer then writes it is another matter: see below.

A block of `Width` bits has `Size(bits)` addresses and starts at a multiple of
that (`netip.Prefix.Masked`). An order is a sequence without repetition, defined by
the places its members have (`Arranged`): the list of rank `k` is the one with
`k - 1` others before it.

`Composition_proofs` proves all four, for any lists, catalogs, sightings, formats,
names, requests, corrections and changes, and an address of any width. Assumed are:
that sizes of blocks double (`SizesDouble`, a fact about powers of two that the
provers do not know of their own); that the names a name lies under form a chain
(`NamesAreNested`: they are the suffixes of one string); that every value is
a resource in its canonical form (`WrittenOneWay`, what the constructors of
`domain/resource.go` return); and that lists, values and sightings are finitely
many and limits are numbers (`FinitelyMany`). The argument, in its layers:

* Numbers and blocks. A block is cut at multiples of its size, so that of two
  blocks that meet, the wider is where the narrower one, cut to its width, begins
  (`BlocksNest`). Of any two values that steer a common destination, names
  included, one therefore steers all that the other does (`Nested`), and the
  values *above* a value that are looked up are exactly those that steer all it does
  (`AboveSteers`, `SteersAbove`).
* Merging. `DedupeSteers` and `CollapseSteers`: one rule per destination, and the
  largest blocks inside what a list steers, steer what was there before.
* Ownership. `PriorityKeeps`: of all rules that steer a destination, one of the list
  placed first stays, since what would drive it out steers the destination too and
  belongs to a list before it.
* Orders and rows. `ArrangedIs` says of `Arranged` that it is a sequence of exactly
  the set, in the order of the places; `MergeIs` gives `MergePriority` from it, and
  `ReadBack` that a composition written as rows is read as it was.
* The machine. `CompositionInv`: the rows are those of a composition whose order has
  no list twice, and a build is what that composition resolves to now, because
  whatever changes an input discards it. The four theorems look at a build of
  such a composition. `ForecastsTell` goes through the outcomes of a build: the
  forecast plans without the limit and around incomplete lists, and the proof
  shows for each outcome which number or set it is told by, and that nothing is told
  of a plan the check refuses. It also needs that what a plan projects to has a
  number (`PlanSetFinite`), zero only for no rules, since the limit is compared with
  it.

### Noted while modelling: fits that are not built

The forecast compares the projected rules with `max_rules` and nothing else
(`forecast.go:264`). The renderers have bounds that neither it nor the check before
rendering knows: the group renderer refuses more than 128 groups
(`keeneticdns.go:243`), others more than `MaxLines` or `MaxEntries`, and every file
has a byte bound of its renderer and perhaps one of its target
(`application.go:375`). A profile of more than 128 lists, well under its rule
limit, is told to fit, and every build of it fails. `docs/UI.md:92` says that "a pair
that cannot build is refused before it exists", and `forecast.go:21` that a target
without a bound "always fits". In the model that is a build of kind "unwritable"
with a forecast that fits; the invariant "what fits is built" is false in the
instance of the run, with three lists for the two groups of its format, and
therefore not among the properties. `ForecastIsTheBuild` names the case instead.

### Files

`Formats` has, for six formats, what the renderer keeps of a plan (`Project...`),
the one sequence of lines it writes (`Render...`) and what is accepted when a file
is read (`Parse...`); `Preflight` is the check before rendering
(`preflight.go`), which refuses a plan that cannot be counted, as sites with a name
of one label, or that counts too much. `FileDelivery` puts them to use: `Replan` and `Publish`; `StartImport` and `ImportLine`, a RouterOS
router (external) that runs a script line by line, keeps the names of earlier
scripts resolved, and may be cut off (`Disconnect`); and the local deployer,
`Probe` to `Rollback`, writing through a temporary file in place of what is
there, against cancellation (`Cancel`), failing writes (`WriteFails`), a file that
cannot be removed again (`Rollback`), another writer (`OperatorWrites`) and a
crash.

`formats`: for each format, plans it can and cannot express, entries that mean
the same, two labels of one destination, a list split in two groups and one whose
name is too long. `FilesSteerThePlan`; `OneFileForOneMeaning` (no line moved,
doubled or dropped gives another file that is accepted and says the same);
`ImportReplaces` (whatever an earlier, torn or older import left, the present
script replaces); `OutcomeIsTold` (what a local run reports is what is on disk).

`FileDelivery_proofs` proves these four for any plans of any formats, any bounds,
paths, artifacts and writers. It has three invariants, as the machine has three
parts that share only the published file.

* `RunInv`: in every phase of a local run, what it has read, kept and written, and
  what the disk therefore holds, unless another writer touched it. `OutcomeIsTold`
  is its last conjunct.
* `ImportInv`: while a script of the present form runs, a list holds exactly what
  the lines past its emptying have added, and no resolved row of it can be in the
  way of a line to come. For `ImportReplaces` it has to be known that a rendered
  section has every entry on one line, which follows from lines being sorted
  without repetition (ranks of distinct entries are distinct, and reach every line).
* `FileInv` and `FromItsPlan`: the published file is accepted by its own reader, and
  is the rendering of the plan it was made from. `OneFileForOneMeaning` follows
  from a canonical form per format: an accepted body is the rendering of the *set*
  of its lines, so two accepted bodies with the same lines are one; the two forms
  a script may have differ by more lines than one. `FilesSteerThePlan` goes by
  format: what each projected rule is written as steers what the rule does
  (`...Say`), no line is written twice, and, for the groups, the parts a list is
  split into cover its entries and no two of them share a name.

Its assumptions: bounds are positive; plans are finite sets of rules, as slices
are (`PlansAreFinite`, `PlansAreRules`); a shortened list has a head to be named
by; and powers of two are positive numbers (`AddressesAreNumbers`), a fact of
arithmetic that the provers do not know of their own.

## 9. Configuration transfer

`Transfer` has two installations, each with a catalog, the rows of its database,
the registries and the mutex. `ReadSnapshot` reads all rows in one transaction,
`FinishExport` the default order after it; the file goes by `Rewrite` through the
hands of the operator (as written, as an earlier release wrote it, or with a word
twice); `Preview`, `PrepareApply`, `CommitTransfer`, `InstallTransferRegistries`
and `RefuseTransfer` are the import, with fresh identities in place of the file's
references; `Crash` and `Restart` may come anywhere; `Write` and `Edit` are
changes of the operator, one in the run.

`transfer`: an installation with one of four libraries (an order saved or not, a
removed list that a profile had left out, a list named twice over), the other
empty; the receiving catalog has or has not a list that is found on this network
and stays behind. `ImportIsTheExport` asks for a bijection of identities under
which the two installations mean the same; `RegistryIsStore` is the swap after
the commit. Two kinds of vocabulary per part of the document are kept, because
the reader decides per part. Installations are symmetric.

Left out: the wording of the document, byte bounds, and the report of the
preview.

### Proofs

`Transfer_proofs` proves both properties, for any databases, catalogs, identities,
forms of file and number of installations and changes. Its assumptions, named in
`Transfer`:

* `IdentitiesApart`: what is drawn for one kind of row is apart from what is drawn
  for another, from the references of a file (`custom-list-1`) and from what a
  release ships, and there are as many references as rows. The code draws 8 or
  16 random bytes per row, none twice in an import (`config_transfer.go:1544`), and
  reserves the prefix `custom-` (`custom_lists.go:21`, `categories.go:36`).
* `ShippedAside`: no shipped list sorts between two lists of an operator, which all
  begin with that prefix.
* `CatalogsAreFinite`, `ConfigurationsAreRows`: catalogs are finite and shipped
  categories carry shipped lists; a database has every table, with rows of the
  fields and kinds the schema gives them (`Typed`), and nothing is said of how
  they fit together: that a file is consistent is what the export checks.

The argument, in its layers:

* Orders. `MergePriority` puts what the stored order names first, in that order,
  and the rest behind it as given; where names keep the order of what is behind,
  the merged order moves with the names, and where they do not, whatever the
  stored order names still keeps its place.
* Names. A document that *speaks* only of known identities, renamed
  *faithfully* (no two of them to one), is read under the new names as it was
  under the old: members, resolved compositions, profiles, bindings, and so all
  of `Meaning`, table by table.
* Two renamings. The export writes references, the import draws identities. Both
  are faithful on what the file speaks of; one after the other they are a
  correspondence between the rows of one database and those of the other, which is the
  witness `ImportIsTheExport` asks for.
* What changes on the way. The file leaves out feeds and what is said of them,
  puts "off" for an interval never set, takes local lists out of the order
  and completes priorities; an earlier release leaves the order out. None of it
  changes what is meant, nor the order of two lists the property compares.
* The machine. `TransferInv`: rows stay `Typed`; a file is `WellFiled`, which is
  to say some export drew it up from rows of that kind and found it valid; an import under
  way keeps the document of its file and names that fit it (`Prepared`); what came
  in is, until somebody changes it, the origin under other names (`Came`). From its
  commit to the swap an import holds `publicationMu`, and the library it wrote is
  what memory will get, whatever devices and orders operators change meanwhile:
  `RegistryIsStore` is a part of this.

That nothing secret arrives (no feed, no secret of a device, no consent, no
history) is the first line of `ImportIsTheExport`, for any two catalogs; the rest
is about installations whose catalogs agree on what is not local to a network.

### Noted while modelling

* References are sorted as text (`config_transfer.go:913`), where `custom-list-10`
  comes before `custom-list-2`. With ten or more lists of one's own, those that a
  priority does not name can change places. `InReferenceOrder` excepts them,
  and no others; the model takes references in any order, so that the theorem covers this
  one.
* The default order is read after the transaction that reads the rows
  (ADR 0033:17 speaks of one read snapshot). The property asks of the file only
  the order as it was read.
* The export refuses a stored priority that names a list which a category no
  longer carries (`config_transfer.go:1507`), although a comment says that such a
  name disappears on read: after a legal edit of a category, nothing can be
  exported until the profile is saved again. The configurations of the run are
  exportable.
* A file that carries the default order (v1.3 and v1.4 of the format) is refused
  unless that order names exactly the lists the file and the receiving catalog
  have together (`config_transfer.go:1273`): one exported before a release that ships a
  list more does not import after it, although `docs/usage.md:394` says that a file
  of an earlier version still imports. Files of v1.0 to v1.2 carry no order and pass.

## 10. Limits

### What is only model-checked

* Liveness (`RequestsEnd`, `PublicationEnds`, `ImportEnds`) and everything about
  fairness and `ENABLED`: outside what the prover supports.
* The violated property, which is false.

Every invariant and every action property of a passing run is a theorem.

### What is not modelled, and why

* Scheduled refreshes: what is due and what is recorded is a comparison of two
  times; what a round does is modelled where it acts (`Publication` builds at any
  moment, `Deliveries` queues and delivers what a round published, `Observations`
  refreshes at any moment).
* The supplied catalog, HTTP and command-line interfaces, desktop and web:
  parsing, encoding and presentation. The application calls they make are the
  modelled operations.
* Discovery browser and proxy, plugin host and SDK: control of child processes
  and network I/O that differ by operating system.
* The store's schema and migrations: a transaction is one step in every model,
  and the one operation that is not a transaction (`RemoveCustomSource`) is two.
* The process lock: one operating-system call.
* Memory-level data races: values are copied in the models.
* The raw JSON renderer, which writes every field of a plan, byte limits of texts,
  titles, wording and timestamps. The byte bounds of files are in `Composition`,
  where a build is refused by them; `Formats` leaves them out.
* The journal of cleanups (`device_cleanup_attempts.go`): a repeated request
  answers from it; what is on a device is decided by the ledgers, which are
  modelled, and a record that cannot be written ends a cleanup as any failure
  does.

### Noted while reading, outside the models

* A profile archived after `ProfilesForScheduling` was read and before its turn
  in the round is refreshed, refused and marked as failed, against the comment at
  `schedule.go:213`.
* The time a round records is the one at which the round began, for every
  profile: two refreshes of a profile late in a long round can be less than the
  interval apart (`schedule.go:31` says a daily one never is).
* An error of `RecordProfileRefreshResult` other than a deleted profile ends the
  round for every profile after it, and `serve.go:340` then drops the
  publications of those before it: they are not delivered, and their next round is
  an interval away.
* A refresh calls itself degraded when as many sources are on grace as failed in
  it (`application.go:462`): it compares the numbers, and a source another refresh
  found failing may stand in for one of its own that has no grace left.
* The exclusions of a list are applied to the values of its sources before blocks
  are merged (`build_plan.go:305`): a block that the operator excluded comes back
  when both its halves are reported.
* A refused or cancelled local install that wrote nothing is still rolled back
  (`deploy.go`: a deployer that cannot tell is taken to have written), and the
  roll-back may overwrite another writer; a crash leaves the temporary file
  `.routevane-*` behind. `OutcomeIsTold` is stated for runs nobody else writes in.
* A crash in `migrateLegacyV3` between the move of the old database and the rename
  of the new one leaves no database, and the next start creates an empty one
  beside the two; nothing is lost, but the operator has to know.
