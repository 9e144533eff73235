----------------------------- MODULE Publication -----------------------------
(***************************************************************************)
(* Publishing a profile: builds that read an output, its profile and the   *)
(* library without holding a lock, store a content-addressed file and      *)
(* commit an artifact, while the library, the profile, its outputs and     *)
(* their subscriptions change under them, files are lost and the process   *)
(* restarts.                                                               *)
(*                                                                         *)
(* There is one profile, and its outputs are of one format, of which at    *)
(* most one is live.  `library' stands for everything in memory that a     *)
(* plan is made from (lists, tuning, categories): a version, increased by  *)
(* every edit.  `observed' is the version of the stored observations.      *)
(***************************************************************************)
EXTENDS Naturals, Sequences

CONSTANTS Builders, Outputs, Tokens,
          Compositions, Settings, FirstSetting,
          NoArtifact, NoOutput, NoComposition,
          Nothing, Frozen,
          MaxEdits,    \* bound: library edits
          MaxObserved, \* bound: refreshes that store something new
          MaxBuilds,   \* bound: moments at which a plan is begun
          MaxCrashes,  \* bound: crashes
          MaxDamaged   \* bound: files lost or damaged on disk

ASSUME FirstSettingAssumption == FirstSetting \in Settings
ASSUME NoOutputAssumption == NoOutput \notin Outputs
ASSUME NoCompositionAssumption == NoComposition \notin Compositions
ASSUME BoundsAssumption == {MaxEdits, MaxObserved, MaxBuilds, MaxCrashes, MaxDamaged} \subseteq Nat

VARIABLES library, generation, \* what plans are made from, and its counter
          writer, readers,     \* publicationMu: an edit, and builds committing
          observed, known,     \* observations, and what was stored at each cutoff
          profile,             \* shelf and composition
          output,              \* per output: state, setting, pointers, attempts
          token,               \* per token: its output and whether it works
          stored, corrupt,     \* files on disk, and those with foreign bytes
          build,               \* per builder: the build it runs
          crashes, damaged     \* how often each mishap struck

lib == <<library, generation>>
lock == <<writer, readers>>
obs == <<observed, known>>
disk == <<stored, corrupt>>
mishaps == <<crashes, damaged>>
vars == <<lib, lock, obs, profile, output, token, disk, build, mishaps>>

----------------------------------------------------------------------------
Shelves == {"none", "kept", "archived", "deleted"}
Profile == [shelf : Shelves, composition : Compositions \cup {NoComposition}]

(* A file's bytes follow from what the plan was made from; `first' and     *)
(* `second' are two of the moments at which a plan reads the library.      *)
Payload == [composition : Compositions, first : Nat, second : Nat,
            setting : Settings, seen : Nat]

(* An artifact is a row for one snapshot and one file; the snapshot holds  *)
(* the cutoff, so equal files of different cutoffs are different rows.     *)
Artifact == [payload : Payload, cutoff : Nat]

OutputRow == [state : {"none", "live", "removed"}, setting : Settings,
              latest : Artifact \cup {NoArtifact}, previous : Artifact \cup {NoArtifact},
              attempts : SUBSET {"success", "failed"}]
NewOutput == [state |-> "none", setting |-> FirstSetting,
              latest |-> NoArtifact, previous |-> NoArtifact, attempts |-> {}]

TokenRow == [output : Outputs \cup {NoOutput}, revoked : BOOLEAN]

(* A plain value is told from every row and every input.                   *)
Input == [composition : Compositions, first : Nat, second : Nat, setting : Settings]
ASSUME NoArtifactAssumption == NoArtifact \notin Artifact
ASSUME FrozenAssumption == Frozen \notin Input

Reading == {"profile", "generation", "cutoff", "planning"}
Storing == {"check", "link", "sync"}
Phases == {"idle", "publish", "commit"} \cup Reading \cup Storing
NewBuild == [phase |-> "idle", output |-> NoOutput, composition |-> NoComposition,
             setting |-> FirstSetting, generation |-> 0, cutoff |-> 0,
             first |-> 0, second |-> 0, seen |-> 0]
Build == [phase : Phases, output : Outputs \cup {NoOutput},
          composition : Compositions \cup {NoComposition}, setting : Settings,
          generation : Nat, cutoff : Nat, first : Nat, second : Nat, seen : Nat]

PayloadOf(b) == [composition |-> b.composition, first |-> b.first, second |-> b.second,
                 setting |-> b.setting, seen |-> b.seen]
ArtifactOf(b) == [payload |-> PayloadOf(b), cutoff |-> b.cutoff]

Live(o) == output[o].state = "live"
Writable == profile.shelf = "kept"
ActiveTokens(o) == { t \in Tokens : token[t].output = o /\ ~ token[t].revoked }
Intact(artifact) == artifact # NoArtifact /\ artifact.payload \in stored \ corrupt

Init ==
  /\ library = 0 /\ generation = 0
  /\ writer = "free" /\ readers = {}
  /\ observed = 0 /\ known = <<>>
  /\ profile = [shelf |-> "none", composition |-> NoComposition]
  /\ output = [o \in Outputs |-> NewOutput]
  /\ token = [t \in Tokens |-> [output |-> NoOutput, revoked |-> FALSE]]
  /\ stored = {} /\ corrupt = {}
  /\ build = [b \in Builders |-> NewBuild]
  /\ crashes = 0 /\ damaged = 0

----------------------------------------------------------------------------
(* Profiles and outputs.  Every edit is one transaction that checks again  *)
(* what the application checked before it.  A composition is validated and *)
(* stored under the read lock, which waits for an edit of the library.     *)

Edited == UNCHANGED <<lib, lock, obs, disk, build, mishaps>>

CreateProfile(c) ==
  /\ profile.shelf = "none" /\ writer = "free"
  /\ profile' = [shelf |-> "kept", composition |-> c]
  /\ UNCHANGED <<output, token>> /\ Edited

UpdateProfile(c) ==
  /\ Writable /\ writer = "free"
  /\ profile' = [profile EXCEPT !.composition = c]
  /\ UNCHANGED <<output, token>> /\ Edited

SetArchived(shelf) ==
  /\ profile.shelf \in {"kept", "archived"} \ {shelf}
  /\ profile' = [profile EXCEPT !.shelf = shelf]
  /\ UNCHANGED <<output, token>> /\ Edited

(* Faulty variant: the links of a retired output keep working.             *)
NothingRevoked(outputs) == token

Revoked(outputs) ==
  [t \in Tokens |-> IF token[t].output \in outputs THEN [token[t] EXCEPT !.revoked = TRUE]
                                                   ELSE token[t]]
Retired(outputs) ==
  [o \in Outputs |-> IF o \in outputs THEN [output[o] EXCEPT !.state = "removed"]
                                      ELSE output[o]]

DeleteProfile ==
  LET live == { o \in Outputs : Live(o) }
  IN  /\ profile.shelf = "archived"
      /\ profile' = [shelf |-> "deleted", composition |-> NoComposition]
      /\ output' = Retired(live) /\ token' = Revoked(live)
      /\ Edited

AddOutput(o) ==
  /\ Writable /\ output[o].state = "none"
  /\ \A p \in Outputs : ~ Live(p)
  /\ output' = [output EXCEPT ![o].state = "live"]
  /\ UNCHANGED <<profile, token>> /\ Edited

SetSetting(o, s) ==
  /\ Writable /\ Live(o)
  /\ output' = [output EXCEPT ![o].setting = s]
  /\ UNCHANGED <<profile, token>> /\ Edited

RemoveOutput(o) ==
  /\ Writable /\ Live(o)
  /\ output' = Retired({o}) /\ token' = Revoked({o})
  /\ UNCHANGED profile /\ Edited

----------------------------------------------------------------------------
(* Subscriptions.  A fresh token is one whose row was never inserted.      *)

Subscribable(o) == output[o].latest # NoArtifact /\ ActiveTokens(o) = {}

IssueSubscription(o, t) ==
  /\ Writable /\ Live(o) /\ Subscribable(o) /\ token[t].output = NoOutput
  /\ token' = [token EXCEPT ![t].output = o]
  /\ UNCHANGED <<profile, output>> /\ Edited

ReissueSubscription(o, t) ==
  /\ Writable /\ Live(o) /\ ActiveTokens(o) # {} /\ token[t].output = NoOutput
  /\ token' = [Revoked({o}) EXCEPT ![t].output = o]
  /\ UNCHANGED <<profile, output>> /\ Edited

----------------------------------------------------------------------------
(* The library.  An edit waits for the write lock, which keeps new readers *)
(* out; it writes the store, shows the change in memory, counts it and     *)
(* lets go.  A store that refuses changes nothing.                         *)

EditUnlocked == UNCHANGED <<obs, profile, output, token, disk, build, mishaps>>

WantEdit ==
  /\ writer = "free" /\ library < MaxEdits
  /\ writer' = "waiting"
  /\ UNCHANGED <<lib, readers>> /\ EditUnlocked

BeginEdit ==
  /\ writer = "waiting" /\ readers = {}
  /\ writer' = "writing"
  /\ UNCHANGED <<lib, readers>> /\ EditUnlocked

EditFails ==
  /\ writer = "writing"
  /\ writer' = "free"
  /\ UNCHANGED <<lib, readers>> /\ EditUnlocked

ChangeLibrary ==
  /\ writer = "writing"
  /\ library' = library + 1 /\ writer' = "changed"
  /\ UNCHANGED <<generation, readers>> /\ EditUnlocked

EndEdit ==
  /\ writer = "changed"
  /\ generation' = generation + 1 /\ writer' = "free"
  /\ UNCHANGED <<library, readers>> /\ EditUnlocked

(* A refresh stores new observations.  It takes no lock.                   *)
Observe ==
  /\ observed < MaxObserved
  /\ observed' = observed + 1
  /\ UNCHANGED <<lib, lock, known, profile, output, token, disk, build, mishaps>>

----------------------------------------------------------------------------
(* A build, step by step.                                                  *)

BuildOnly == UNCHANGED <<lib, writer, obs, profile, token, mishaps>>
Step(b, phase) == build' = [build EXCEPT ![b].phase = phase]

(* Attempts are rows that are only ever added.  The record of a failure is *)
(* deferred, and storing it may fail too.                                  *)
End(b, recorded) ==
  /\ build' = [build EXCEPT ![b] = NewBuild]
  /\ output' = [output EXCEPT ![build[b].output].attempts = @ \cup recorded]
Failed(b) == End(b, {"failed"}) \/ End(b, {})

ReadOutput(b, o) ==
  /\ build[b].phase = "idle" /\ Live(o)
  /\ build' = [build EXCEPT ![b] = [NewBuild EXCEPT !.phase = "profile", !.output = o,
                                                    !.setting = output[o].setting]]
  /\ BuildOnly /\ UNCHANGED <<readers, output, disk>>

ReadProfile(b) ==
  /\ build[b].phase = "profile" /\ Writable
  /\ build' = [build EXCEPT ![b].phase = "generation",
                            ![b].composition = profile.composition]
  /\ BuildOnly /\ UNCHANGED <<readers, output, disk>>

ReadGeneration(b) ==
  /\ build[b].phase = "generation" /\ writer = "free"
  /\ build' = [build EXCEPT ![b].phase = "cutoff", ![b].generation = generation]
  /\ BuildOnly /\ UNCHANGED <<readers, output, disk>>

(* The cutoff is the clock's reading before anything is planned.  Two      *)
(* builds may read the same moment when nothing was stored in between.     *)
TakeCutoff(b) ==
  /\ build[b].phase = "cutoff"
  /\ \/ /\ Len(known) < MaxBuilds
        /\ known' = Append(known, observed)
     \/ /\ known # <<>> /\ known[Len(known)] = observed
        /\ UNCHANGED known
  /\ build' = [build EXCEPT ![b].phase = "planning", ![b].cutoff = Len(known'),
                            ![b].first = library]
  /\ UNCHANGED <<lib, lock, observed, profile, output, token, disk, mishaps>>

(* Faulty variant: the generation a build reads is the one it publishes    *)
(* under, not the one it planned under.                                    *)
PlanLate(b) ==
  /\ build[b].phase = "planning"
  /\ build' = [build EXCEPT ![b].phase = "check", ![b].second = library,
                            ![b].seen = observed, ![b].generation = generation]
  /\ BuildOnly /\ UNCHANGED <<readers, output, disk>>

Plan(b) ==
  /\ build[b].phase = "planning"
  /\ build' = [build EXCEPT ![b].phase = "check", ![b].second = library,
                            ![b].seen = observed]
  /\ BuildOnly /\ UNCHANGED <<readers, output, disk>>

(* PutPublished: an intact file of that name is used, a foreign one is a   *)
(* collision, and a missing one is linked into place, synced and read.     *)
FileOf(b) == PayloadOf(build[b])

UseFile(b) ==
  /\ build[b].phase \in {"check", "link"} /\ FileOf(b) \in stored \ corrupt
  /\ Step(b, "publish")
  /\ BuildOnly /\ UNCHANGED <<readers, output, disk>>

MissFile(b) ==
  /\ build[b].phase = "check" /\ FileOf(b) \notin stored
  /\ Step(b, "link")
  /\ BuildOnly /\ UNCHANGED <<readers, output, disk>>

LinkFile(b) ==
  /\ build[b].phase = "link" /\ FileOf(b) \notin stored
  /\ stored' = stored \cup {FileOf(b)}
  /\ Step(b, "sync")
  /\ BuildOnly /\ UNCHANGED <<readers, output, corrupt>>

ConfirmFile(b) ==
  /\ build[b].phase = "sync" /\ FileOf(b) \in stored \ corrupt
  /\ Step(b, "publish")
  /\ BuildOnly /\ UNCHANGED <<readers, output, disk>>

(* Once linked, any failure removes the file of that name.                 *)
CleanUp(b) ==
  /\ build[b].phase = "sync"
  /\ stored' = stored \ {FileOf(b)} /\ corrupt' = corrupt \ {FileOf(b)}
  /\ Failed(b)
  /\ BuildOnly /\ UNCHANGED readers

(* publishCurrent: under the read lock from the comparison to the commit.  *)
BeginPublish(b) ==
  /\ build[b].phase = "publish" /\ writer = "free"
  /\ build[b].generation = generation
  /\ Step(b, "commit")
  /\ readers' = readers \cup {b}
  /\ BuildOnly /\ UNCHANGED <<output, disk>>

(* Faulty variant: a stale build asks again instead of giving up.          *)
RefuseStaleAgain(b) ==
  /\ build[b].phase = "publish" /\ writer = "free"
  /\ build[b].generation # generation
  /\ Step(b, "publish")
  /\ BuildOnly /\ UNCHANGED <<readers, output, disk>>

RefuseStale(b) ==
  /\ build[b].phase = "publish" /\ writer = "free"
  /\ build[b].generation # generation
  /\ Failed(b)
  /\ BuildOnly /\ UNCHANGED <<readers, disk>>

(* Faulty variants: the composition may have changed, or an older build    *)
(* overtakes.                                                              *)
PublishableAnyComposition(b) ==
  LET o == build[b].output
  IN  /\ Live(o) /\ Writable /\ output[o].setting = build[b].setting
      /\ output[o].latest # NoArtifact => output[o].latest.cutoff <= build[b].cutoff

PublishableAnyOrder(b) ==
  LET o == build[b].output
  IN  Live(o) /\ Writable /\ profile.composition = build[b].composition
              /\ output[o].setting = build[b].setting

(* The checks of Store.Publish, in the transaction that publishes.         *)
Publishable(b) ==
  LET o == build[b].output
  IN  /\ Live(o) /\ Writable
      /\ profile.composition = build[b].composition /\ output[o].setting = build[b].setting
      /\ output[o].latest # NoArtifact => output[o].latest.cutoff <= build[b].cutoff

Advanced(row, artifact) ==
  IF row.latest = artifact
    THEN row
    ELSE [row EXCEPT !.previous = row.latest, !.latest = artifact]

Publish(b) ==
  LET o == build[b].output
  IN  /\ build[b].phase = "commit" /\ Publishable(b)
      /\ output' = [output EXCEPT ![o] =
                      [Advanced(output[o], ArtifactOf(build[b])) EXCEPT
                         !.attempts = @ \cup {"success"}]]
      /\ build' = [build EXCEPT ![b] = NewBuild]
      /\ readers' = readers \ {b}
      /\ BuildOnly /\ UNCHANGED disk

(* Faulty variants: a refused commit that forgets the read lock, or is    *)
(* recorded as a success.                                                  *)
PublishFailsLocked(b) ==
  /\ build[b].phase = "commit"
  /\ Failed(b)
  /\ BuildOnly /\ UNCHANGED <<readers, disk>>
PublishFailsProudly(b) ==
  /\ build[b].phase = "commit"
  /\ readers' = readers \ {b}
  /\ End(b, {"success"})
  /\ BuildOnly /\ UNCHANGED disk

(* The transaction is refused or fails; the file stays.                    *)
PublishFails(b) ==
  /\ build[b].phase = "commit"
  /\ readers' = readers \ {b}
  /\ Failed(b)
  /\ BuildOnly /\ UNCHANGED disk

(* An archived or deleted profile, an empty plan, a limit, a renderer's    *)
(* refusal, a file that cannot be written, no random identity.             *)
BuildFails(b) ==
  /\ build[b].phase \in Reading \cup {"check", "link", "publish"}
  /\ Failed(b)
  /\ BuildOnly /\ UNCHANGED <<readers, disk>>

----------------------------------------------------------------------------
(* Mishaps.  A crash while an edit has the lock may come before or after   *)
(* its commit; the library is loaded again from what was committed.        *)
Crash ==
  /\ crashes < MaxCrashes /\ crashes' = crashes + 1
  /\ build' = [b \in Builders |-> NewBuild]
  /\ writer' = "free" /\ readers' = {} /\ generation' = 0
  /\ library' \in {library} \cup (IF writer = "writing" THEN {library + 1} ELSE {})
  /\ UNCHANGED <<obs, profile, output, token, disk, damaged>>

Damage ==
  /\ damaged < MaxDamaged /\ damaged' = damaged + 1
  /\ UNCHANGED <<lib, lock, obs, profile, output, token, build, crashes>>

LoseFile(p) ==
  /\ Damage
  /\ stored' = stored \ {p} /\ corrupt' = corrupt \ {p}

DamageFile(p) ==
  /\ Damage
  /\ corrupt' = corrupt \cup {p} /\ UNCHANGED stored

----------------------------------------------------------------------------
Operator ==
  \/ \E c \in Compositions : CreateProfile(c) \/ UpdateProfile(c)
  \/ \E shelf \in {"kept", "archived"} : SetArchived(shelf)
  \/ DeleteProfile
  \/ \E o \in Outputs :
       \/ AddOutput(o) \/ RemoveOutput(o)
       \/ \E s \in Settings : SetSetting(o, s)
       \/ \E t \in Tokens : IssueSubscription(o, t) \/ ReissueSubscription(o, t)

Edit == BeginEdit \/ EditFails \/ ChangeLibrary \/ EndEdit

Unlocked(b) ==
  \/ ReadProfile(b) \/ TakeCutoff(b) \/ Plan(b)
  \/ UseFile(b) \/ MissFile(b) \/ LinkFile(b) \/ ConfirmFile(b) \/ CleanUp(b)
  \/ Publish(b) \/ PublishFails(b) \/ BuildFails(b)
Locked(b) == ReadGeneration(b) \/ BeginPublish(b) \/ RefuseStale(b)

Next ==
  \/ Operator \/ WantEdit \/ Edit \/ Observe
  \/ \E b \in Builders : Unlocked(b) \/ Locked(b) \/ \E o \in Outputs : ReadOutput(b, o)
  \/ Crash \/ \E p \in stored : LoseFile(p) \/ DamageFile(p)

Spec == Init /\ [][Next]_vars

(* A build's steps and an edit's have deadlines; a sync.RWMutex lets       *)
(* readers that wait for a writer in when it unlocks, and a writer in when *)
(* the readers before it have left.  A build that has its file need not    *)
(* fail while it waits.                                                    *)
Proceeds(b) == Unlocked(b) /\ build[b].phase # "publish"
Fairness ==
  /\ \A b \in Builders : WF_vars(Proceeds(b)) /\ SF_vars(Locked(b))
  /\ WF_vars(Edit)
FairSpec == Spec /\ Fairness

----------------------------------------------------------------------------
(* Properties.                                                             *)

TypeOK ==
  /\ library \in Nat /\ generation \in Nat /\ observed \in Nat
  /\ writer \in {"free", "waiting", "writing", "changed"} /\ readers \subseteq Builders
  /\ known \in Seq(Nat)
  /\ profile \in Profile
  /\ output \in [Outputs -> OutputRow]
  /\ token \in [Tokens -> TokenRow]
  /\ stored \subseteq Payload /\ corrupt \subseteq stored
  /\ build \in [Builders -> Build]
  /\ crashes \in Nat /\ damaged \in Nat

(* What an output would be published from now, and what its latest         *)
(* artifact was made from; observations aside.                             *)
Inputs(payload) == [composition |-> payload.composition, first |-> payload.first,
                    second |-> payload.second, setting |-> payload.setting]
WantedNow(o) ==
  IF Writable /\ Live(o)
    THEN [composition |-> profile.composition, first |-> library, second |-> library,
          setting |-> output[o].setting]
    ELSE Frozen
CurrentOf(o) ==
  IF output[o].latest = NoArtifact THEN Nothing ELSE Inputs(output[o].latest.payload)
Instant == INSTANCE InstantBuilds
  WITH wanted <- [o \in Outputs |-> WantedNow(o)],
       current <- [o \in Outputs |-> CurrentOf(o)]

(* No publication is stale or torn: whatever a build read and whenever it  *)
(* read it, the pointer only ever advances to a file made from the library *)
(* as one version, the composition and the settings in force at that       *)
(* moment, and never on an archived profile or a removed output            *)
(* (publishCurrent's generation, ProfilePublicationRevision, ADR 0004).    *)
ImplementsInstantBuilds == Instant!Spec

(* An output never goes back: each publication holds at least the          *)
(* observations that were stored when the one before it was begun, even if *)
(* the two were built at the same time (ErrBuildSuperseded).               *)
NeverOlder ==
  [][\A o \in Outputs :
       LET old == output[o].latest
           new == output'[o].latest
       IN  old # NoArtifact /\ new # old => new.payload.seen >= known[old.cutoff]]_vars

(* A link that works belongs to a live, published output, and an output    *)
(* has one link at most, through every retirement and reissue (ADR 0051).  *)
LinksWork ==
  \A o \in Outputs : \A t \in ActiveTokens(o) :
    /\ Live(o) /\ output[o].latest # NoArtifact
    /\ ActiveTokens(o) = {t}

(* The record of attempts tells the truth (ADR 0023): a success is         *)
(* recorded exactly for the outputs that have an artifact, whatever failed *)
(* before and after it and wherever the process stopped.                   *)
AttemptsTellTheTruth ==
  \A o \in Outputs : "success" \in output[o].attempts <=> output[o].latest # NoArtifact

(* Every build ends, whatever becomes stale meanwhile, and an edit of the  *)
(* library that waits for the lock gets it and gives it back.              *)
BuildsEnd == \A b \in Builders : build[b].phase # "idle" ~> build[b].phase = "idle"
EditsEnd == writer = "waiting" ~> writer = "free"
PublicationEnds == BuildsEnd /\ EditsEnd

(* The inductive invariant of the proofs.                                  *)
Planned == {"planning"} \cup Storing \cup {"publish", "commit"}

(* A profile has a composition until it is deleted; a build past a step    *)
(* has what the step read.                                                 *)
StepsTookEffect ==
  /\ profile.shelf \in {"kept", "archived"} => profile.composition \in Compositions
  /\ \A b \in Builders :
       /\ build[b].phase # "idle" => build[b].output \in Outputs
       /\ build[b].phase \notin {"idle", "profile"} => build[b].composition \in Compositions

(* As long as the generation is the one a build read, the library is the   *)
(* one it planned from, unless an edit is about to count itself; and a     *)
(* build that holds the read lock holds it against every edit.             *)
GenerationCounts(b) ==
  LET asRead == build[b].generation = generation /\ writer # "changed"
  IN  /\ build[b].phase \in Planned \cup {"cutoff"} => build[b].generation <= generation
      /\ build[b].phase \in Planned /\ asRead => build[b].first = library
      /\ build[b].phase \in Planned \ {"planning"} /\ asRead => build[b].second = library
      /\ b \in readers => writer \in {"free", "waiting"} /\ build[b].generation = generation
      /\ build[b].phase = "commit" <=> b \in readers
GenerationsCount == \A b \in Builders : GenerationCounts(b)

(* A cutoff is a moment that was, and what a plan saw was there by then.   *)
CutoffsAreReal ==
  /\ \A i \in DOMAIN known : known[i] <= observed
  /\ \A i, j \in DOMAIN known : i <= j => known[i] <= known[j]
  /\ \A b \in Builders :
       /\ build[b].phase \in Planned => build[b].cutoff \in DOMAIN known
       /\ build[b].phase \in Planned \ {"planning"} => known[build[b].cutoff] <= build[b].seen
  /\ \A o \in Outputs :
       output[o].latest # NoArtifact => output[o].latest.cutoff \in DOMAIN known

IInv == TypeOK /\ StepsTookEffect /\ GenerationsCount /\ CutoffsAreReal
=============================================================================
