------------------------- MODULE Publication_proofs -------------------------
(***************************************************************************)
(* Theorems about what is published and about the observations it is made  *)
(* of: about Publication for any sets of builders, outputs, tokens,        *)
(* compositions and settings, and any number of edits, refreshes, builds,  *)
(* crashes and damaged files; about Observations for every list of         *)
(* sources, feeds, answers, validities and catalogs, any number of         *)
(* concurrent refreshes and any length of time.                            *)
(***************************************************************************)
EXTENDS Publication, Observations, WellFoundedInduction, TLAPS

LEMMA NewRowsType == NewOutput \in OutputRow /\ NewBuild \in Build
BY FirstSettingAssumption DEF NewOutput, OutputRow, NewBuild, Build, Phases

(* A build that went through the steps before it leaves a proper file and  *)
(* a proper artifact.                                                      *)
LEMMA ArtifactType ==
  ASSUME NEW b \in Build, b.composition \in Compositions
  PROVE  PayloadOf(b) \in Payload /\ ArtifactOf(b) \in Artifact
BY DEF Build, PayloadOf, Payload, ArtifactOf, Artifact

LEMMA FileOfType ==
  ASSUME TypeOK, StepsTookEffect, NEW b \in Builders,
         build[b].phase \notin {"idle", "profile"}
  PROVE  /\ build[b].output \in Outputs
         /\ FileOf(b) \in Payload
         /\ ArtifactOf(build[b]) \in Artifact
BY ArtifactType DEF TypeOK, StepsTookEffect, FileOf

LEMMA EndType ==
  ASSUME TypeOK, NEW b \in Builders, build[b].output \in Outputs,
         NEW recorded \in SUBSET {"success", "failed"}, End(b, recorded)
  PROVE  build' \in [Builders -> Build] /\ output' \in [Outputs -> OutputRow]
<1>1. build' \in [Builders -> Build]
  BY NewRowsType DEF TypeOK, End
<1>2. output' \in [Outputs -> OutputRow]
  <2>1. output[build[b].output] \in OutputRow
    BY DEF TypeOK
  <2> QED
    BY <2>1 DEF TypeOK, End, OutputRow
<1> QED
  BY <1>1, <1>2

LEMMA FailedType ==
  ASSUME TypeOK, StepsTookEffect, NEW b \in Builders, build[b].phase # "idle", Failed(b)
  PROVE  build' \in [Builders -> Build] /\ output' \in [Outputs -> OutputRow]
BY EndType DEF Failed, StepsTookEffect

(* The operator's edits keep the types of the rows they touch.             *)
LEMMA OperatorType == TypeOK /\ Operator => TypeOK'
<1> SUFFICES ASSUME TypeOK, Operator
             PROVE  TypeOK'
  OBVIOUS
<1> DEFINE Rows == profile' \in Profile /\ output' \in [Outputs -> OutputRow]
                     /\ token' \in [Tokens -> TokenRow] /\ Edited
<1> HIDE DEF Rows
<1>0. profile \in Profile /\ output \in [Outputs -> OutputRow] /\ token \in [Tokens -> TokenRow]
  BY DEF TypeOK
<1>1. ASSUME NEW S \in SUBSET Outputs
      PROVE  Retired(S) \in [Outputs -> OutputRow] /\ Revoked(S) \in [Tokens -> TokenRow]
  <2>1. \A o \in Outputs : [output[o] EXCEPT !.state = "removed"] \in OutputRow
    BY <1>0 DEF OutputRow
  <2>2. \A t \in Tokens : [token[t] EXCEPT !.revoked = TRUE] \in TokenRow
    BY <1>0 DEF TokenRow
  <2> QED
    BY <1>0, <2>1, <2>2 DEF Retired, Revoked
<1>2. ASSUME NEW c \in Compositions, CreateProfile(c) PROVE Rows
  BY <1>0, <1>2 DEF CreateProfile, Rows, Profile, Shelves
<1>3. ASSUME NEW c \in Compositions, UpdateProfile(c) PROVE Rows
  BY <1>0, <1>3 DEF UpdateProfile, Rows, Profile, Shelves
<1>4. ASSUME NEW shelf \in {"kept", "archived"}, SetArchived(shelf) PROVE Rows
  BY <1>0, <1>4 DEF SetArchived, Rows, Profile, Shelves
<1>5. ASSUME DeleteProfile PROVE Rows
  <2> DEFINE live == { o \in Outputs : Live(o) }
  <2> HIDE DEF live
  <2>1. profile' \in Profile /\ Edited
    BY <1>0, <1>5 DEF DeleteProfile, Profile, Shelves
  <2>2. live \in SUBSET Outputs /\ output' = Retired(live) /\ token' = Revoked(live)
    BY <1>5 DEF DeleteProfile, live
  <2> QED
    BY <1>1, <2>1, <2>2 DEF Rows
<1>6. ASSUME NEW o \in Outputs, AddOutput(o) PROVE Rows
  BY <1>0, <1>6 DEF AddOutput, Rows, OutputRow
<1>7. ASSUME NEW o \in Outputs, NEW s \in Settings, SetSetting(o, s) PROVE Rows
  BY <1>0, <1>7 DEF SetSetting, Rows, OutputRow
<1>8. ASSUME NEW o \in Outputs, RemoveOutput(o) PROVE Rows
  <2>1. output' = Retired({o}) /\ token' = Revoked({o}) /\ profile' = profile /\ Edited
    BY <1>8 DEF RemoveOutput
  <2> QED
    BY <1>0, <1>1, <2>1 DEF Rows
<1>9. ASSUME NEW o \in Outputs, NEW t \in Tokens, IssueSubscription(o, t) PROVE Rows
  BY <1>0, <1>9 DEF IssueSubscription, Rows, TokenRow
<1>10. ASSUME NEW o \in Outputs, NEW t \in Tokens, ReissueSubscription(o, t) PROVE Rows
  <2>1. Revoked({o}) \in [Tokens -> TokenRow]
    BY <1>1
  <2> QED
    BY <1>0, <1>10, <2>1 DEF ReissueSubscription, Rows, TokenRow
<1>11. Rows
  BY <1>2, <1>3, <1>4, <1>5, <1>6, <1>7, <1>8, <1>9, <1>10 DEF Operator
<1>12. UNCHANGED <<library, generation, writer, readers, observed, known, stored, corrupt, build, crashes, damaged>>
  BY <1>11 DEF Rows, Edited, lib, lock, obs, disk, mishaps
<1>13. profile' \in Profile /\ output' \in [Outputs -> OutputRow] /\ token' \in [Tokens -> TokenRow]
  BY <1>11 DEF Rows
<1> QED
  BY <1>12, <1>13 DEF TypeOK

(* So do the edits of the library, refreshes and mishaps.                  *)
LEMMA WorldType ==
  TypeOK /\ (WantEdit \/ Edit \/ Observe \/ Crash \/ \E p \in stored : LoseFile(p) \/ DamageFile(p))
    => TypeOK'
<1> SUFFICES ASSUME TypeOK,
                    WantEdit \/ Edit \/ Observe \/ Crash
                      \/ \E p \in stored : LoseFile(p) \/ DamageFile(p)
             PROVE  TypeOK'
  OBVIOUS
<1> USE DEF TypeOK, lib, lock, obs, disk, mishaps
<1>1. CASE WantEdit \/ Edit
  BY <1>1 DEF WantEdit, Edit, BeginEdit, EditFails, ChangeLibrary, EndEdit, EditUnlocked
<1>2. CASE Observe
  BY <1>2 DEF Observe
<1>3. CASE Crash
  BY <1>3, NewRowsType DEF Crash
<1>4. CASE \E p \in stored : LoseFile(p) \/ DamageFile(p)
  BY <1>4 DEF LoseFile, DamageFile, Damage
<1> QED
  BY <1>1, <1>2, <1>3, <1>4

(* And every step of a build.                                              *)
LEMMA BuildType ==
  ASSUME TypeOK, StepsTookEffect, NEW b \in Builders,
         Unlocked(b) \/ Locked(b) \/ \E o \in Outputs : ReadOutput(b, o)
  PROVE  TypeOK'
<1> DEFINE row == build[b]
<1>0. row \in Build /\ build \in [Builders -> Build]
  BY DEF TypeOK
<1>a. ASSUME NEW next \in Build, build' = [build EXCEPT ![b] = next]
      PROVE  build' \in [Builders -> Build]
  BY <1>0, <1>a
<1>1. ASSUME NEW o \in Outputs, ReadOutput(b, o) PROVE TypeOK'
  <2>1. output[o] \in OutputRow
    BY DEF TypeOK
  <2>2. [NewBuild EXCEPT !.phase = "profile", !.output = o, !.setting = output[o].setting] \in Build
    BY <2>1, NewRowsType DEF OutputRow, Build, Phases, Reading
  <2>3. build' \in [Builders -> Build]
    BY <1>1, <1>a, <2>2 DEF ReadOutput
  <2> QED
    BY <1>1, <2>3 DEF TypeOK, ReadOutput, BuildOnly, lib, lock, obs, disk, mishaps
<1>2. CASE ReadProfile(b)
  <2>1. [row EXCEPT !.phase = "generation", !.composition = profile.composition] \in Build
    BY <1>0, <1>2 DEF ReadProfile, Writable, StepsTookEffect, Build, Phases, Reading
  <2>2. build' \in [Builders -> Build]
    BY <1>0, <1>2, <1>a, <2>1 DEF ReadProfile
  <2> QED
    BY <1>2, <2>2 DEF TypeOK, ReadProfile, BuildOnly, lib, lock, obs, disk, mishaps
<1>3. CASE ReadGeneration(b)
  <2>1. [row EXCEPT !.phase = "cutoff", !.generation = generation] \in Build
    BY <1>0 DEF TypeOK, Build, Phases, Reading
  <2>2. build' \in [Builders -> Build]
    BY <1>0, <1>3, <1>a, <2>1 DEF ReadGeneration
  <2> QED
    BY <1>3, <2>2 DEF TypeOK, ReadGeneration, BuildOnly, lib, lock, obs, disk, mishaps
<1>4. CASE TakeCutoff(b)
  <2>0. known \in Seq(Nat) /\ observed \in Nat
    BY DEF TypeOK
  <2>1. known' \in Seq(Nat)
    <3>1. known' = Append(known, observed) \/ known' = known
      BY <1>4 DEF TakeCutoff
    <3> QED
      BY <2>0, <3>1
  <2>2. Len(known') \in Nat /\ library \in Nat
    BY <2>1 DEF TypeOK
  <2>3. [row EXCEPT !.phase = "planning", !.cutoff = Len(known'), !.first = library] \in Build
    BY <1>0, <2>2 DEF Build, Phases, Reading
  <2>4. build' \in [Builders -> Build]
    BY <1>0, <1>4, <1>a, <2>3 DEF TakeCutoff
  <2> QED
    BY <1>4, <2>1, <2>4 DEF TypeOK, TakeCutoff, lib, lock, obs, disk, mishaps
<1>5. CASE Plan(b)
  <2>1. [row EXCEPT !.phase = "check", !.second = library, !.seen = observed] \in Build
    BY <1>0 DEF TypeOK, Build, Phases, Storing
  <2>2. build' \in [Builders -> Build]
    BY <1>0, <1>5, <1>a, <2>1 DEF Plan
  <2> QED
    BY <1>5, <2>2 DEF TypeOK, Plan, BuildOnly, lib, lock, obs, disk, mishaps
<1>b. ASSUME NEW phase \in Phases, Step(b, phase) PROVE build' \in [Builders -> Build]
  <2>1. [row EXCEPT !.phase = phase] \in Build
    BY <1>0 DEF Build
  <2> QED
    BY <1>0, <1>a, <1>b, <2>1 DEF Step
<1>6. CASE UseFile(b) \/ MissFile(b) \/ LinkFile(b) \/ ConfirmFile(b)
  <2>1. build' \in [Builders -> Build]
    BY <1>6, <1>b DEF UseFile, MissFile, LinkFile, ConfirmFile, Phases, Storing
  <2>2. stored' \subseteq Payload /\ corrupt' \subseteq stored'
    BY <1>6, FileOfType DEF TypeOK, disk, UseFile, MissFile, LinkFile, ConfirmFile
  <2> QED
    BY <1>6, <2>1, <2>2 DEF TypeOK, UseFile, MissFile, LinkFile, ConfirmFile, BuildOnly, lib, obs,
       mishaps
<1>7. CASE CleanUp(b)
  <2>1. stored' \subseteq Payload /\ corrupt' \subseteq stored'
    BY <1>7 DEF TypeOK, CleanUp
  <2>2. build' \in [Builders -> Build] /\ output' \in [Outputs -> OutputRow]
    BY <1>7, FailedType DEF CleanUp
  <2> QED
    BY <1>7, <2>1, <2>2 DEF TypeOK, CleanUp, BuildOnly, lib, obs, mishaps
<1>8. CASE BeginPublish(b)
  <2>1. build' \in [Builders -> Build]
    BY <1>8, <1>b DEF BeginPublish, Phases
  <2> QED
    BY <1>8, <2>1 DEF TypeOK, BeginPublish, BuildOnly, lib, obs, disk, mishaps
<1>9. CASE RefuseStale(b) \/ PublishFails(b) \/ BuildFails(b)
  <2>1. build' \in [Builders -> Build] /\ output' \in [Outputs -> OutputRow]
    BY <1>9, FailedType DEF RefuseStale, PublishFails, BuildFails, Reading
  <2> QED
    BY <1>9, <2>1 DEF TypeOK, RefuseStale, PublishFails, BuildFails, BuildOnly, lib, obs, disk,
       mishaps
<1>10. CASE Publish(b)
  <2>1. /\ row.output \in Outputs /\ ArtifactOf(row) \in Artifact
        /\ output[row.output] \in OutputRow
    BY <1>10, FileOfType DEF TypeOK, Publish
  <2>2. Advanced(output[row.output], ArtifactOf(row)) \in OutputRow
    BY <2>1 DEF Advanced, OutputRow
  <2>3. output' \in [Outputs -> OutputRow]
    BY <1>10, <2>1, <2>2 DEF TypeOK, Publish, OutputRow
  <2>4. build' \in [Builders -> Build]
    BY <1>0, <1>10, <1>a, NewRowsType DEF Publish
  <2> QED
    BY <1>10, <2>3, <2>4 DEF TypeOK, Publish, BuildOnly, lib, obs, disk, mishaps
<1> QED
  BY <1>1, <1>2, <1>3, <1>4, <1>5, <1>6, <1>7, <1>8, <1>9, <1>10 DEF Unlocked, Locked

LEMMA TypeStep == TypeOK /\ StepsTookEffect /\ [Next]_vars => TypeOK'
<1>1. ASSUME TypeOK, UNCHANGED vars PROVE TypeOK'
  BY <1>1 DEF TypeOK, vars, lib, lock, obs, disk, mishaps
<1> QED
  BY <1>1, OperatorType, WorldType, BuildType DEF Next

(* What each kind of step leaves alone.                                    *)
Loss == \E p \in stored : LoseFile(p) \/ DamageFile(p)

LEMMA OperatorLeaves ==
  Operator => UNCHANGED <<library, generation, writer, readers, observed, known, build>>
BY DEF Operator, CreateProfile, UpdateProfile, SetArchived, DeleteProfile, AddOutput, SetSetting,
       RemoveOutput, IssueSubscription, ReissueSubscription, Edited, lib, lock, obs

LEMMA WorldLeaves ==
  WantEdit \/ Edit \/ Observe \/ Loss => UNCHANGED <<readers, known, profile, output, token, build>>
BY DEF WantEdit, Edit, BeginEdit, EditFails, ChangeLibrary, EndEdit, EditUnlocked, obs, lock, Observe,
       Loss, LoseFile, DamageFile, Damage

LEMMA BuildLeaves ==
  ASSUME NEW b \in Builders, Unlocked(b) \/ Locked(b) \/ \E o \in Outputs : ReadOutput(b, o)
  PROVE  /\ UNCHANGED <<library, generation, writer, observed, profile, token>>
         /\ ~ TakeCutoff(b) => UNCHANGED known
<1>1. CASE \E o \in Outputs : ReadOutput(b, o)
  BY <1>1 DEF ReadOutput, BuildOnly, lib, obs
<1>2. CASE TakeCutoff(b)
  BY <1>2 DEF TakeCutoff, lib, lock
<1>3. CASE Locked(b)
  BY <1>3 DEF Locked, ReadGeneration, BeginPublish, RefuseStale, BuildOnly, lib, obs
<1>4. CASE Unlocked(b) /\ ~ TakeCutoff(b)
  BY <1>4 DEF Unlocked, ReadProfile, Plan, UseFile, MissFile, LinkFile, ConfirmFile, CleanUp, Publish,
     PublishFails, BuildFails, BuildOnly, lib, obs
<1> QED
  BY <1>1, <1>2, <1>3, <1>4

LEMMA OthersKeep ==
  ASSUME TypeOK, NEW b \in Builders,
         Unlocked(b) \/ Locked(b) \/ \E o \in Outputs : ReadOutput(b, o),
         NEW c \in Builders, c # b
  PROVE  build'[c] = build[c]
BY DEF TypeOK, Unlocked, Locked, ReadOutput, ReadProfile, ReadGeneration, TakeCutoff, Plan,
       UseFile, MissFile, LinkFile, ConfirmFile, CleanUp, BeginPublish, RefuseStale, Publish,
       PublishFails, BuildFails, Failed, End, Step

LEMMA StepsStep == TypeOK /\ StepsTookEffect /\ [Next]_vars => StepsTookEffect'
<1> SUFFICES ASSUME TypeOK, StepsTookEffect, [Next]_vars
             PROVE  StepsTookEffect'
  OBVIOUS
<1>1. (profile.shelf \in {"kept", "archived"} => profile.composition \in Compositions)'
  <2>1. CASE profile' = profile
    BY <2>1 DEF StepsTookEffect
  <2>2. CASE Operator
    <3>1. ASSUME NEW c \in Compositions, CreateProfile(c) \/ UpdateProfile(c)
          PROVE  profile'.composition = c
      BY <3>1 DEF CreateProfile, UpdateProfile, TypeOK, Profile
    <3>2. ASSUME NEW shelf \in {"kept", "archived"}, SetArchived(shelf)
          PROVE  profile.shelf \in {"kept", "archived"} /\ profile'.composition = profile.composition
      BY <3>2 DEF SetArchived, TypeOK, Profile
    <3>3. CASE DeleteProfile
      BY <3>3 DEF DeleteProfile
    <3> QED
      BY <2>1, <2>2, <3>1, <3>2, <3>3 DEF StepsTookEffect, Operator, AddOutput, SetSetting,
         RemoveOutput, IssueSubscription, ReissueSubscription
  <2>3. CASE Crash \/ UNCHANGED vars
    BY <2>1, <2>3 DEF Crash, vars
  <2>4. CASE WantEdit \/ Edit \/ Observe \/ Loss
    <3>1. profile' = profile
      BY <2>4, WorldLeaves
    <3> QED
      BY <2>1, <3>1
  <2>5. ASSUME NEW b \in Builders, Unlocked(b) \/ Locked(b) \/ \E o \in Outputs : ReadOutput(b, o)
        PROVE  profile' = profile
    BY <2>5, BuildLeaves
  <2>6. \/ Operator \/ (WantEdit \/ Edit \/ Observe \/ Loss) \/ (Crash \/ UNCHANGED vars)
        \/ \E b \in Builders : Unlocked(b) \/ Locked(b) \/ \E o \in Outputs : ReadOutput(b, o)
    BY DEF Next, Loss
  <2> QED
    BY <2>1, <2>2, <2>3, <2>4, <2>5, <2>6
<1>2. ASSUME NEW c \in Builders
      PROVE  /\ (build[c].phase # "idle" => build[c].output \in Outputs)'
             /\ (build[c].phase \notin {"idle", "profile"} => build[c].composition \in Compositions)'
  <2>0. build[c] \in Build /\ build \in [Builders -> Build]
    BY DEF TypeOK
  <2>1. CASE build'[c] = build[c]
    BY <2>1 DEF StepsTookEffect
  <2>2. CASE build'[c] = NewBuild
    BY <2>2 DEF NewBuild
  <2>3. ASSUME NEW o \in Outputs, ReadOutput(c, o)
        PROVE  build'[c].phase = "profile" /\ build'[c].output = o
    BY <2>0, <2>3 DEF ReadOutput, NewBuild
  <2>4. CASE ReadProfile(c)
    <3>1. /\ build'[c].output = build[c].output /\ build[c].phase = "profile"
          /\ build'[c].composition = profile.composition /\ Writable
      BY <2>0, <2>4 DEF ReadProfile, Build
    <3> QED
      BY <3>1 DEF StepsTookEffect, Writable
  <2>5. CASE (Unlocked(c) /\ ~ ReadProfile(c)) \/ Locked(c)
    <3>1. \/ build'[c] = NewBuild
          \/ /\ build[c].phase \notin {"idle", "profile"}
             /\ build'[c].output = build[c].output
             /\ build'[c].composition = build[c].composition
      BY <2>0, <2>5 DEF Unlocked, Locked, ReadGeneration, TakeCutoff, Plan, UseFile, MissFile,
         LinkFile, ConfirmFile, CleanUp, BeginPublish, RefuseStale, Publish, PublishFails,
         BuildFails, Failed, End, Step, Reading, Build
    <3> QED
      BY <2>2, <3>1 DEF StepsTookEffect
  <2>6. CASE Operator \/ WantEdit \/ Edit \/ Observe \/ Loss
    BY <2>1, <2>6, OperatorLeaves, WorldLeaves
  <2>7. CASE Crash
    BY <2>2, <2>7 DEF Crash
  <2> QED
    BY <2>1, <2>3, <2>4, <2>5, <2>6, <2>7, OthersKeep DEF Next, vars, Loss
<1> QED
  BY <1>1, <1>2 DEF StepsTookEffect

(* A build counts rightly after each of its own steps...                   *)
LEMMA OwnGeneration ==
  ASSUME TypeOK, GenerationsCount, NEW b \in Builders,
         Unlocked(b) \/ Locked(b) \/ \E o \in Outputs : ReadOutput(b, o)
  PROVE  GenerationCounts(b)'
<1>0. /\ build[b] \in Build /\ build \in [Builders -> Build] /\ GenerationCounts(b)
      /\ generation \in Nat
  BY DEF TypeOK, GenerationsCount
<1>1. library' = library /\ generation' = generation /\ writer' = writer
  BY BuildLeaves
<1> USE DEF GenerationCounts, Planned, Storing
<1>2. ASSUME build'[b].phase \notin Planned \cup {"cutoff"}, b \notin readers'
      PROVE  GenerationCounts(b)'
  BY <1>2
<1>3. ASSUME build'[b] = NewBuild, b \notin readers' PROVE GenerationCounts(b)'
  BY <1>2, <1>3 DEF NewBuild
<1>4. CASE \E o \in Outputs : ReadOutput(b, o)
  <2>1. build'[b].phase = "profile" /\ b \notin readers'
    BY <1>0, <1>4 DEF ReadOutput, NewBuild
  <2> QED
    BY <1>2, <2>1
<1>5. CASE ReadProfile(b)
  <2>1. build'[b].phase = "generation" /\ b \notin readers'
    BY <1>0, <1>5 DEF ReadProfile, Build
  <2> QED
    BY <1>2, <2>1
<1>6. CASE ReadGeneration(b)
  <2>1. build'[b].phase = "cutoff" /\ build'[b].generation = generation /\ b \notin readers'
    BY <1>0, <1>6 DEF ReadGeneration, Build
  <2> QED
    BY <1>0, <1>1, <2>1
<1>7. CASE TakeCutoff(b)
  <2>1. /\ build'[b].phase = "planning" /\ build'[b].generation = build[b].generation
        /\ build'[b].first = library /\ b \notin readers' /\ build[b].phase = "cutoff"
    BY <1>0, <1>7 DEF TakeCutoff, lock, Build
  <2> QED
    BY <1>0, <1>1, <2>1
<1>8. CASE Plan(b)
  <2>1. /\ build'[b].phase = "check" /\ build'[b].generation = build[b].generation
        /\ build'[b].first = build[b].first /\ build'[b].second = library
        /\ b \notin readers' /\ build[b].phase = "planning"
    BY <1>0, <1>8 DEF Plan, Build
  <2> QED
    BY <1>0, <1>1, <2>1
<1>9. CASE UseFile(b) \/ MissFile(b) \/ LinkFile(b) \/ ConfirmFile(b)
  <2>1. /\ build'[b].phase \in {"link", "sync", "publish"}
        /\ build'[b].generation = build[b].generation
        /\ build'[b].first = build[b].first /\ build'[b].second = build[b].second
        /\ b \notin readers' /\ build[b].phase \in Storing
    BY <1>0, <1>9 DEF UseFile, MissFile, LinkFile, ConfirmFile, Step, Build
  <2> QED
    BY <1>0, <1>1, <2>1
<1>10. CASE BeginPublish(b)
  <2>1. /\ build'[b].phase = "commit" /\ build'[b].generation = build[b].generation
        /\ build'[b].first = build[b].first /\ build'[b].second = build[b].second
        /\ b \in readers' /\ build[b].phase = "publish"
        /\ writer = "free" /\ build[b].generation = generation
    BY <1>0, <1>10 DEF BeginPublish, Step, Build
  <2> QED
    BY <1>0, <1>1, <2>1
<1>11. CASE CleanUp(b) \/ RefuseStale(b) \/ Publish(b) \/ PublishFails(b) \/ BuildFails(b)
  <2>1. build'[b] = NewBuild /\ b \notin readers'
    BY <1>0, <1>11 DEF CleanUp, RefuseStale, Publish, PublishFails, BuildFails, Failed, End, Reading
  <2> QED
    BY <1>3, <2>1
<1> QED
  BY <1>4, <1>5, <1>6, <1>7, <1>8, <1>9, <1>10, <1>11 DEF Unlocked, Locked

(* ... and after the steps of every other actor.                           *)
LEMMA GenerationsStep == TypeOK /\ GenerationsCount /\ [Next]_vars => GenerationsCount'
<1> SUFFICES ASSUME TypeOK, GenerationsCount, [Next]_vars, NEW c \in Builders
             PROVE  GenerationCounts(c)'
  BY DEF GenerationsCount
<1>0. GenerationCounts(c) /\ build[c].generation \in Nat /\ generation \in Nat
  BY DEF GenerationsCount, TypeOK, Build
<1> USE DEF GenerationCounts, Planned, Storing
<1>1. ASSUME UNCHANGED <<library, generation, writer, readers, build>> PROVE GenerationCounts(c)'
  BY <1>0, <1>1
<1>2. CASE Operator
  BY <1>1, <1>2, OperatorLeaves
<1>3. CASE Observe \/ Loss
  BY <1>1, <1>3 DEF Observe, Loss, LoseFile, DamageFile, Damage, lib, lock
<1>4. CASE WantEdit \/ BeginEdit \/ EditFails
  <2>1. /\ UNCHANGED <<library, generation, readers, build>>
        /\ writer' # "changed" /\ writer # "changed"
        /\ readers # {} => writer' = "waiting" \/ writer = "writing"
    BY <1>4 DEF WantEdit, BeginEdit, EditFails, EditUnlocked, lib
  <2> QED
    BY <1>0, <2>1
<1>5. CASE ChangeLibrary
  <2>1. writer' = "changed" /\ writer = "writing" /\ UNCHANGED <<generation, readers, build>>
    BY <1>5 DEF ChangeLibrary, EditUnlocked
  <2> QED
    BY <1>0, <2>1
<1>6. CASE EndEdit
  <2>1. writer = "changed" /\ generation' = generation + 1 /\ UNCHANGED <<readers, build>>
    BY <1>6 DEF EndEdit, EditUnlocked
  <2> QED
    BY <1>0, <2>1
<1>7. CASE Crash
  BY <1>7 DEF Crash, NewBuild
<1>8. ASSUME NEW b \in Builders, Unlocked(b) \/ Locked(b) \/ \E o \in Outputs : ReadOutput(b, o)
      PROVE  GenerationCounts(c)'
  <2>1. CASE b = c
    BY <1>8, <2>1, OwnGeneration
  <2>2. CASE b # c
    <3>1. build'[c] = build[c] /\ UNCHANGED <<library, generation, writer>>
      BY <1>8, <2>2, OthersKeep, BuildLeaves
    <3>2. c \in readers' <=> c \in readers
      BY <1>8, <2>2 DEF Unlocked, Locked, ReadOutput, ReadProfile, ReadGeneration, TakeCutoff, Plan,
         UseFile, MissFile, LinkFile, ConfirmFile, CleanUp, BeginPublish, RefuseStale, Publish,
         PublishFails, BuildFails, lock
    <3> QED
      BY <1>0, <3>1, <3>2
  <2> QED
    BY <2>1, <2>2
<1>9. CASE UNCHANGED vars
  BY <1>1, <1>9 DEF vars, lib, lock
<1> QED
  BY <1>2, <1>3, <1>4, <1>5, <1>6, <1>7, <1>8, <1>9 DEF Next, Edit, Loss

(* Only a publication moves a latest pointer, to what its build made.      *)
LEMMA LatestStep ==
  ASSUME TypeOK, StepsTookEffect, [Next]_vars, NEW o \in Outputs,
         output'[o].latest # output[o].latest
  PROVE  \E b \in Builders : /\ Publish(b) /\ build[b].output = o
                             /\ output'[o].latest = ArtifactOf(build[b])
<1>0. output \in [Outputs -> OutputRow]
  BY DEF TypeOK
<1>1. output' # output
  OBVIOUS
<1>2. ASSUME Operator PROVE FALSE
  <2>1. \A S \in SUBSET Outputs : Retired(S)[o].latest = output[o].latest
    BY <1>0 DEF Retired, OutputRow
  <2>2. CASE DeleteProfile
    BY <2>1, <2>2 DEF DeleteProfile
  <2>3. ASSUME NEW p \in Outputs, RemoveOutput(p) PROVE FALSE
    BY <2>1, <2>3 DEF RemoveOutput
  <2>4. ASSUME NEW p \in Outputs, AddOutput(p) \/ \E v \in Settings : SetSetting(p, v) PROVE FALSE
    BY <1>0, <2>4 DEF AddOutput, SetSetting, OutputRow
  <2> QED
    BY <1>1, <1>2, <2>2, <2>3, <2>4 DEF Operator, CreateProfile, UpdateProfile, SetArchived,
       IssueSubscription, ReissueSubscription
<1>3. ASSUME NEW b \in Builders, NEW recorded, End(b, recorded) PROVE FALSE
  BY <1>0, <1>3 DEF End, OutputRow
<1>4. ASSUME NEW b \in Builders, Unlocked(b) \/ Locked(b) \/ \E p \in Outputs : ReadOutput(b, p)
      PROVE  Publish(b)
  BY <1>1, <1>3, <1>4 DEF Unlocked, Locked, ReadOutput, ReadProfile, ReadGeneration, TakeCutoff, Plan,
     UseFile, MissFile, LinkFile, ConfirmFile, CleanUp, BeginPublish, RefuseStale, PublishFails,
     BuildFails, Failed
<1>5. ~ (WantEdit \/ Edit \/ Observe \/ Loss \/ Crash \/ UNCHANGED vars)
  BY <1>1, WorldLeaves DEF Crash, vars
<1>6. PICK b \in Builders : Publish(b)
  BY <1>2, <1>4, <1>5 DEF Next, Loss
<1>7. build[b].output \in Outputs
  BY <1>6 DEF StepsTookEffect, Publish
<1>8. /\ build[b].output = o
      /\ output'[o].latest = Advanced(output[o], ArtifactOf(build[b])).latest
  BY <1>0, <1>6, <1>7 DEF Publish, OutputRow, Advanced
<1> QED
  BY <1>0, <1>6, <1>8 DEF Advanced, OutputRow

(* Time goes on: moments are added after those before them.                *)
LEMMA KnownStep ==
  ASSUME TypeOK, [Next]_vars
  PROVE  /\ observed' \in Nat /\ observed <= observed'
         /\ known' = known \/ (known' = Append(known, observed) /\ observed' = observed)
<1>0. observed \in Nat
  BY DEF TypeOK
<1>1. CASE Observe
  BY <1>0, <1>1 DEF Observe
<1>2. CASE Operator \/ UNCHANGED vars
  BY <1>0, <1>2, OperatorLeaves DEF vars, obs
<1>3. CASE WantEdit \/ Edit \/ Loss \/ Crash
  BY <1>0, <1>3 DEF WantEdit, Edit, BeginEdit, EditFails, ChangeLibrary, EndEdit, EditUnlocked, obs,
     Loss, LoseFile, DamageFile, Damage, Crash
<1>4. ASSUME NEW b \in Builders, Unlocked(b) \/ Locked(b) \/ \E o \in Outputs : ReadOutput(b, o)
      PROVE  /\ observed' = observed
             /\ known' = known \/ known' = Append(known, observed)
  BY <1>4, BuildLeaves DEF TakeCutoff
<1> QED
  BY <1>0, <1>1, <1>2, <1>3, <1>4 DEF Next, Loss

LEMMA CutoffsStep == TypeOK /\ StepsTookEffect /\ CutoffsAreReal /\ [Next]_vars => CutoffsAreReal'
<1> SUFFICES ASSUME TypeOK, StepsTookEffect, CutoffsAreReal, [Next]_vars
             PROVE  CutoffsAreReal'
  OBVIOUS
<1>0. known \in Seq(Nat) /\ observed \in Nat /\ DOMAIN known = 1 .. Len(known) /\ Len(known) \in Nat
  BY DEF TypeOK
<1>1. /\ observed' \in Nat /\ observed <= observed'
      /\ known' = known \/ (known' = Append(known, observed) /\ observed' = observed)
  BY KnownStep
<1>2. \A i \in DOMAIN known : i \in DOMAIN known' /\ known'[i] = known[i] /\ known[i] \in Nat
  BY <1>0, <1>1
<1>3. \A i \in DOMAIN known' : i \in DOMAIN known \/ (known'[i] = observed /\ i > Len(known))
  BY <1>0, <1>1
<1>4. \A i \in DOMAIN known' : known'[i] <= observed'
  BY <1>0, <1>1, <1>2, <1>3 DEF CutoffsAreReal
<1>5. \A i, j \in DOMAIN known' : i <= j => known'[i] <= known'[j]
  <2>1. ASSUME NEW i \in DOMAIN known', NEW j \in DOMAIN known', i <= j PROVE known'[i] <= known'[j]
    <3>1. CASE j \in DOMAIN known
      <4>1. i \in DOMAIN known
        BY <1>0, <1>1, <2>1, <3>1
      <4> QED
        BY <1>2, <2>1, <3>1, <4>1 DEF CutoffsAreReal
    <3>2. CASE j \notin DOMAIN known
      <4>1. known'[j] = observed
        BY <1>3, <3>2
      <4>2. known'[i] <= observed
        BY <1>0, <1>2, <1>3 DEF CutoffsAreReal
      <4> QED
        BY <4>1, <4>2
    <3> QED
      BY <3>1, <3>2
  <2> QED
    BY <2>1
<1>6. ASSUME NEW b \in Builders
      PROVE  /\ (build[b].phase \in Planned => build[b].cutoff \in DOMAIN known)'
             /\ (build[b].phase \in Planned \ {"planning"} => known[build[b].cutoff] <= build[b].seen)'
  <2> USE DEF Planned, Storing
  <2>0. build[b] \in Build /\ build \in [Builders -> Build]
    BY DEF TypeOK
  <2>1. CASE build'[b].phase \notin Planned
    BY <2>1
  <2>2. ASSUME build[b].phase \in Planned, build'[b].cutoff = build[b].cutoff,
               build'[b].phase \in Planned \ {"planning"} =>
                 \/ build[b].phase # "planning" /\ build'[b].seen = build[b].seen
                 \/ build'[b].seen = observed
        PROVE  /\ (build[b].phase \in Planned => build[b].cutoff \in DOMAIN known)'
               /\ (build[b].phase \in Planned \ {"planning"} =>
                     known[build[b].cutoff] <= build[b].seen)'
    BY <1>2, <2>2 DEF CutoffsAreReal
  <2>3. CASE build'[b] = build[b]
    BY <2>1, <2>2, <2>3
  <2>4. CASE TakeCutoff(b)
    <3>1. build'[b].phase = "planning" /\ build'[b].cutoff = Len(known')
      BY <2>0, <2>4 DEF TakeCutoff, Build
    <3>2. known' = Append(known, observed) \/ (known' = known /\ known # <<>>)
      BY <2>4 DEF TakeCutoff
    <3>3. Len(known') \in DOMAIN known'
      BY <1>0, <3>2
    <3> QED
      BY <3>1, <3>3
  <2>5. CASE Plan(b)
    <3>1. /\ build'[b].phase = "check" /\ build'[b].cutoff = build[b].cutoff
          /\ build'[b].seen = observed /\ build[b].phase = "planning"
      BY <2>0, <2>5 DEF Plan, Build
    <3> QED
      BY <2>2, <3>1
  <2>6. CASE UseFile(b) \/ MissFile(b) \/ LinkFile(b) \/ ConfirmFile(b) \/ BeginPublish(b)
    <3>1. /\ build'[b].cutoff = build[b].cutoff /\ build'[b].seen = build[b].seen
          /\ build[b].phase \in Planned \ {"planning"}
      BY <2>0, <2>6 DEF UseFile, MissFile, LinkFile, ConfirmFile, BeginPublish, Step, Build
    <3> QED
      BY <2>2, <3>1
  <2>7. CASE (\E o \in Outputs : ReadOutput(b, o)) \/ ReadProfile(b) \/ ReadGeneration(b)
    <3>1. CASE \E o \in Outputs : ReadOutput(b, o)
      <4>1. build'[b].phase = "profile"
        BY <2>0, <3>1 DEF ReadOutput
      <4> QED
        BY <2>1, <4>1
    <3>2. CASE ReadProfile(b)
      <4>1. build'[b].phase = "generation"
        BY <2>0, <3>2 DEF ReadProfile
      <4> QED
        BY <2>1, <4>1
    <3>3. CASE ReadGeneration(b)
      <4>1. build'[b].phase = "cutoff"
        BY <2>0, <3>3 DEF ReadGeneration
      <4> QED
        BY <2>1, <4>1
    <3> QED
      BY <2>7, <3>1, <3>2, <3>3
  <2>8. CASE CleanUp(b) \/ RefuseStale(b) \/ Publish(b) \/ PublishFails(b) \/ BuildFails(b) \/ Crash
    <3>1. build'[b] = NewBuild
      BY <2>0, <2>8 DEF CleanUp, RefuseStale, Publish, PublishFails, BuildFails, Failed, End, Crash
    <3> QED
      BY <2>1, <3>1 DEF NewBuild
  <2>9. \/ build'[b] = build[b]
        \/ Crash \/ Unlocked(b) \/ Locked(b) \/ \E o \in Outputs : ReadOutput(b, o)
    BY OperatorLeaves, WorldLeaves, OthersKeep DEF Next, Loss, vars
  <2> QED
    BY <2>3, <2>4, <2>5, <2>6, <2>7, <2>8, <2>9 DEF Unlocked, Locked
<1>7. ASSUME NEW o \in Outputs
      PROVE  (output[o].latest # NoArtifact => output[o].latest.cutoff \in DOMAIN known)'
  <2>1. CASE output'[o].latest = output[o].latest
    BY <1>2, <2>1 DEF CutoffsAreReal
  <2>2. CASE output'[o].latest # output[o].latest
    <3>1. PICK b \in Builders : Publish(b) /\ output'[o].latest = ArtifactOf(build[b])
      BY <2>2, LatestStep
    <3>2. build[b].cutoff \in DOMAIN known
      BY <3>1 DEF Publish, CutoffsAreReal, Planned
    <3> QED
      BY <1>2, <3>1, <3>2 DEF ArtifactOf
  <2> QED
    BY <2>1, <2>2
<1> QED
  BY <1>4, <1>5, <1>6, <1>7 DEF CutoffsAreReal

----------------------------------------------------------------------------
(* The invariant the other theorems rest on, from the steps above.         *)
THEOREM Invariance == Spec => []IInv
<1>1. Init => IInv
  <2> SUFFICES ASSUME Init
               PROVE  IInv
    OBVIOUS
  <2>1. TypeOK
    BY NewRowsType DEF Init, TypeOK, Profile, Shelves, TokenRow
  <2>2. StepsTookEffect
    BY DEF Init, StepsTookEffect, NewBuild
  <2>3. GenerationsCount
    BY DEF Init, GenerationsCount, GenerationCounts, NewBuild, Planned, Storing
  <2>4. CutoffsAreReal
    BY DEF Init, CutoffsAreReal, NewBuild, NewOutput, Planned, Storing
  <2> QED
    BY <2>1, <2>2, <2>3, <2>4 DEF IInv
<1>2. IInv /\ [Next]_vars => IInv'
  BY TypeStep, StepsStep, GenerationsStep, CutoffsStep DEF IInv
<1> QED
  BY <1>1, <1>2, PTL DEF Spec

(* Rows, builds, files and locks keep their types.                         *)
THEOREM TypeCorrect == Spec => []TypeOK
<1>1. IInv => TypeOK
  BY DEF IInv
<1> QED
  BY <1>1, Invariance, PTL

(* What a build publishes is what a build that took no time would have     *)
(* published at that moment: publishCurrent and Store.Publish between them *)
(* let nothing stale or torn through, whatever was edited meanwhile.       *)
LEMMA PublishesWhatIsWanted ==
  ASSUME IInv, NEW b \in Builders, Publish(b), NEW o \in Outputs, o = build[b].output
  PROVE  WantedNow(o) \in Input /\ Inputs(ArtifactOf(build[b]).payload) = WantedNow(o)
<1>1. /\ build[b].phase = "commit" /\ Publishable(b)
      /\ library \in Nat /\ output[o] \in OutputRow
      /\ profile.shelf \in {"kept", "archived"} => profile.composition \in Compositions
  BY DEF Publish, IInv, TypeOK, StepsTookEffect
<1>2. build[b].first = library /\ build[b].second = library
  BY <1>1 DEF IInv, GenerationsCount, GenerationCounts, Planned
<1>3. WantedNow(o) = [composition |-> profile.composition, first |-> library, second |-> library,
                      setting |-> output[o].setting]
  BY <1>1 DEF Publishable, WantedNow
<1> QED
  BY <1>1, <1>2, <1>3 DEF Publishable, Writable, Input, Inputs, ArtifactOf, PayloadOf, OutputRow

THEOREM Refinement == Spec => ImplementsInstantBuilds
<1> DEFINE wanted == [o \in Outputs |-> WantedNow(o)]
           current == [o \in Outputs |-> CurrentOf(o)]
<1>1. Init => Instant!Init
  BY DEF Init, Instant!Init, CurrentOf, NewOutput
<1>2. IInv /\ [Next]_vars => [Instant!Next]_<<wanted, current>>
  <2> SUFFICES ASSUME IInv, [Next]_vars
               PROVE  Instant!Next
    BY DEF Instant!Next
  <2>1. CASE \A o \in Outputs : output'[o].latest = output[o].latest
    <3>1. \A o \in Outputs : CurrentOf(o)' = CurrentOf(o)
      BY <2>1 DEF CurrentOf
    <3> QED
      BY <3>1 DEF Instant!Next, Instant!Change
  <2>2. ASSUME NEW o \in Outputs, output'[o].latest # output[o].latest PROVE Instant!Next
    <3>1. PICK b \in Builders : /\ Publish(b) /\ build[b].output = o
                               /\ output'[o].latest = ArtifactOf(build[b])
      BY <2>2, LatestStep DEF IInv
    <3>2. output \in [Outputs -> OutputRow] /\ ArtifactOf(build[b]) \in Artifact
      BY <3>1, FileOfType DEF IInv, TypeOK, Publish
    <3>3. /\ \A q \in Outputs : q # o => output'[q] = output[q]
          /\ output'[o].state = output[o].state /\ output'[o].setting = output[o].setting
          /\ profile' = profile /\ library' = library
      BY <3>1, <3>2 DEF Publish, BuildOnly, lib, Advanced, OutputRow
    <3>4. WantedNow(o) \in Input /\ Inputs(ArtifactOf(build[b]).payload) = WantedNow(o)
      BY <3>1, PublishesWhatIsWanted
    <3>5. CurrentOf(o)' = WantedNow(o)
      BY <3>1, <3>2, <3>4, NoArtifactAssumption DEF CurrentOf, Inputs
    <3>6. \A q \in Outputs : /\ WantedNow(q)' = WantedNow(q)
                             /\ q # o => CurrentOf(q)' = CurrentOf(q)
      BY <3>3 DEF WantedNow, CurrentOf, Writable, Live
    <3>7. wanted[o] # Frozen
      BY <3>4, FrozenAssumption
    <3>8. current' = [current EXCEPT ![o] = wanted[o]] /\ wanted' = wanted
      BY <3>5, <3>6
    <3> QED
      BY <3>7, <3>8 DEF Instant!Next, Instant!Build
  <2> QED
    BY <2>1, <2>2
<1> QED
  BY <1>1, <1>2, Invariance, PTL DEF Spec, ImplementsInstantBuilds, Instant!Spec

(* An output never goes back to fewer observations, however many builds of *)
(* it overlap and in whatever order they finish.                           *)
THEOREM Forward == Spec => NeverOlder
<1>1. IInv /\ [Next]_vars =>
        [\A o \in Outputs :
           LET old == output[o].latest
               new == output'[o].latest
           IN  old # NoArtifact /\ new # old => new.payload.seen >= known[old.cutoff]]_vars
  <2> SUFFICES ASSUME IInv, [Next]_vars, NEW o \in Outputs,
                      output[o].latest # NoArtifact, output'[o].latest # output[o].latest
               PROVE  output'[o].latest.payload.seen >= known[output[o].latest.cutoff]
    OBVIOUS
  <2>1. PICK b \in Builders : /\ Publish(b) /\ build[b].output = o
                             /\ output'[o].latest = ArtifactOf(build[b])
    BY LatestStep DEF IInv
  <2>2. /\ known[build[b].cutoff] <= build[b].seen
        /\ build[b].cutoff \in DOMAIN known /\ output[o].latest.cutoff \in DOMAIN known
        /\ \A i, j \in DOMAIN known : i <= j => known[i] <= known[j]
    BY <2>1 DEF IInv, CutoffsAreReal, Publish, Planned
  <2>3. output[o].latest.cutoff <= build[b].cutoff
    BY <2>1 DEF Publish, Publishable
  <2>4. known[output[o].latest.cutoff] <= known[build[b].cutoff]
    BY <2>2, <2>3
  <2>5. /\ known[output[o].latest.cutoff] \in Nat /\ known[build[b].cutoff] \in Nat
        /\ build[b].seen \in Nat
    BY <2>2 DEF IInv, TypeOK, Build
  <2>6. output'[o].latest.payload.seen = build[b].seen
    BY <2>1 DEF ArtifactOf, PayloadOf
  <2> QED
    BY <2>2, <2>4, <2>5, <2>6
<1> QED
  BY <1>1, Invariance, PTL DEF Spec, NeverOlder

(* A published output stays published, and only retirement ends a life.    *)
LEMMA StaysPublished ==
  ASSUME IInv, [Next]_vars, NEW o \in Outputs, output[o].latest # NoArtifact
  PROVE  output'[o].latest # NoArtifact
<1>1. CASE output'[o].latest # output[o].latest
  <2>1. PICK b \in Builders : Publish(b) /\ output'[o].latest = ArtifactOf(build[b])
    BY <1>1, LatestStep DEF IInv
  <2>2. ArtifactOf(build[b]) \in Artifact
    BY <2>1, FileOfType DEF IInv, Publish
  <2> QED
    BY <2>1, <2>2, NoArtifactAssumption
<1> QED
  BY <1>1

LEMMA BuildsKeepStates ==
  ASSUME TypeOK, NEW b \in Builders, Unlocked(b) \/ Locked(b) \/ \E p \in Outputs : ReadOutput(b, p),
         NEW o \in Outputs
  PROVE  output'[o].state = output[o].state
<1>0. output \in [Outputs -> OutputRow]
  BY DEF TypeOK
<1>1. ASSUME NEW recorded, End(b, recorded) PROVE output'[o].state = output[o].state
  BY <1>0, <1>1 DEF End, OutputRow
<1>2. CASE Publish(b)
  BY <1>0, <1>2 DEF Publish, Advanced, OutputRow
<1>3. CASE ~ Publish(b)
  BY <1>1, <1>3 DEF Unlocked, Locked, ReadOutput, ReadProfile, ReadGeneration, TakeCutoff, Plan,
     UseFile, MissFile, LinkFile, ConfirmFile, CleanUp, BeginPublish, RefuseStale, PublishFails,
     BuildFails, Failed
<1> QED
  BY <1>2, <1>3

(* Whatever is retired, issued and reissued in whatever order, a link that *)
(* works belongs to a live, published output and is its only one.          *)
THEOREM Links == Spec => []LinksWork
<1>1. Init => LinksWork
  BY NoOutputAssumption DEF Init, LinksWork, ActiveTokens
<1>2. IInv /\ LinksWork /\ [Next]_vars => LinksWork'
  <2> SUFFICES ASSUME IInv, LinksWork, [Next]_vars, NEW o \in Outputs, NEW t \in ActiveTokens(o)'
               PROVE  Live(o)' /\ output'[o].latest # NoArtifact /\ ActiveTokens(o)' = {t}
    BY DEF LinksWork
  <2>0. /\ output \in [Outputs -> OutputRow] /\ token \in [Tokens -> TokenRow]
        /\ t \in Tokens
    BY DEF IInv, TypeOK, ActiveTokens
  <2>1. ASSUME t \in ActiveTokens(o), ActiveTokens(o)' \subseteq ActiveTokens(o), Live(o)'
        PROVE  Live(o)' /\ output'[o].latest # NoArtifact /\ ActiveTokens(o)' = {t}
    BY <2>1, StaysPublished DEF LinksWork
  <2>2. CASE token' = token /\ (Live(o) => Live(o)')
    BY <2>1, <2>2 DEF ActiveTokens, LinksWork
  <2>3. ASSUME NEW S \in SUBSET Outputs, token' = Revoked(S), output' = Retired(S),
               o \notin S
        PROVE  t \in ActiveTokens(o) /\ ActiveTokens(o)' \subseteq ActiveTokens(o) /\ Live(o)'
    <3>1. t \in ActiveTokens(o) /\ ActiveTokens(o)' \subseteq ActiveTokens(o)
      BY <2>0, <2>3 DEF ActiveTokens, Revoked, TokenRow
    <3> QED
      BY <2>0, <2>3, <3>1 DEF LinksWork, Live, Retired
  <2>4. ASSUME NEW S \in SUBSET Outputs, token' = Revoked(S) PROVE o \notin S
    BY <2>0, <2>4 DEF ActiveTokens, Revoked, TokenRow
  <2>5. CASE DeleteProfile
    BY <2>1, <2>3, <2>4, <2>5 DEF DeleteProfile
  <2>6. ASSUME NEW p \in Outputs, RemoveOutput(p)
        PROVE  Live(o)' /\ output'[o].latest # NoArtifact /\ ActiveTokens(o)' = {t}
    BY <2>1, <2>3, <2>4, <2>6 DEF RemoveOutput
  <2>7. ASSUME NEW p \in Outputs, NEW u \in Tokens, IssueSubscription(p, u)
        PROVE  Live(o)' /\ output'[o].latest # NoArtifact /\ ActiveTokens(o)' = {t}
    <3>1. CASE o = p
      <4>1. ActiveTokens(o)' = {u}
        BY <2>0, <2>7, <3>1 DEF IssueSubscription, Subscribable, ActiveTokens, TokenRow
      <4> QED
        BY <2>7, <3>1, <4>1 DEF IssueSubscription, Subscribable, Live
    <3>2. CASE o # p
      <4>1. ActiveTokens(o)' \subseteq ActiveTokens(o)
        BY <2>0, <2>7, <3>2 DEF IssueSubscription, ActiveTokens, TokenRow
      <4> QED
        BY <2>1, <2>7, <4>1 DEF IssueSubscription, LinksWork, Live
    <3> QED
      BY <3>1, <3>2
  <2>8. ASSUME NEW p \in Outputs, NEW u \in Tokens, ReissueSubscription(p, u)
        PROVE  Live(o)' /\ output'[o].latest # NoArtifact /\ ActiveTokens(o)' = {t}
    <3>0. token[u].output = NoOutput /\ output' = output /\ token' = [Revoked({p}) EXCEPT ![u].output = p]
      BY <2>8 DEF ReissueSubscription
    <3>1. CASE o = p
      <4>1. ActiveTokens(o)' \subseteq {u}
        BY <2>0, <3>0, <3>1 DEF ActiveTokens, Revoked, TokenRow
      <4>2. Live(o)' /\ output'[o].latest # NoArtifact
        BY <2>8, <3>0, <3>1 DEF ReissueSubscription, LinksWork, Live
      <4> QED
        BY <4>1, <4>2
    <3>2. CASE o # p
      <4>1. ActiveTokens(o)' \subseteq ActiveTokens(o)
        BY <2>0, <3>0, <3>2 DEF ActiveTokens, Revoked, TokenRow
      <4> QED
        BY <2>1, <3>0, <4>1 DEF LinksWork, Live
    <3> QED
      BY <3>1, <3>2
  <2>9. ASSUME NEW p \in Outputs, AddOutput(p) \/ \E v \in Settings : SetSetting(p, v)
        PROVE  token' = token /\ (Live(o) => Live(o)')
    BY <2>0, <2>9 DEF AddOutput, SetSetting, Live, OutputRow
  <2>10. ASSUME \/ \E c \in Compositions : CreateProfile(c) \/ UpdateProfile(c)
                \/ \E shelf \in {"kept", "archived"} : SetArchived(shelf)
                \/ WantEdit \/ Edit \/ Observe \/ Loss \/ Crash \/ UNCHANGED vars
         PROVE  token' = token /\ output' = output
    BY <2>10, WorldLeaves DEF CreateProfile, UpdateProfile, SetArchived, Crash, vars
  <2>11. ASSUME NEW b \in Builders,
                Unlocked(b) \/ Locked(b) \/ \E p \in Outputs : ReadOutput(b, p)
         PROVE  token' = token /\ (Live(o) => Live(o)')
    BY <2>11, BuildLeaves, BuildsKeepStates DEF IInv, Live
  <2>12. \/ DeleteProfile
         \/ \E p \in Outputs :
              \/ AddOutput(p) \/ RemoveOutput(p) \/ \E v \in Settings : SetSetting(p, v)
              \/ \E u \in Tokens : IssueSubscription(p, u) \/ ReissueSubscription(p, u)
         \/ \E c \in Compositions : CreateProfile(c) \/ UpdateProfile(c)
         \/ \E shelf \in {"kept", "archived"} : SetArchived(shelf)
         \/ WantEdit \/ Edit \/ Observe \/ Loss \/ Crash \/ UNCHANGED vars
         \/ \E b \in Builders : Unlocked(b) \/ Locked(b) \/ \E p \in Outputs : ReadOutput(b, p)
    BY DEF Next, Operator, Loss
  <2>13. (token' = token /\ output' = output) => (Live(o) => Live(o)')
    BY DEF Live
  <2> QED
    BY <2>2, <2>5, <2>6, <2>7, <2>8, <2>9, <2>10, <2>11, <2>12, <2>13
<1> QED
  BY <1>1, <1>2, Invariance, PTL DEF Spec

(* A success is recorded exactly for the outputs that have an artifact,    *)
(* for every interleaving of builds and failures.                          *)
THEOREM Attempts == Spec => []AttemptsTellTheTruth
<1>1. Init => AttemptsTellTheTruth
  BY DEF Init, AttemptsTellTheTruth, NewOutput
<1>2. IInv /\ AttemptsTellTheTruth /\ [Next]_vars => AttemptsTellTheTruth'
  <2> SUFFICES ASSUME IInv, AttemptsTellTheTruth, [Next]_vars, NEW o \in Outputs
               PROVE  "success" \in output'[o].attempts <=> output'[o].latest # NoArtifact
    BY DEF AttemptsTellTheTruth
  <2>0. output \in [Outputs -> OutputRow]
    BY DEF IInv, TypeOK
  <2>1. ASSUME NEW b \in Builders, Publish(b), build[b].output = o
        PROVE  "success" \in output'[o].attempts /\ output'[o].latest # NoArtifact
    <3>1. ArtifactOf(build[b]) \in Artifact
      BY <2>1, FileOfType DEF IInv, Publish
    <3>2. /\ output'[o].attempts = Advanced(output[o], ArtifactOf(build[b])).attempts \cup {"success"}
          /\ output'[o].latest = ArtifactOf(build[b])
      BY <2>0, <2>1 DEF Publish, Advanced, OutputRow
    <3> QED
      BY <3>1, <3>2, NoArtifactAssumption
  <2>2. ASSUME ~ \E b \in Builders : Publish(b) /\ build[b].output = o
        PROVE  output'[o].attempts \in {output[o].attempts, output[o].attempts \cup {"failed"}}
    <3>1. ASSUME NEW b \in Builders, NEW recorded \in {{}, {"failed"}}, End(b, recorded)
          PROVE  output'[o].attempts \in {output[o].attempts, output[o].attempts \cup {"failed"}}
      BY <2>0, <3>1 DEF End, OutputRow
    <3>2. ASSUME NEW b \in Builders, Failed(b)
          PROVE  output'[o].attempts \in {output[o].attempts, output[o].attempts \cup {"failed"}}
      BY <3>1, <3>2 DEF Failed
    <3>3. ASSUME NEW b \in Builders, Publish(b) PROVE output'[o] = output[o]
      BY <2>0, <2>2, <3>3 DEF Publish
    <3>4. ASSUME NEW b \in Builders, Unlocked(b) \/ Locked(b) \/ \E p \in Outputs : ReadOutput(b, p)
          PROVE  output'[o].attempts \in {output[o].attempts, output[o].attempts \cup {"failed"}}
      <4>1. Publish(b) \/ Failed(b) \/ output' = output
        BY <3>4 DEF Unlocked, Locked, ReadOutput, ReadProfile, ReadGeneration, TakeCutoff, Plan,
           UseFile, MissFile, LinkFile, ConfirmFile, CleanUp, BeginPublish, RefuseStale,
           PublishFails, BuildFails
      <4> QED
        BY <3>2, <3>3, <3>4, <4>1
    <3>5. ASSUME Operator PROVE output'[o].attempts = output[o].attempts
      <4>1. \A S \in SUBSET Outputs : Retired(S)[o].attempts = output[o].attempts
        BY <2>0 DEF Retired, OutputRow
      <4>2. CASE DeleteProfile
        BY <4>1, <4>2 DEF DeleteProfile
      <4>3. ASSUME NEW p \in Outputs, RemoveOutput(p) PROVE output'[o].attempts = output[o].attempts
        BY <4>1, <4>3 DEF RemoveOutput
      <4>4. ASSUME NEW p \in Outputs, AddOutput(p) \/ \E v \in Settings : SetSetting(p, v)
            PROVE  output'[o].attempts = output[o].attempts
        BY <2>0, <4>4 DEF AddOutput, SetSetting, OutputRow
      <4> QED
        BY <3>5, <4>2, <4>3, <4>4 DEF Operator, CreateProfile, UpdateProfile, SetArchived,
           IssueSubscription, ReissueSubscription
    <3>6. ASSUME WantEdit \/ Edit \/ Observe \/ Loss \/ Crash \/ UNCHANGED vars
          PROVE  output' = output
      BY <3>6, WorldLeaves DEF Crash, vars
    <3> QED
      BY <3>4, <3>5, <3>6 DEF Next, Loss
  <2>3. CASE \E b \in Builders : Publish(b) /\ build[b].output = o
    BY <2>1, <2>3
  <2>4. CASE ~ \E b \in Builders : Publish(b) /\ build[b].output = o
    <3>1. output'[o].latest = output[o].latest
      BY <2>4, LatestStep DEF IInv
    <3> QED
      BY <2>2, <2>4, <3>1 DEF AttemptsTellTheTruth
  <2> QED
    BY <2>3, <2>4
<1> QED
  BY <1>1, <1>2, Invariance, PTL DEF Spec

----------------------------------------------------------------------------
(* Earliest and latest times: the sets are bounded by the clock.           *)

LEMMA LeastTime ==
  ASSUME NEW S, S \subseteq Nat, S # {}
  PROVE  \E m \in S : \A n \in S : m <= n
<1>1. PICK m \in S : \A n \in S : ~ (<<n, m>> \in OpToRel(<, Nat))
  BY WFMin, NatLessThanWellFounded, Zenon
<1>2. ASSUME NEW n \in S PROVE m <= n
  <2>1. m \in Nat /\ n \in Nat
    OBVIOUS
  <2>2. ~ (n < m)
    BY <1>1, <2>1 DEF OpToRel
  <2> QED
    BY <2>1, <2>2
<1> QED
  BY <1>2

LEMMA MinIs ==
  ASSUME NEW S, S \subseteq Nat, S # {}
  PROVE  Min(S) \in S /\ \A n \in S : Min(S) <= n
BY LeastTime DEF Min

LEMMA GreatestTime ==
  ASSUME NEW S, S \subseteq Nat, S # {}, NEW bound \in Nat, \A n \in S : n <= bound
  PROVE  \E m \in S : \A n \in S : n <= m
<1> DEFINE above == { b \in Nat : \A n \in S : n <= b }
<1>1. PICK b \in above : \A c \in above : b <= c
  <2>1. above \subseteq Nat /\ bound \in above
    OBVIOUS
  <2> HIDE DEF above
  <2> QED
    BY <2>1, LeastTime
<1>2. b \in S
  <2> SUFFICES ASSUME b \notin S PROVE FALSE
    OBVIOUS
  <2>0. b \in Nat /\ \A n \in S : n <= b
    BY <1>1
  <2>1. ASSUME NEW n \in S PROVE n <= b - 1
    <3>1. n \in Nat /\ n <= b /\ n # b
      BY <2>0
    <3> QED
      BY <2>0, <3>1
  <2>2. b - 1 \in Nat
    <3>1. PICK n \in S : TRUE
      OBVIOUS
    <3> QED
      BY <2>0, <2>1, <3>1
  <2>3. b - 1 \in above
    BY <2>1, <2>2
  <2> QED
    BY <1>1, <2>3
<1> QED
  BY <1>1, <1>2

LEMMA MaxIs ==
  ASSUME NEW S, S \subseteq Nat, S # {}, NEW bound \in Nat, \A n \in S : n <= bound
  PROVE  Max(S) \in S /\ \A n \in S : n <= Max(S)
<1>1. \E m \in S : \A n \in S : m >= n
  BY GreatestTime
<1>2. Max(S) \in S /\ \A n \in S : Max(S) >= n
  BY <1>1 DEF Max
<1> QED
  BY <1>2

LEMMA LatestIs ==
  ASSUME NEW S, S \subseteq Nat, NEW bound \in Nat, \A n \in S : n <= bound
  PROVE  /\ Latest(S) \in Nat
         /\ Latest(S) = Never \/ Latest(S) \in S
         /\ \A n \in S : n <= Latest(S)
<1>1. S \cup {Never} \subseteq Nat /\ \A n \in S \cup {Never} : n <= bound
  BY DEF Never
<1> QED
  BY <1>1, MaxIs DEF Latest

(* The earlier and the later of one time and at most one other.            *)
LEMMA EarlierOf ==
  ASSUME NEW a \in Nat, NEW b \in Nat, NEW S, S \subseteq {b}
  PROVE  Min({a} \cup S) = IF S # {} /\ b < a THEN b ELSE a
<1>1. {a} \cup S \subseteq Nat /\ {a} \cup S # {}
  OBVIOUS
<1>2. Min({a} \cup S) \in {a} \cup S /\ \A n \in {a} \cup S : Min({a} \cup S) <= n
  BY <1>1, MinIs
<1>3. Min({a} \cup S) = a \/ (S = {b} /\ Min({a} \cup S) = b)
  BY <1>2
<1>4. Min({a} \cup S) <= a /\ (S = {b} => Min({a} \cup S) <= b)
  BY <1>2
<1>5. CASE S = {}
  BY <1>3, <1>5
<1>6. CASE S = {b}
  <2>1. PICK m \in Nat : m = Min({a} \cup S)
    BY <1>3
  <2> QED
    BY <1>3, <1>4, <1>6, <2>1
<1> QED
  BY <1>5, <1>6

LEMMA LaterOf ==
  ASSUME NEW a \in Nat, NEW b \in Nat, NEW S, S \subseteq {b}
  PROVE  Max({a} \cup S) = IF S # {} /\ a < b THEN b ELSE a
<1>1. {a} \cup S \subseteq Nat /\ {a} \cup S # {} /\ a + b \in Nat
  OBVIOUS
<1>2. \A n \in {a} \cup S : n <= a + b
  OBVIOUS
<1>3. Max({a} \cup S) \in {a} \cup S /\ \A n \in {a} \cup S : n <= Max({a} \cup S)
  BY <1>1, <1>2, MaxIs
<1>4. Max({a} \cup S) = a \/ (S = {b} /\ Max({a} \cup S) = b)
  BY <1>3
<1>5. a <= Max({a} \cup S) /\ (S = {b} => b <= Max({a} \cup S))
  BY <1>3
<1>6. CASE S = {}
  BY <1>4, <1>6
<1>7. CASE S = {b}
  <2>1. PICK m \in Nat : m = Max({a} \cup S)
    BY <1>4
  <2> QED
    BY <1>4, <1>5, <1>7, <2>1
<1> QED
  BY <1>6, <1>7

----------------------------------------------------------------------------
(* The inductive invariant.                                                *)

Identities == { [source |-> s, revision |-> Revisions[c][s]] : s \in SourceSet, c \in DOMAIN Revisions }

Refresh == [phase : {"idle", "reading"}, at : Nat, asked : SUBSET Identities]

ObservationsTypeOK ==
  /\ now \in Nat \ {0} /\ catalog \in DOMAIN Revisions /\ enabled \subseteq SourceSet
  /\ refresh \in [Workers -> Refresh]

(* No refresh and no cycle carries a time that is still to come.           *)
TimesHavePassed ==
  /\ \A w \in Workers : refresh[w].phase = "reading" => refresh[w].at \in 1 .. now
  /\ \A a \in answered : a.at \in 1 .. now /\ Of(a) \in Identities
  /\ \A c \in runs : c.at \in 1 .. now /\ c.ok \in BOOLEAN

(* The successful cycles of a source are the times of its answers.         *)
CyclesAreAnswers ==
  /\ \A c \in runs : c.ok => \E a \in answered : Of(a) = Of(c) /\ a.at = c.at
  /\ \A a \in answered : \E c \in runs : Of(c) = Of(a) /\ c.at = a.at /\ c.ok

(* A source named a value in an answer of a given time.                    *)
Named(id, v, t) == \E a \in answered : Of(a) = id /\ a.at = t /\ v \in a.values

(* What is stored of a value: the first and the last time it was named, in *)
(* whatever order the answers came to be stored.                           *)
Summarises(r) ==
  /\ Of(r) \in Identities
  /\ Named(Of(r), r.value, r.first) /\ Named(Of(r), r.value, r.last)
  /\ \A t : Named(Of(r), r.value, t) => r.first <= t /\ t <= r.last
  /\ r.until = r.last + Validity[r.source]

SightingsAreSummaries ==
  /\ \A r \in sightings : Summarises(r)
  /\ \A a \in answered : /\ a.values # {}
                         /\ \A v \in a.values : \E r \in sightings : Of(r) = Of(a) /\ r.value = v

OInv == ObservationsTypeOK /\ TimesHavePassed /\ CyclesAreAnswers /\ SightingsAreSummaries

LEMMA IdentityFacts ==
  ASSUME NEW id \in Identities
  PROVE  /\ id = [source |-> id.source, revision |-> id.revision]
         /\ id.source \in SourceSet
         /\ Validity[id.source] \in Nat \ {0}
         /\ Grace <= Validity[id.source] + Retention
BY SourcesAreDescribed, GraceEndsBeforeArchive DEF Identities

LEMMA DefinitionType ==
  ASSUME ObservationsTypeOK
  PROVE  Definition \subseteq Identities
BY DEF ObservationsTypeOK, Definition, Identity, Identities

LEMMA IdleType == Idle \in Refresh /\ Idle.phase = "idle" /\ Idle.asked = {}
BY DEF Idle, Refresh, Never

(* The next source to ask is one of those left.                            *)
LEMMA AskedIsLeft ==
  ASSUME ObservationsTypeOK, NEW w \in Workers, Asking(w)
  PROVE  Asked(w) \in refresh[w].asked /\ Asked(w) \in Identities
<1> DEFINE left == refresh[w].asked
           places == { Position(id.source) : id \in left }
<1>0. left \subseteq Identities /\ left # {}
  BY DEF ObservationsTypeOK, Asking, Refresh
<1>1. ASSUME NEW id \in left PROVE Position(id.source) \in Nat
  <2>1. id.source \in SourceSet
    BY <1>0, <1>1, IdentityFacts
  <2>2. Len(Sources) \in Nat /\ \E i \in 1 .. Len(Sources) : Sources[i] = id.source
    BY <2>1, SourcesAreDescribed DEF SourceSet
  <2> QED
    BY <2>2 DEF Position
<1>2. PICK m \in places : \A n \in places : m <= n
  <2>1. places \subseteq Nat /\ places # {}
    BY <1>0, <1>1
  <2> HIDE DEF places
  <2> QED
    BY <2>1, LeastTime
<1>3. \E id \in left : \A other \in left : Position(id.source) <= Position(other.source)
  BY <1>2
<1>4. Asked(w) \in left
  BY <1>3 DEF Asked
<1> QED
  BY <1>0, <1>4
----------------------------------------------------------------------------
(* The row an answer leaves behind.                                        *)
Stored(id, v) == { r \in sightings : Of(r) = id /\ r.value = v }
Merges(row, id, at, earlier) ==
  /\ row.first = Min({at} \cup { r.first : r \in earlier })
  /\ row.last = Max({at} \cup { r.last : r \in earlier })
  /\ row.until = Max({at + Validity[id.source]} \cup { r.until : r \in earlier })

LEMMA RowIs ==
  ASSUME OInv, NEW id \in Identities, NEW at \in 1 .. now, NEW v,
         NEW row, Merges(row, id, at, Stored(id, v))
  PROVE  /\ row.first = at \/ Named(id, v, row.first)
         /\ row.last = at \/ Named(id, v, row.last)
         /\ row.first \in Nat /\ row.last \in Nat /\ row.first <= at /\ at <= row.last
         /\ \A t : Named(id, v, t) => row.first <= t /\ t <= row.last
         /\ row.until = row.last + Validity[id.source]
<1> PICK earlier : earlier = Stored(id, v)
  OBVIOUS
<1>0. /\ earlier = { r \in sightings : Of(r) = id /\ r.value = v }
      /\ row.first = Min({at} \cup { r.first : r \in earlier })
      /\ row.last = Max({at} \cup { r.last : r \in earlier })
      /\ row.until = Max({at + Validity[id.source]} \cup { r.until : r \in earlier })
  BY DEF Stored, Merges
<1>1. at \in Nat /\ Validity[id.source] \in Nat
  BY IdentityFacts DEF OInv, ObservationsTypeOK
<1>n. \A t : Named(id, v, t) => t \in Nat
  BY DEF OInv, TimesHavePassed, ObservationsTypeOK, Named
<1>2. CASE earlier = {}
  <2>1. ~ \E t : Named(id, v, t)
    BY <1>0, <1>2 DEF OInv, SightingsAreSummaries, Named
  <2>2. /\ { r.first : r \in earlier } = {} /\ { r.last : r \in earlier } = {}
        /\ { r.until : r \in earlier } = {}
    BY <1>2
  <2>3. row.first = at
    <3>1. { r.first : r \in earlier } \subseteq {at}
      BY <2>2
    <3> QED
      BY <1>1, <2>2, <3>1, <1>0, EarlierOf
  <2>4. row.last = at
    <3>1. { r.last : r \in earlier } \subseteq {at}
      BY <2>2
    <3> QED
      BY <1>1, <2>2, <3>1, <1>0, LaterOf
  <2>5. row.until = at + Validity[id.source]
    <3>1. at + Validity[id.source] \in Nat
      BY <1>1
    <3>2. { r.until : r \in earlier } \subseteq {at}
      BY <2>2
    <3> QED
      BY <1>1, <2>2, <3>1, <3>2, <1>0, LaterOf
  <2>6. row.first <= at /\ at <= row.last
    BY <1>1, <2>3, <2>4
  <2>7. row.until = row.last + Validity[id.source]
    BY <2>4, <2>5
  <2> QED
    BY <1>1, <2>1, <2>3, <2>4, <2>6, <2>7
<1>3. CASE earlier # {}
  <2>0. PICK k \in earlier : TRUE
    BY <1>3
  <2>1. \A r \in earlier : Of(r) = id /\ r.value = v /\ Summarises(r)
    BY <1>0 DEF OInv, SightingsAreSummaries
  <2>2. \A r \in earlier : /\ Named(id, v, r.first) /\ Named(id, v, r.last)
                         /\ r.until = r.last + Validity[id.source]
                         /\ \A t : Named(id, v, t) => r.first <= t /\ t <= r.last
    <3> SUFFICES ASSUME NEW r \in earlier
                 PROVE  /\ Named(id, v, r.first) /\ Named(id, v, r.last)
                        /\ r.until = r.last + Validity[id.source]
                        /\ \A t : Named(id, v, t) => r.first <= t /\ t <= r.last
      OBVIOUS
    <3>1. Of(r) = id /\ r.value = v /\ Summarises(r)
      BY <2>1
    <3>2. r.source = id.source
      BY <3>1 DEF Of
    <3> QED
      BY <3>1, <3>2 DEF Summarises
  <2>3. \A r \in earlier : r.first \in Nat /\ r.last \in Nat
    BY <1>n, <2>2
  <2>4. ASSUME NEW r \in earlier PROVE r.first = k.first /\ r.last = k.last /\ r.until = k.until
    <3>1. r.first <= k.first /\ k.first <= r.first /\ r.last <= k.last /\ k.last <= r.last
      BY <2>2
    <3> QED
      BY <2>2, <2>3, <3>1
  <2>5. row.first = IF k.first < at THEN k.first ELSE at
    <3>1. { r.first : r \in earlier } \subseteq {k.first} /\ { r.first : r \in earlier } # {}
      BY <2>4, <1>3
    <3> QED
      BY <1>1, <2>3, <3>1, <1>0, EarlierOf
  <2>6. row.last = IF at < k.last THEN k.last ELSE at
    <3>1. { r.last : r \in earlier } \subseteq {k.last} /\ { r.last : r \in earlier } # {}
      BY <2>4, <1>3
    <3> QED
      BY <1>1, <2>3, <3>1, <1>0, LaterOf
  <2>7. row.until = IF at + Validity[id.source] < k.until THEN k.until ELSE at + Validity[id.source]
    <3>1. { r.until : r \in earlier } \subseteq {k.until} /\ { r.until : r \in earlier } # {}
      BY <2>4, <1>3
    <3>2. k.until \in Nat /\ at + Validity[id.source] \in Nat
      BY <1>1, <2>2, <2>3
    <3> QED
      BY <3>1, <3>2, <1>0, LaterOf
  <2>8. k.until = k.last + Validity[id.source] /\ k.first \in Nat /\ k.last \in Nat
    BY <2>2, <2>3
  <2>9. row.until = row.last + Validity[id.source]
    <3>1. CASE at < k.last
      BY <1>1, <2>6, <2>7, <2>8, <3>1
    <3>2. CASE ~ (at < k.last)
      <4>1. row.last = at /\ ~ (at + Validity[id.source] < k.until)
        BY <1>1, <2>6, <2>8, <3>2
      <4> QED
        BY <2>7, <4>1
    <3> QED
      BY <3>1, <3>2
  <2>10. row.first \in Nat /\ row.last \in Nat /\ row.first <= at /\ at <= row.last
    BY <1>1, <2>5, <2>6, <2>8
  <2>11. ASSUME NEW t, Named(id, v, t) PROVE row.first <= t /\ t <= row.last
    <3>1. k.first <= t /\ t <= k.last /\ t \in Nat
      BY <1>n, <2>2, <2>11
    <3>2. row.first <= k.first /\ k.last <= row.last
      BY <1>1, <2>5, <2>6, <2>8
    <3> QED
      BY <2>8, <2>10, <3>1, <3>2
  <2>12. (row.first = at \/ Named(id, v, row.first)) /\ (row.last = at \/ Named(id, v, row.last))
    BY <2>2, <2>5, <2>6
  <2> QED
    BY <2>9, <2>10, <2>11, <2>12
<1> QED
  BY <1>2, <1>3

(* An answer keeps the summaries true, whenever the refresh that stores it *)
(* began.                                                                  *)
LEMMA AnswerKeepsSummaries ==
  ASSUME OInv, NEW id \in Identities, NEW at \in 1 .. now, NEW values, values # {},
         sightings' = Reported(id, at, values),
         answered' = answered \cup
           {[source |-> id.source, revision |-> id.revision, at |-> at, values |-> values]}
  PROVE  SightingsAreSummaries'
<1> DEFINE new == [source |-> id.source, revision |-> id.revision, at |-> at, values |-> values]
           earlier(v) == { r \in sightings : Of(r) = id /\ r.value = v }
           row(v) == [source |-> id.source, revision |-> id.revision, value |-> v,
                      first |-> Min({at} \cup { r.first : r \in earlier(v) }),
                      last |-> Max({at} \cup { r.last : r \in earlier(v) }),
                      until |-> Max({at + Validity[id.source]} \cup { r.until : r \in earlier(v) })]
           kept == { r \in sightings : Of(r) # id \/ r.value \notin values }
<1>1. sightings' = kept \cup { row(v) : v \in values }
  BY DEF Reported
<1>2. Of(new) = id /\ new.at = at /\ new.values = values /\ answered' = answered \cup {new}
  BY IdentityFacts DEF Of
<1>3. \A v : Of(row(v)) = id /\ row(v).value = v /\ row(v).source = id.source
  BY IdentityFacts DEF Of
<1> HIDE DEF new, row
<1>4. ASSUME NEW i, NEW v, NEW t
      PROVE  Named(i, v, t)' <=> Named(i, v, t) \/ (i = id /\ v \in values /\ t = at)
  BY <1>2 DEF Named
<1>5. ASSUME NEW v \in values, NEW r, r = row(v) PROVE Summarises(r)'
  <2>1. Merges(r, id, at, Stored(id, v))
    BY <1>5 DEF row, Merges, Stored
  <2>3. Of(r) = id /\ r.value = v /\ r.source = id.source
    BY <1>3, <1>5
  <2>5. /\ r.first = at \/ Named(id, v, r.first)
        /\ r.last = at \/ Named(id, v, r.last)
        /\ r.first \in Nat /\ r.last \in Nat /\ r.first <= at /\ at <= r.last
        /\ \A t : Named(id, v, t) => r.first <= t /\ t <= r.last
        /\ r.until = r.last + Validity[id.source]
    BY <2>1, RowIs
  <2> QED
    BY <1>4, <2>3, <2>5 DEF Summarises
<1>6. ASSUME NEW r \in kept PROVE Summarises(r)'
  <2>1. Summarises(r)
    BY DEF OInv, SightingsAreSummaries
  <2>2. \A t : Named(Of(r), r.value, t)' <=> Named(Of(r), r.value, t)
    BY <1>4
  <2> QED
    BY <2>1, <2>2 DEF Summarises
<1>7. ASSUME NEW r \in sightings' PROVE Summarises(r)'
  BY <1>1, <1>5, <1>6
<1>8. ASSUME NEW a \in answered', NEW v \in a.values
      PROVE  \E r \in sightings' : Of(r) = Of(a) /\ r.value = v
  <2>1. CASE Of(a) = id /\ v \in values
    <3>1. row(v) \in sightings'
      BY <1>1, <2>1
    <3> QED
      BY <1>3, <2>1, <3>1
  <2>2. CASE ~ (Of(a) = id /\ v \in values)
    <3>1. a \in answered
      BY <1>2, <2>2
    <3>2. PICK r \in sightings : Of(r) = Of(a) /\ r.value = v
      BY <3>1 DEF OInv, SightingsAreSummaries
    <3>3. r \in kept
      BY <2>2, <3>2
    <3> QED
      BY <1>1, <3>2, <3>3
  <2> QED
    BY <2>1, <2>2
<1>9. ASSUME NEW a \in answered' PROVE a.values # {}
  BY <1>2 DEF OInv, SightingsAreSummaries
<1> QED
  BY <1>7, <1>8, <1>9 DEF SightingsAreSummaries

----------------------------------------------------------------------------
(* Every step keeps the invariant.                                         *)

LEMMA ObservationsStart == ObservationsInit => OInv
<1> SUFFICES ASSUME ObservationsInit PROVE OInv
  OBVIOUS
<1>1. ObservationsTypeOK
  BY IdleType, CatalogsAreNumbered DEF ObservationsInit, ObservationsTypeOK
<1>2. TimesHavePassed
  BY IdleType DEF ObservationsInit, TimesHavePassed
<1>3. CyclesAreAnswers /\ SightingsAreSummaries
  BY DEF ObservationsInit, CyclesAreAnswers, SightingsAreSummaries
<1> QED
  BY <1>1, <1>2, <1>3 DEF OInv

(* Steps that store nothing.                                               *)
LEMMA NothingStored ==
  ASSUME OInv, UNCHANGED <<sightings, runs, answered>>, now' \in Nat, now <= now', ObservationsTypeOK',
         \A w \in Workers : refresh'[w].phase = "reading" =>
            refresh'[w].at = now \/ (refresh[w].phase = "reading" /\ refresh'[w].at = refresh[w].at)
  PROVE  OInv'
<1>1. now \in Nat \ {0}
  BY DEF OInv, ObservationsTypeOK
<1>2. TimesHavePassed'
  BY <1>1 DEF OInv, TimesHavePassed
<1>3. CyclesAreAnswers'
  BY DEF OInv, CyclesAreAnswers
<1>4. SightingsAreSummaries'
  BY DEF OInv, SightingsAreSummaries, Summarises, Named
<1> QED
  BY <1>2, <1>3, <1>4 DEF OInv

LEMMA AnswerKeeps ==
  ASSUME OInv, NEW w \in Workers, Answer(w)
  PROVE  OInv'
<1>0. Asking(w) /\ refresh \in [Workers -> Refresh] /\ now \in Nat \ {0}
  BY DEF Answer, OInv, ObservationsTypeOK
<1> PICK id \in Identities : id = Asked(w)
  BY <1>0, AskedIsLeft DEF OInv
<1> PICK at \in 1 .. now : at = refresh[w].at
  BY <1>0 DEF Asking, OInv, TimesHavePassed
<1> PICK values : /\ values # {}
                  /\ sightings' = Reported(id, at, values)
                  /\ answered' = answered \cup
                       {[source |-> id.source, revision |-> id.revision, at |-> at, values |-> values]}
  BY DEF Answer
<1> DEFINE new == [source |-> id.source, revision |-> id.revision, at |-> at, values |-> values]
<1>1. Of(new) = id /\ new.at = at
  BY IdentityFacts DEF Of
<1> PICK cycle : cycle = [source |-> id.source, revision |-> id.revision, at |-> at, ok |-> TRUE]
  OBVIOUS
<1>c. /\ Of(cycle) = id /\ cycle.at = at
      /\ cycle.ok /\ cycle.ok \in BOOLEAN
  <2>1. Of(cycle) = id /\ cycle.at = at
    BY IdentityFacts DEF Of
  <2>2. cycle.ok = TRUE
    OBVIOUS
  <2> QED
    BY <2>1, <2>2
<1>2. runs' = runs \cup {cycle} /\ now' = now
  BY DEF Answer, Cycle
<1>3. ObservationsTypeOK'
  <2>1. refresh' = [refresh EXCEPT ![w].asked = @ \ {id}]
    BY DEF Answer
  <2> QED
    BY <1>0, <2>1 DEF Answer, OInv, ObservationsTypeOK, Refresh
<1>4. TimesHavePassed'
  <2>1. \A v \in Workers : refresh'[v].phase = refresh[v].phase /\ refresh'[v].at = refresh[v].at
    BY <1>0 DEF Answer, Refresh
  <2> HIDE DEF new
  <2>2. answered' = answered \cup {new}
    BY DEF new
  <2>3. \A a \in answered' : a.at \in 1 .. now /\ Of(a) \in Identities
    BY <1>1, <2>2 DEF OInv, TimesHavePassed
  <2>4. \A c \in runs' : c.at \in 1 .. now /\ c.ok \in BOOLEAN
    BY <1>c, <1>2 DEF OInv, TimesHavePassed
  <2> QED
    BY <1>2, <2>1, <2>3, <2>4 DEF OInv, TimesHavePassed
<1>5. CyclesAreAnswers'
  <2> HIDE DEF new
  <2>2. answered' = answered \cup {new}
    BY DEF new
  <2>3. ASSUME NEW c \in runs', c.ok PROVE \E a \in answered' : Of(a) = Of(c) /\ a.at = c.at
    <3>1. CASE c \in runs
      BY <2>2, <2>3, <3>1 DEF OInv, CyclesAreAnswers
    <3>2. CASE c = cycle
      BY <1>c, <1>1, <2>2, <3>2
    <3> QED
      BY <1>2, <3>1, <3>2
  <2>4. ASSUME NEW a \in answered' PROVE \E c \in runs' : Of(c) = Of(a) /\ c.at = a.at /\ c.ok
    <3>1. CASE a \in answered
      BY <1>2, <3>1 DEF OInv, CyclesAreAnswers
    <3>2. CASE a = new
      BY <1>c, <1>1, <1>2, <3>2
    <3> QED
      BY <2>2, <3>1, <3>2
  <2> QED
    BY <2>3, <2>4 DEF CyclesAreAnswers
<1>6. SightingsAreSummaries'
  BY AnswerKeepsSummaries
<1> QED
  BY <1>3, <1>4, <1>5, <1>6 DEF OInv

LEMMA NoAnswerKeeps ==
  ASSUME OInv, NEW w \in Workers, NoAnswer(w)
  PROVE  OInv'
<1>0. Asking(w) /\ refresh \in [Workers -> Refresh] /\ now \in Nat \ {0}
  BY DEF NoAnswer, OInv, ObservationsTypeOK
<1> PICK id \in Identities : id = Asked(w)
  BY <1>0, AskedIsLeft DEF OInv
<1> PICK at \in 1 .. now : at = refresh[w].at
  BY <1>0 DEF Asking, OInv, TimesHavePassed
<1> PICK cycle : cycle = [source |-> id.source, revision |-> id.revision, at |-> at, ok |-> FALSE]
  OBVIOUS
<1>c. /\ Of(cycle) = id /\ cycle.at = at
      /\ ~ cycle.ok /\ cycle.ok \in BOOLEAN
  <2>1. Of(cycle) = id /\ cycle.at = at
    BY IdentityFacts DEF Of
  <2>2. cycle.ok = FALSE
    OBVIOUS
  <2> QED
    BY <2>1, <2>2
<1>2. runs' = runs \cup {cycle} /\ UNCHANGED <<now, sightings, answered>>
  BY DEF NoAnswer, Cycle
<1>3. ObservationsTypeOK'
  <2>1. refresh' = [refresh EXCEPT ![w].asked = @ \ {id}]
    BY DEF NoAnswer
  <2> QED
    BY <1>0, <2>1 DEF NoAnswer, OInv, ObservationsTypeOK, Refresh
<1>4. TimesHavePassed'
  <2>1. \A v \in Workers : refresh'[v].phase = refresh[v].phase /\ refresh'[v].at = refresh[v].at
    BY <1>0 DEF NoAnswer, Refresh
  <2>4. \A c \in runs' : c.at \in 1 .. now /\ c.ok \in BOOLEAN
    BY <1>c, <1>2 DEF OInv, TimesHavePassed
  <2> QED
    BY <1>2, <2>1, <2>4 DEF OInv, TimesHavePassed
<1>5. CyclesAreAnswers'
  BY <1>c, <1>2 DEF OInv, CyclesAreAnswers
<1>6. SightingsAreSummaries'
  BY <1>2 DEF OInv, SightingsAreSummaries, Summarises, Named
<1> QED
  BY <1>3, <1>4, <1>5, <1>6 DEF OInv

LEMMA ObservationsStep ==
  ASSUME OInv, [ObservationsNext]_observationsVars
  PROVE  OInv'
<1>0. ObservationsTypeOK
  BY DEF OInv
<1>i. Idle \in Refresh /\ Idle.phase = "idle"
  BY IdleType
<1>1. ASSUME NEW w \in Workers, Start(w) PROVE OInv'
  <2>1. PICK r : r = [Idle EXCEPT !.phase = "reading", !.at = now, !.asked = Definition]
    OBVIOUS
  <2>2. r \in Refresh /\ r.at = now
    BY <1>0, <2>1, IdleType, DefinitionType DEF ObservationsTypeOK, Refresh
  <2>3. refresh' = [refresh EXCEPT ![w] = r]
    BY <1>1, <2>1 DEF Start
  <2>4. ObservationsTypeOK'
    BY <1>0, <1>1, <2>2, <2>3 DEF Start, ObservationsTypeOK
  <2>5. \A v \in Workers : refresh'[v] = refresh[v] \/ refresh'[v].at = now
    BY <1>0, <2>2, <2>3 DEF ObservationsTypeOK
  <2> QED
    BY <1>0, <1>1, <2>4, <2>5, NothingStored DEF Start, ObservationsTypeOK
<1>2. ASSUME NEW w \in Workers, GiveUp(w) \/ Finish(w) PROVE OInv'
  <2>1. refresh' = [refresh EXCEPT ![w] = Idle] /\ UNCHANGED <<now, catalog, enabled>>
    BY <1>2 DEF GiveUp, Finish
  <2>2. ObservationsTypeOK'
    BY <1>0, <1>i, <2>1 DEF ObservationsTypeOK
  <2>3. \A v \in Workers : refresh'[v] = refresh[v] \/ refresh'[v].phase = "idle"
    BY <1>0, <1>i, <2>1 DEF ObservationsTypeOK
  <2>4. UNCHANGED <<sightings, runs, answered>>
    BY <1>2 DEF GiveUp, Finish
  <2> QED
    BY <1>0, <2>1, <2>2, <2>3, <2>4, NothingStored DEF ObservationsTypeOK
<1>3. ASSUME NEW s \in SourceSet, SetListSourceEnabled(s) PROVE OInv'
  BY <1>0, <1>3, NothingStored DEF SetListSourceEnabled, ObservationsTypeOK
<1>4. CASE Restart
  <2>1. ObservationsTypeOK' /\ \A v \in Workers : refresh'[v].phase = "idle"
    BY <1>0, <1>4, <1>i DEF Restart, ObservationsTypeOK
  <2> QED
    BY <1>0, <1>4, <2>1, NothingStored DEF Restart, ObservationsTypeOK
<1>5. CASE Tick
  <2>1. ObservationsTypeOK' /\ now' = now + 1
    BY <1>0, <1>5 DEF Tick, ObservationsTypeOK
  <2> QED
    BY <1>0, <1>5, <2>1, NothingStored DEF Tick, ObservationsTypeOK
<1>6. CASE UNCHANGED observationsVars
  BY <1>0, <1>6, NothingStored DEF observationsVars, ObservationsTypeOK
<1> QED
  BY <1>1, <1>2, <1>3, <1>4, <1>5, <1>6, AnswerKeeps, NoAnswerKeeps DEF ObservationsNext

(* The inductive invariant holds in every behaviour.                       *)
THEOREM ObservationsInvariance == ObservationsSpec => []OInv
BY ObservationsStart, ObservationsStep, PTL DEF ObservationsSpec

----------------------------------------------------------------------------
(* What the health of a source tells.                                      *)

AnswerTimes(id) == { a.at : a \in { b \in answered : Of(b) = id } }
FailureTimes(id) == { c.at : c \in { d \in RunsOf(id) : d.ok = FALSE } }

LEMMA AnswerTimesPassed ==
  ASSUME OInv, NEW id
  PROVE  /\ AnswerTimes(id) \subseteq 1 .. now /\ FailureTimes(id) \subseteq 1 .. now
         /\ now \in Nat
         /\ \A t : (\E v : Named(id, v, t)) <=> t \in AnswerTimes(id)
<1>1. AnswerTimes(id) \subseteq 1 .. now /\ FailureTimes(id) \subseteq 1 .. now
  BY DEF OInv, TimesHavePassed, AnswerTimes, FailureTimes, RunsOf
<1>2. \A a \in answered : \E v : v \in a.values
  BY DEF OInv, SightingsAreSummaries
<1>3. \A t : (\E v : Named(id, v, t)) <=> t \in AnswerTimes(id)
  BY <1>2 DEF Named, AnswerTimes
<1> QED
  BY <1>1, <1>3 DEF OInv, ObservationsTypeOK

LEMMA HealthReads ==
  ASSUME OInv, NEW id
  PROVE  LET health == Health(RunsOf(id))
         IN  /\ health.success = Latest(AnswerTimes(id))
             /\ health.failure = Latest(FailureTimes(id))
             /\ health.previous = Latest({ t \in AnswerTimes(id) : t < health.success })
<1> DEFINE good == { c.at : c \in { d \in RunsOf(id) : d.ok = TRUE } }
<1>1. good = AnswerTimes(id)
  <2>1. ASSUME NEW t \in good PROVE t \in AnswerTimes(id)
    <3>1. PICK c \in runs : Of(c) = id /\ c.ok = TRUE /\ c.at = t
      BY <2>1 DEF RunsOf
    <3>2. c.ok
      BY <3>1
    <3> QED
      BY <3>1, <3>2 DEF OInv, CyclesAreAnswers, AnswerTimes
  <2>2. ASSUME NEW t \in AnswerTimes(id) PROVE t \in good
    <3>1. PICK c \in runs : Of(c) = id /\ c.at = t /\ c.ok
      BY <2>2 DEF OInv, CyclesAreAnswers, AnswerTimes
    <3>2. c.ok = TRUE
      BY <3>1 DEF OInv, TimesHavePassed
    <3> QED
      BY <3>1, <3>2 DEF RunsOf
  <2> QED
    BY <2>1, <2>2
<1>2. Health(RunsOf(id)) = [success |-> Latest(good), failure |-> Latest(FailureTimes(id)),
                            previous |-> Latest({ t \in good : t < Latest(good) })]
  BY DEF Health, FailureTimes
<1> HIDE DEF good
<1> QED
  BY <1>1, <1>2

(* The latest success is the time of the last answer, and the success      *)
(* before it that of the last answer before that one.                      *)
LEMMA HealthIs ==
  ASSUME OInv, NEW id, NEW h, h = Health(RunsOf(id))
  PROVE  /\ h.success \in 0 .. now /\ h.failure \in Nat /\ h.previous \in Nat
         /\ h.success # Never => h.success \in AnswerTimes(id)
         /\ h.previous # Never => h.previous \in AnswerTimes(id)
         /\ \A t \in AnswerTimes(id) : /\ t \in 1 .. now /\ t <= h.success
                                       /\ t < h.success => t <= h.previous
<1>0. /\ AnswerTimes(id) \subseteq 1 .. now /\ FailureTimes(id) \subseteq 1 .. now /\ now \in Nat
      /\ h.success = Latest(AnswerTimes(id)) /\ h.failure = Latest(FailureTimes(id))
      /\ h.previous = Latest({ t \in AnswerTimes(id) : t < h.success })
  BY AnswerTimesPassed, HealthReads
<1> PICK earlier : earlier = { t \in AnswerTimes(id) : t < h.success }
  OBVIOUS
<1>1. /\ AnswerTimes(id) \subseteq Nat /\ FailureTimes(id) \subseteq Nat /\ earlier \subseteq Nat
      /\ \A n \in AnswerTimes(id) : n <= now
      /\ \A n \in FailureTimes(id) : n <= now
      /\ \A n \in earlier : n <= now
  BY <1>0
<1>2. /\ h.success \in Nat /\ (h.success = Never \/ h.success \in AnswerTimes(id))
      /\ \A t \in AnswerTimes(id) : t <= h.success
  BY <1>0, <1>1, LatestIs
<1>3. h.failure \in Nat
  BY <1>0, <1>1, LatestIs
<1>4. /\ h.previous \in Nat /\ (h.previous = Never \/ h.previous \in earlier)
      /\ \A t \in earlier : t <= h.previous
  BY <1>0, <1>1, LatestIs
<1>5. h.success \in 0 .. now
  BY <1>0, <1>2 DEF Never
<1> QED
  BY <1>0, <1>2, <1>3, <1>4, <1>5

----------------------------------------------------------------------------
(* What a build gets.                                                      *)

(* What a source stands for at a cutoff: what an answer that is still      *)
(* valid named, and under grace what the last one did.                     *)
Stands(id, v, cutoff) ==
  \/ \E t : Named(id, v, t) /\ cutoff < t + Validity[id.source]
  \/ InGrace(id, cutoff) /\ Named(id, v, Health(RunsOf(id)).success)

LEMMA RepliesAreNamed ==
  ASSUME NEW id, NEW t
  PROVE  \A v : v \in Replies(id, t) <=> Named(id, v, t)
BY DEF Replies, Named

LEMMA PromisedIs ==
  ASSUME NEW cutoff
  PROVE  /\ \A id \in Definition : \A v : Stands(id, v, cutoff) => <<id, v>> \in Promised(cutoff)
         /\ \A p \in Promised(cutoff) :
              \E id \in Definition : \E v : p = <<id, v>> /\ Stands(id, v, cutoff)
<1> DEFINE valid(id, a) == Of(a) = id /\ cutoff < a.at + Validity[id.source]
           current(id) == UNION { a.values : a \in { b \in answered : valid(id, b) } }
           kept(id) == IF InGrace(id, cutoff) THEN Replies(id, Health(RunsOf(id)).success) ELSE {}
           both(id) == current(id) \cup kept(id)
<1>1. Promised(cutoff) = UNION { {id} \X both(id) : id \in Definition }
  BY Zenon DEF Promised
<1>2. ASSUME NEW id, NEW v PROVE v \in both(id) <=> Stands(id, v, cutoff)
  <2>1. v \in current(id) <=> \E t : Named(id, v, t) /\ cutoff < t + Validity[id.source]
    <3>1. ASSUME v \in current(id)
          PROVE  \E t : Named(id, v, t) /\ cutoff < t + Validity[id.source]
      <4>1. PICK a \in answered : Of(a) = id /\ cutoff < a.at + Validity[id.source] /\ v \in a.values
        BY <3>1
      <4>2. Named(id, v, a.at)
        BY <4>1 DEF Named
      <4> QED
        BY <4>1, <4>2
    <3>2. ASSUME NEW t, Named(id, v, t), cutoff < t + Validity[id.source]
          PROVE  v \in current(id)
      BY <3>2 DEF Named
    <3> QED
      BY <3>1, <3>2
  <2>2. v \in kept(id) <=> InGrace(id, cutoff) /\ Named(id, v, Health(RunsOf(id)).success)
    BY RepliesAreNamed
  <2> QED
    BY <2>1, <2>2 DEF Stands
<1> HIDE DEF both
<1>3. ASSUME NEW id \in Definition, NEW v, Stands(id, v, cutoff) PROVE <<id, v>> \in Promised(cutoff)
  <2>1. v \in both(id)
    BY <1>2, <1>3
  <2>2. <<id, v>> \in {id} \X both(id)
    BY <2>1
  <2> QED
    BY <1>1, <2>2
<1>4. ASSUME NEW p \in Promised(cutoff)
      PROVE  \E id \in Definition : \E v : p = <<id, v>> /\ Stands(id, v, cutoff)
  <2>1. PICK id \in Definition : p \in {id} \X both(id)
    BY <1>1
  <2>2. PICK v \in both(id) : p = <<id, v>>
    BY <2>1
  <2> QED
    BY <1>2, <2>2
<1> QED
  BY <1>3, <1>4

(* The numbers a stored sighting and the health of its source hold.        *)
LEMMA SightingFacts ==
  ASSUME OInv, NEW r \in sightings, NEW id, id = Of(r), NEW h, h = Health(RunsOf(id))
  PROVE  /\ id \in Identities /\ r.source = id.source
         /\ r.first \in 1 .. now /\ r.last \in 1 .. now
         /\ r.until = r.last + Validity[id.source]
         /\ Named(id, r.value, r.first) /\ Named(id, r.value, r.last)
         /\ \A t : Named(id, r.value, t) => t \in 1 .. now /\ r.first <= t /\ t <= r.last
         /\ r.last <= h.success
         /\ r.last < h.success => r.last <= h.previous
<1>1. Summarises(r)
  BY DEF OInv, SightingsAreSummaries
<1>2. r.source = id.source
  BY DEF Of
<1>3. \A v, t : Named(id, v, t) => t \in AnswerTimes(id)
  BY AnswerTimesPassed
<1>4. /\ Named(id, r.value, r.first) /\ Named(id, r.value, r.last)
      /\ \A t : Named(id, r.value, t) => r.first <= t /\ t <= r.last
      /\ r.until = r.last + Validity[r.source] /\ id \in Identities
  BY <1>1 DEF Summarises
<1>5. \A t \in AnswerTimes(id) : t \in 1 .. now /\ t <= h.success /\ (t < h.success => t <= h.previous)
  BY HealthIs
<1> QED
  BY <1>2, <1>3, <1>4, <1>5

LEMMA NamedIsStored ==
  ASSUME OInv, NEW id, NEW v, NEW t, Named(id, v, t)
  PROVE  \E r \in sightings : Of(r) = id /\ r.value = v
BY DEF OInv, SightingsAreSummaries, Named

(* A stored value counts exactly when its source stands for it.            *)
LEMMA CountsIsStands ==
  ASSUME OInv, NEW r \in sightings, NEW cutoff \in Nat
  PROVE  Counts(r, Health(RunsOf(Of(r))), cutoff) <=> Stands(Of(r), r.value, cutoff)
<1> PICK id : id = Of(r)
  OBVIOUS
<1> PICK h : h = Health(RunsOf(id))
  OBVIOUS
<1>n. now \in Nat
  BY DEF OInv, ObservationsTypeOK
<1>f. /\ id \in Identities /\ r.source = id.source /\ r.last \in 1 .. now
      /\ r.until = r.last + Validity[id.source]
      /\ Named(id, r.value, r.last)
      /\ \A t : Named(id, r.value, t) => t \in 1 .. now /\ t <= r.last
      /\ r.last <= h.success
  BY SightingFacts
<1>0. /\ id \in Identities /\ r.source = id.source
      /\ r.last \in Nat /\ now \in Nat
      /\ r.until = r.last + Validity[id.source]
      /\ Named(id, r.value, r.last)
      /\ \A t : Named(id, r.value, t) => t \in Nat /\ t <= r.last
      /\ r.last <= h.success
  BY <1>f, <1>n
<1>1. /\ Validity[id.source] \in Nat \ {0} /\ Grace <= Validity[id.source] + Retention
      /\ Grace \in Nat /\ Retention \in Nat
  BY <1>0, IdentityFacts, PeriodsAreNumbers
<1>h. h.success \in Nat /\ h.failure \in Nat
  <2>1. h.success \in 0 .. now /\ h.failure \in Nat
    BY HealthIs
  <2> QED
    BY <1>n, <2>1
<1>2. IsFresh(r, cutoff) <=> cutoff < r.until
  <2>1. r.until \in Nat /\ (cutoff < r.until => ~ (r.until + Retention <= cutoff))
    BY <1>0, <1>1
  <2> QED
    BY <2>1 DEF IsFresh, LifecycleAt
<1>3. cutoff < r.until <=> \E t : Named(id, r.value, t) /\ cutoff < t + Validity[id.source]
  <2>1. ASSUME NEW t, Named(id, r.value, t), cutoff < t + Validity[id.source] PROVE cutoff < r.until
    <3>1. t \in Nat /\ t <= r.last
      BY <1>0, <2>1
    <3> QED
      BY <1>0, <1>1, <2>1, <3>1
  <2> QED
    BY <1>0, <2>1
<1>4. ASSUME AdmissibleUnderGrace(r, h, cutoff)
      PROVE  InGrace(id, cutoff) /\ Named(id, r.value, h.success)
  <2>1. Degraded(h, cutoff) /\ h.success <= r.last
    BY <1>4 DEF AdmissibleUnderGrace
  <2>2. r.last = h.success
    BY <1>0, <1>h, <2>1
  <2> QED
    BY <1>0, <2>1, <2>2 DEF InGrace
<1>5. ASSUME InGrace(id, cutoff), Named(id, r.value, h.success), ~ (cutoff < r.until)
      PROVE  AdmissibleUnderGrace(r, h, cutoff)
  <2>1. Degraded(h, cutoff)
    BY <1>5 DEF InGrace
  <2>2. h.success = r.last
    BY <1>0, <1>h, <1>5
  <2>3. cutoff < r.last + Grace
    BY <2>1, <2>2 DEF Degraded
  <2>4. ~ (r.until + Retention <= cutoff)
    BY <1>0, <1>1, <2>3
  <2>5. LifecycleAt(r.until, cutoff) = "stale"
    BY <1>5, <2>4 DEF LifecycleAt
  <2> QED
    BY <1>0, <2>1, <2>2, <2>5 DEF AdmissibleUnderGrace
<1>6. Counts(r, h, cutoff) <=> Stands(id, r.value, cutoff)
  BY <1>2, <1>3, <1>4, <1>5 DEF Counts, Stands
<1> QED
  BY <1>6

LEMMA AdmittedFromInvariant ==
  ASSUME OInv
  PROVE  AdmittedIsPromised
<1> SUFFICES ASSUME NEW cutoff \in 1 .. now
             PROVE  { <<Of(r), r.value>> : r \in Admitted(cutoff) } = Promised(cutoff)
  BY DEF AdmittedIsPromised
<1>0. cutoff \in Nat
  BY DEF OInv, ObservationsTypeOK
<1>1. ASSUME NEW r \in Admitted(cutoff) PROVE <<Of(r), r.value>> \in Promised(cutoff)
  <2>1. r \in sightings /\ Of(r) \in Definition /\ Counts(r, Health(RunsOf(Of(r))), cutoff)
    BY <1>1 DEF Admitted, Snapshot
  <2> QED
    BY <1>0, <2>1, CountsIsStands, PromisedIs
<1>2. ASSUME NEW p \in Promised(cutoff) PROVE \E r \in Admitted(cutoff) : p = <<Of(r), r.value>>
  <2>1. PICK id, v : id \in Definition /\ p = <<id, v>> /\ Stands(id, v, cutoff)
    BY PromisedIs
  <2>2. \E t : Named(id, v, t)
    BY <2>1 DEF Stands
  <2>3. PICK r \in sightings : Of(r) = id /\ r.value = v
    BY <2>2, NamedIsStored
  <2>4. Counts(r, Health(RunsOf(Of(r))), cutoff)
    BY <1>0, <2>1, <2>3, CountsIsStands
  <2>5. r \in Admitted(cutoff)
    BY <2>1, <2>3, <2>4 DEF Admitted, Snapshot
  <2> QED
    BY <2>1, <2>3, <2>5
<1> QED
  BY <1>1, <1>2

(* What a build at any cutoff that has passed gets is what the answers     *)
(* promise (observation.AdmissibleForMaterialization over                  *)
(* ListSightings).                                                         *)
THEOREM PlansGetThePromised == ObservationsSpec => []AdmittedIsPromised
BY ObservationsInvariance, AdmittedFromInvariant, PTL

----------------------------------------------------------------------------
(* A step that stores no sighting takes nothing out of a plan.             *)

(* The latest success of a source is the latest stamp it has left, and its *)
(* latest failure is no earlier than any.                                  *)
HealthTells ==
  \A id :
    /\ Health(RunsOf(id)).success \in Nat /\ Health(RunsOf(id)).failure \in Nat
    /\ \A r \in sightings : Of(r) = id => r.last \in Nat /\ r.last <= Health(RunsOf(id)).success
    /\ Health(RunsOf(id)).success # Never =>
         \E r \in sightings : Of(r) = id /\ r.last = Health(RunsOf(id)).success
    /\ \A c \in RunsOf(id) : c.ok = FALSE => c.at <= Health(RunsOf(id)).failure
    /\ Health(RunsOf(id)).failure # Never =>
         \E c \in RunsOf(id) : c.ok = FALSE /\ c.at = Health(RunsOf(id)).failure

LEMMA HealthAlwaysTells == OInv => HealthTells
<1> SUFFICES ASSUME OInv, NEW id
             PROVE  LET h == Health(RunsOf(id))
                    IN  /\ h.success \in Nat /\ h.failure \in Nat
                        /\ \A r \in sightings : Of(r) = id => r.last \in Nat /\ r.last <= h.success
                        /\ h.success # Never => \E r \in sightings : Of(r) = id /\ r.last = h.success
                        /\ \A c \in RunsOf(id) : c.ok = FALSE => c.at <= h.failure
                        /\ h.failure # Never => \E c \in RunsOf(id) : c.ok = FALSE /\ c.at = h.failure
  BY DEF HealthTells
<1> PICK h : h = Health(RunsOf(id))
  OBVIOUS
<1>0. now \in Nat
  BY DEF OInv, ObservationsTypeOK
<1>1. h.success \in 0 .. now /\ h.failure \in Nat /\ (h.success # Never => h.success \in AnswerTimes(id))
  BY HealthIs
<1>2. \A r \in sightings : Of(r) = id => r.last \in 1 .. now /\ r.last <= h.success
  BY SightingFacts
<1>3. ASSUME h.success # Never PROVE \E r \in sightings : Of(r) = id /\ r.last = h.success
  <2>1. PICK v : Named(id, v, h.success)
    BY <1>1, <1>3, AnswerTimesPassed
  <2>2. PICK r \in sightings : Of(r) = id /\ r.value = v
    BY <2>1, NamedIsStored
  <2>3. h.success <= r.last
    BY <2>1, <2>2, SightingFacts
  <2>4. r.last \in 1 .. now /\ r.last <= h.success
    BY <1>2, <2>2
  <2> QED
    BY <1>0, <1>1, <2>2, <2>3, <2>4
<1>4. FailureTimes(id) \subseteq Nat /\ (\A n \in FailureTimes(id) : n <= now)
  <2>1. FailureTimes(id) \subseteq 1 .. now
    BY AnswerTimesPassed
  <2> QED
    BY <1>0, <2>1
<1>5. h.failure = Latest(FailureTimes(id))
  BY HealthReads
<1>6. (h.failure = Never \/ h.failure \in FailureTimes(id)) /\ \A t \in FailureTimes(id) : t <= h.failure
  BY <1>0, <1>4, <1>5, LatestIs
<1>7. /\ \A c \in RunsOf(id) : c.ok = FALSE => c.at <= h.failure
      /\ h.failure # Never => \E c \in RunsOf(id) : c.ok = FALSE /\ c.at = h.failure
  BY <1>6 DEF FailureTimes
<1>8. h.success \in Nat /\ (\A r \in sightings : Of(r) = id => r.last \in Nat)
  BY <1>0, <1>1, <1>2
<1> QED
  BY <1>1, <1>2, <1>3, <1>7, <1>8

LEMMA RunsAreKept ==
  ASSUME [ObservationsNext]_observationsVars
  PROVE  runs \subseteq runs'
<1>1. ASSUME NEW w \in Workers, Start(w) \/ GiveUp(w) \/ Finish(w) PROVE runs \subseteq runs'
  BY <1>1 DEF Start, GiveUp, Finish
<1>2. ASSUME NEW w \in Workers, Answer(w) PROVE runs \subseteq runs'
  BY <1>2 DEF Answer
<1>3. ASSUME NEW w \in Workers, NoAnswer(w) PROVE runs \subseteq runs'
  BY <1>3 DEF NoAnswer
<1> QED
  BY <1>1, <1>2, <1>3 DEF ObservationsNext, SetListSourceEnabled, Restart, Tick, observationsVars

LEMMA NothingWithdrawn ==
  ASSUME HealthTells, HealthTells', OInv, [ObservationsNext]_observationsVars,
         sightings' = sightings, Definition' = Definition, NEW cutoff \in 1 .. now
  PROVE  Admitted(cutoff) \subseteq Admitted(cutoff)'
<1> SUFFICES ASSUME NEW r \in Admitted(cutoff) PROVE r \in Admitted(cutoff)'
  OBVIOUS
<1>1. r \in sightings /\ Of(r) \in Definition /\ Counts(r, Health(RunsOf(Of(r))), cutoff)
  BY DEF Admitted, Snapshot
<1> PICK id : id = Of(r)
  OBVIOUS
<1> PICK h : h = Health(RunsOf(id))
  OBVIOUS
<1> PICK k : k = Health(RunsOf(id))'
  OBVIOUS
<1>h. /\ h.success \in Nat /\ h.failure \in Nat
      /\ \A s \in sightings : Of(s) = id => s.last \in Nat /\ s.last <= h.success
      /\ h.success # Never => \E s \in sightings : Of(s) = id /\ s.last = h.success
      /\ h.failure # Never => \E c \in RunsOf(id) : c.ok = FALSE /\ c.at = h.failure
  BY DEF HealthTells
<1>k. /\ k.success \in Nat /\ k.failure \in Nat
      /\ \A s \in sightings : Of(s) = id => s.last \in Nat /\ s.last <= k.success
      /\ k.success # Never => \E s \in sightings : Of(s) = id /\ s.last = k.success
      /\ \A c \in RunsOf(id)' : c.ok = FALSE => c.at <= k.failure
  BY DEF HealthTells
<1>2. k.success = h.success
  BY <1>h, <1>k DEF Never
<1>3. h.failure <= k.failure
  <2>1. RunsOf(id) \subseteq RunsOf(id)'
    BY RunsAreKept DEF RunsOf
  <2>2. CASE h.failure = Never
    BY <1>k, <2>2 DEF Never
  <2>3. CASE h.failure # Never
    BY <1>h, <1>k, <2>1, <2>3
  <2> QED
    BY <2>2, <2>3
<1>4. Degraded(h, cutoff) => Degraded(k, cutoff)
  BY <1>h, <1>k, <1>2, <1>3 DEF Degraded, LastRunFailed
<1>5. Counts(r, k, cutoff)
  BY <1>1, <1>2, <1>4 DEF Counts, AdmissibleUnderGrace
<1>6. r \in Snapshot'
  BY <1>1 DEF Snapshot
<1> QED
  BY <1>5, <1>6 DEF Admitted

(* A failed cycle and the end of a refresh take nothing out of a plan      *)
(* (observation.AdmissibleForMaterialization, RecordSourceRun).            *)
THEOREM FailuresTakeNothing == ObservationsSpec => FailuresWithdrawNothing
<1>1. ASSUME HealthTells, HealthTells', OInv, [ObservationsNext]_observationsVars
      PROVE  [sightings' = sightings /\ Definition' = Definition
                => \A cutoff \in 1 .. now : Admitted(cutoff) \subseteq Admitted(cutoff)']_observationsVars
  BY <1>1, NothingWithdrawn
<1> QED
  BY <1>1, ObservationsInvariance, HealthAlwaysTells, PTL DEF ObservationsSpec, FailuresWithdrawNothing

----------------------------------------------------------------------------
(* The card.                                                               *)

Success(id) == Health(RunsOf(id)).success
Previous(id) == Health(RunsOf(id)).previous
GivenAt(t) == UNION { Replies(id, t) : id \in Definition }

LEMMA GivenIs ==
  ASSUME NEW t
  PROVE  \A v : v \in GivenAt(t) <=> \E id \in Definition : Named(id, v, t)
BY RepliesAreNamed DEF GivenAt

(* The latest read is the latest success of any source in use.             *)
LEMMA LastReadIs ==
  ASSUME OInv
  PROVE  /\ LastRead(now) \in Nat
         /\ \A id \in Definition : Success(id) <= LastRead(now) /\ Success(id) \in Nat
<1> DEFINE successes == { Health(RunsOf(id)).success : id \in Definition }
           past == { t \in successes : t <= now }
<1>0. now \in Nat
  BY DEF OInv, ObservationsTypeOK
<1>1. \A id : Health(RunsOf(id)).success \in 0 .. now
  BY HealthIs
<1>2. past \subseteq Nat /\ (\A n \in past : n <= now)
  BY <1>0, <1>1
<1>3. LastRead(now) = Latest(past)
  BY DEF LastRead
<1>4. \A id \in Definition : Success(id) \in past /\ Success(id) \in Nat
  BY <1>0, <1>1 DEF Success
<1> HIDE DEF past
<1>5. Latest(past) \in Nat /\ \A n \in past : n <= Latest(past)
  BY <1>0, <1>2, LatestIs
<1> QED
  BY <1>3, <1>4, <1>5

(* Every value in use has its stamps between its first and its last naming.*)
StampsTell ==
  /\ \A r \in ActiveStamps :
       /\ r.first \in 1 .. now /\ r.last \in 1 .. now
       /\ Named(Of(r), r.value, r.first) /\ Named(Of(r), r.value, r.last)
       /\ r.last <= Success(Of(r)) /\ (r.last < Success(Of(r)) => r.last <= Previous(Of(r)))
       /\ Of(r) \in Definition
  /\ \A id \in Definition : \A v, t : Named(id, v, t) =>
       /\ t \in 1 .. now
       /\ \E r \in ActiveStamps : Of(r) = id /\ r.value = v /\ r.first <= t /\ t <= r.last

LEMMA StampsAlwaysTell ==
  ASSUME OInv
  PROVE  StampsTell
<1>1. ASSUME NEW r \in ActiveStamps
      PROVE  /\ r.first \in 1 .. now /\ r.last \in 1 .. now
             /\ Named(Of(r), r.value, r.first) /\ Named(Of(r), r.value, r.last)
             /\ r.last <= Success(Of(r)) /\ (r.last < Success(Of(r)) => r.last <= Previous(Of(r)))
             /\ Of(r) \in Definition
  <2>1. r \in sightings /\ Of(r) \in Definition
    BY DEF ActiveStamps
  <2> QED
    BY <2>1, SightingFacts DEF Success, Previous
<1>2. ASSUME NEW id \in Definition, NEW v, NEW t, Named(id, v, t)
      PROVE  /\ t \in 1 .. now
             /\ \E r \in ActiveStamps : Of(r) = id /\ r.value = v /\ r.first <= t /\ t <= r.last
  <2>1. PICK r \in sightings : Of(r) = id /\ r.value = v
    BY <1>2, NamedIsStored
  <2>2. t \in 1 .. now /\ r.first <= t /\ t <= r.last
    BY <1>2, <2>1, SightingFacts
  <2>3. r \in ActiveStamps
    BY <2>1 DEF ActiveStamps
  <2> QED
    BY <2>1, <2>2, <2>3
<1> QED
  BY <1>1, <1>2 DEF StampsTell

LEMMA RowsArePromised ==
  ASSUME OInv
  PROVE  { <<Of(r), r.value>> : r \in CardRows(now) } \subseteq Promised(now)
<1>0. now \in Nat
  BY DEF OInv, ObservationsTypeOK
<1> SUFFICES ASSUME NEW r \in CardRows(now) PROVE <<Of(r), r.value>> \in Promised(now)
  OBVIOUS
<1>1. r \in sightings /\ Of(r) \in Definition /\ LifecycleAt(r.until, now) = "valid"
  BY DEF CardRows, Snapshot
<1>2. now < r.until
  BY <1>1 DEF LifecycleAt
<1>3. Counts(r, Health(RunsOf(Of(r))), now)
  BY <1>1, <1>2 DEF Counts, IsFresh
<1> QED
  BY <1>0, <1>1, <1>3, CountsIsStands, PromisedIs

(* A card that shows ready for a source stands for its whole last answer.  *)
LEMMA FreshIsPromised ==
  ASSUME OInv, ListState(now) = "fresh", NEW id \in Definition, NEW v, Named(id, v, Success(id))
  PROVE  <<id, v>> \in Promised(now)
<1> DEFINE states == { SourceState(i, now) : i \in Definition }
<1>0. now \in Nat
  BY DEF OInv, ObservationsTypeOK
<1>1. states = {"ready"}
  <2>1. ListState(now) = CASE states = {} -> "none"
                           [] "failed" \in states -> "failed"
                           [] states = {"unread"} -> "never"
                           [] states = {"ready"} -> "fresh"
                           [] OTHER -> "stale"
    BY DEF ListState
  <2> HIDE DEF states
  <2> QED
    BY <2>1
<1>2. SourceState(id, now) = "ready"
  BY <1>1
<1>3. PICK r \in ActiveStamps : Of(r) = id /\ r.value = v /\ Success(id) <= r.last
  BY StampsAlwaysTell DEF StampsTell
<1>4. r \in sightings /\ r.last \in Nat /\ Success(id) \in Nat /\ r.last = Success(id)
  <2>1. r.last <= Success(id) /\ r.last \in 1 .. now
    BY <1>3, StampsAlwaysTell DEF StampsTell
  <2>2. Success(id) \in Nat
    BY LastReadIs
  <2> QED
    BY <1>0, <1>3, <2>1, <2>2 DEF ActiveStamps
<1>5. LifecycleAt(r.until, now) = "valid"
  <2> SUFFICES ASSUME LifecycleAt(r.until, now) # "valid" PROVE FALSE
    OBVIOUS
  <2>1. \E s \in sightings : /\ Of(s) = id /\ s.last = Health(RunsOf(id)).success
                            /\ LifecycleAt(s.until, now) # "valid"
    BY <1>3, <1>4 DEF Success
  <2> QED
    BY <1>2, <2>1 DEF SourceState
<1>6. now < r.until
  BY <1>5 DEF LifecycleAt
<1>7. Counts(r, Health(RunsOf(Of(r))), now)
  BY <1>5, <1>6 DEF Counts, IsFresh
<1> QED
  BY <1>0, <1>3, <1>4, <1>7, CountsIsStands, PromisedIs

LEMMA AddedIsNew ==
  ASSUME OInv, LastRead(now) # Never
  PROVE  Added(now) = GivenAt(LastRead(now)) \ UNION { GivenAt(t) : t \in 1 .. LastRead(now) - 1 }
<1> PICK at : at = LastRead(now)
  OBVIOUS
<1>0. now \in Nat /\ at \in Nat /\ StampsTell
  BY LastReadIs, StampsAlwaysTell DEF OInv, ObservationsTypeOK
<1> DEFINE of(v) == { t \in ActiveStamps : t.value = v }
           firsts(v) == { r.first : r \in of(v) }
<1>1. Added(now) = { v \in { r.value : r \in ActiveStamps } : Min(firsts(v)) = at }
  BY DEF Added
<1>2. ASSUME NEW v, NEW r \in ActiveStamps, r.value = v
      PROVE  /\ firsts(v) \subseteq 1 .. now
             /\ Min(firsts(v)) \in firsts(v) /\ \A n \in firsts(v) : Min(firsts(v)) <= n
  <2>1. firsts(v) \subseteq 1 .. now /\ firsts(v) # {}
    BY <1>0, <1>2 DEF StampsTell
  <2> HIDE DEF firsts
  <2>2. firsts(v) \subseteq Nat
    BY <1>0, <2>1
  <2> QED
    BY <2>1, <2>2, MinIs
<1>3. ASSUME NEW v \in Added(now)
      PROVE  v \in GivenAt(at) /\ \A t \in 1 .. at - 1 : v \notin GivenAt(t)
  <2>1. PICK r \in ActiveStamps : r.value = v /\ r.first = at
    BY <1>1, <1>2
  <2>2. Named(Of(r), v, at) /\ Of(r) \in Definition
    BY <1>0, <2>1 DEF StampsTell
  <2>3. ASSUME NEW t \in 1 .. at - 1, v \in GivenAt(t) PROVE FALSE
    <3>1. PICK id \in Definition : Named(id, v, t)
      BY <2>3, GivenIs
    <3>2. PICK s \in ActiveStamps : s.value = v /\ s.first <= t
      BY <1>0, <3>1 DEF StampsTell
    <3>3. s.first \in firsts(v) /\ Min(firsts(v)) = at /\ firsts(v) \subseteq 1 .. now
      BY <1>1, <1>2, <3>2
    <3>4. at <= s.first /\ s.first \in 1 .. now
      BY <1>2, <2>1, <3>3
    <3> QED
      BY <1>0, <2>3, <3>2, <3>4
  <2> QED
    BY <2>2, <2>3, GivenIs
<1>4. ASSUME NEW v \in GivenAt(at), \A t \in 1 .. at - 1 : v \notin GivenAt(t)
      PROVE  v \in Added(now)
  <2>1. PICK id \in Definition : Named(id, v, at)
    BY GivenIs
  <2>2. PICK r \in ActiveStamps : Of(r) = id /\ r.value = v /\ r.first <= at
    BY <1>0, <2>1 DEF StampsTell
  <2>3. ASSUME NEW s \in ActiveStamps, s.value = v PROVE at <= s.first /\ s.first \in Nat
    <3>1. s.first \in 1 .. now /\ Named(Of(s), v, s.first) /\ Of(s) \in Definition
      BY <1>0, <2>3 DEF StampsTell
    <3>2. v \in GivenAt(s.first)
      BY <3>1, GivenIs
    <3>3. s.first \notin 1 .. at - 1
      BY <1>4, <3>2
    <3> QED
      BY <1>0, <3>1, <3>3
  <2>4. r.first = at
    <3>1. at <= r.first /\ r.first \in Nat
      BY <2>2, <2>3
    <3> QED
      BY <1>0, <2>2, <3>1
  <2>5. at \in firsts(v) /\ \A n \in firsts(v) : at <= n /\ n \in Nat
    BY <2>2, <2>3, <2>4
  <2>6. Min(firsts(v)) = at
    <3> PICK m : m = Min(firsts(v))
      OBVIOUS
    <3>1. m \in firsts(v) /\ \A n \in firsts(v) : m <= n
      BY <1>2, <2>2
    <3>2. m <= at /\ at <= m /\ m \in Nat
      BY <2>5, <3>1
    <3>3. m = at
      BY <1>0, <3>2
    <3> QED
      BY <3>3
  <2> QED
    BY <1>1, <2>2, <2>6
<1>5. \A v : v \in UNION { GivenAt(t) : t \in 1 .. at - 1 } <=> \E t \in 1 .. at - 1 : v \in GivenAt(t)
  OBVIOUS
<1>6. \A v : v \in Added(now) <=> v \in GivenAt(at) /\ \A t \in 1 .. at - 1 : v \notin GivenAt(t)
  BY <1>3, <1>4
<1>7. \A v : v \in Added(now) <=> v \in GivenAt(at) \ UNION { GivenAt(t) : t \in 1 .. at - 1 }
  BY <1>5, <1>6
<1> QED
  BY <1>7

LEMMA RemovedIsGone ==
  ASSUME OInv, LastRead(now) # Never
  PROVE  Removed(now) = (UNION { Replies(id, Previous(id)) : id \in ReadLast(now) }) \ GivenAt(LastRead(now))
<1> PICK at : at = LastRead(now)
  OBVIOUS
<1>0. now \in Nat /\ at \in Nat /\ StampsTell /\ \A id \in Definition : Success(id) <= at /\ Success(id) \in Nat
  BY LastReadIs, StampsAlwaysTell DEF OInv, ObservationsTypeOK
<1>r. \A id : id \in ReadLast(now) <=> id \in Definition /\ Success(id) = at
  BY DEF ReadLast, Success
<1>1. ASSUME NEW v
      PROVE  v \in { r.value : r \in { t \in ActiveStamps : t.last = at } } <=> v \in GivenAt(at)
  <2>1. ASSUME NEW r \in ActiveStamps, r.last = at, r.value = v PROVE v \in GivenAt(at)
    BY <1>0, <2>1, GivenIs DEF StampsTell
  <2>2. ASSUME v \in GivenAt(at) PROVE \E r \in ActiveStamps : r.last = at /\ r.value = v
    <3>1. PICK id \in Definition : Named(id, v, at)
      BY <2>2, GivenIs
    <3>2. PICK r \in ActiveStamps : Of(r) = id /\ r.value = v /\ at <= r.last
      BY <1>0, <3>1 DEF StampsTell
    <3>3. r.last <= Success(id) /\ r.last \in 1 .. now /\ Success(id) <= at /\ Success(id) \in Nat
      BY <1>0, <3>2 DEF StampsTell
    <3> QED
      BY <1>0, <3>2, <3>3
  <2> QED
    BY <2>1, <2>2
<1> DEFINE before == { r.value : r \in { t \in ActiveStamps :
                          /\ Of(t) \in ReadLast(now)
                          /\ Health(RunsOf(Of(t))).previous # Never
                          /\ t.last = Health(RunsOf(Of(t))).previous } }
           replied == UNION { Replies(id, Previous(id)) : id \in ReadLast(now) }
<1>2. ASSUME NEW v \in before PROVE v \in replied
  <2>1. PICK r \in ActiveStamps : Of(r) \in ReadLast(now) /\ r.last = Previous(Of(r)) /\ r.value = v
    BY DEF Previous
  <2>2. Named(Of(r), v, Previous(Of(r)))
    BY <1>0, <2>1 DEF StampsTell
  <2> QED
    BY <2>1, <2>2, RepliesAreNamed
<1>3. ASSUME NEW v \in replied, v \notin GivenAt(at) PROVE v \in before
  <2>1. PICK id \in ReadLast(now) : Named(id, v, Previous(id))
    BY RepliesAreNamed
  <2>2. id \in Definition /\ Success(id) = at
    BY <1>r
  <2>3. Previous(id) \in 1 .. now
    BY <1>0, <2>1, <2>2 DEF StampsTell
  <2>4. PICK r \in ActiveStamps : Of(r) = id /\ r.value = v /\ Previous(id) <= r.last
    BY <1>0, <2>1, <2>2 DEF StampsTell
  <2>5. /\ r.last \in 1 .. now /\ r.last <= at /\ Named(id, v, r.last)
        /\ r.last < at => r.last <= Previous(id)
    BY <1>0, <2>2, <2>4 DEF StampsTell
  <2>6. r.last # at
    BY <1>3, <2>2, <2>5, GivenIs
  <2>7. r.last = Previous(id)
    BY <1>0, <2>3, <2>4, <2>5, <2>6
  <2>8. Previous(id) # Never
    BY <1>0, <2>3 DEF Never
  <2> QED
    BY <2>4, <2>7, <2>8 DEF Previous
<1>4. Removed(now) = before \ { r.value : r \in { t \in ActiveStamps : t.last = at } }
  BY DEF Removed
<1>5. \A v : v \in before => v \in replied
  BY <1>2
<1>6. \A v : v \in replied /\ v \notin GivenAt(at) => v \in before
  BY <1>3
<1> DEFINE reported == { r.value : r \in { t \in ActiveStamps : t.last = at } }
<1>7. \A v : v \in reported <=> v \in GivenAt(at)
  BY <1>1
<1>8. Removed(now) = before \ reported
  BY <1>4
<1> HIDE DEF before, replied, reported
<1>9. Removed(now) = replied \ GivenAt(at)
  BY <1>5, <1>6, <1>7, <1>8
<1>10. Removed(now) = replied \ GivenAt(LastRead(now))
  BY <1>9
<1> QED
  BY <1>10, Zenon DEF replied

LEMMA CardFromInvariant ==
  ASSUME OInv
  PROVE  CardTellsTheLatestRead
<1>1. { <<Of(r), r.value>> : r \in CardRows(now) } \subseteq Promised(now)
  BY RowsArePromised
<1>2. ListState(now) = "fresh" =>
        \A id \in Definition : { <<id, v>> : v \in Replies(id, Health(RunsOf(id)).success) } \subseteq Promised(now)
  BY FreshIsPromised, RepliesAreNamed DEF Success
<1>3. LastRead(now) # Never =>
        /\ Added(now) = GivenAt(LastRead(now)) \ UNION { GivenAt(t) : t \in 1 .. LastRead(now) - 1 }
        /\ Removed(now) = (UNION { Replies(id, Health(RunsOf(id)).previous) : id \in ReadLast(now) })
                             \ GivenAt(LastRead(now))
  BY AddedIsNew, RemovedIsGone DEF Previous
<1> QED
  BY <1>1, <1>2, <1>3, Zenon DEF CardTellsTheLatestRead, GivenAt

(* What the card of a list says of the latest read is so                   *)
(* (categoryObservations, ListLastSourceRead, ListReadChanges).            *)
THEOREM CardIsTrue == ObservationsSpec => []CardTellsTheLatestRead
BY ObservationsInvariance, CardFromInvariant, PTL

=============================================================================
