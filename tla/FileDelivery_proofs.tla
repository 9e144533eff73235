------------------------- MODULE FileDelivery_proofs -------------------------
(***************************************************************************)
(* Proofs about published files: what a local run says of itself, that an  *)
(* import replaces what was there, and that an accepted file is the only   *)
(* one that says what it says.                                             *)
(***************************************************************************)
EXTENDS FileDelivery, FiniteSetTheorems, SequenceTheorems, WellFoundedInduction, TLAPS

-----------------------------------------------------------------------------
(* The local run.                                                            *)

\* What a file can hold: nothing, a part, what somebody else wrote, or what a
\* build of this or of an earlier release wrote.
Contents ==
  {Absent, Torn} \cup Foreign
    \cup (UNION {{Render(f, p, Output) : p \in Plans[f]} : f \in Formats})
    \cup {RenderScript(ProjectScript(p), TRUE) : p \in Plans["script"]}

Phases == {"idle", "backup", "deploy", "create", "write", "rename", "verify", "rollback"}
Results == {"none", "running", "applied", "failed", "rolled back", "rollback failed", "crashed"}

Runs ==
  [phase : Phases, path : Paths \cup {0}, artifact : Contents, backup : Contents, temporary : Contents,
   restoring : BOOLEAN, cancelled : BOOLEAN, result : Results, found : [Paths -> Contents], touched : BOOLEAN]

LocalTypeOK ==
  /\ target \in Formats /\ plan \in Plans[target] /\ file \in Contents
  /\ disk \in [Paths -> Contents] /\ op \in Runs

\* Where a run is, what it has kept and what it has done by then.
RunTells ==
  /\ op.phase = "idle" => op.result # "running"
  /\ op.phase # "idle" => op.result = "running"
  /\ op.result # "none" => op.path \in Paths
  /\ op.phase \in {"backup", "deploy", "verify", "rollback"} => ~op.restoring
  /\ op.phase \in {"deploy", "create", "write", "rename", "verify", "rollback"} /\ ~op.touched =>
       op.backup = op.found[op.path]
  /\ op.phase = "rename" => op.temporary = Wanted
  /\ op.phase \in {"backup", "deploy", "create", "write", "rename"} /\ ~op.restoring /\ ~op.touched => disk = op.found
  /\ op.phase = "verify" /\ ~op.touched => disk = [op.found EXCEPT ![op.path] = op.artifact]
  /\ op.phase # "idle" /\ ~op.touched => disk \in {op.found, [op.found EXCEPT ![op.path] = op.artifact]}
  /\ op.phase = "idle" => OutcomeIsTold

RunInv == LocalTypeOK /\ RunTells

LEMMA RenderedIsContent ==
  ASSUME NEW f \in Formats, NEW p \in Plans[f]
  PROVE  /\ Render(f, p, Output) \in Contents
         /\ f = "script" => RenderScript(ProjectScript(p), TRUE) \in Contents
<1> DEFINE of(g) == {Render(g, q, Output) : q \in Plans[g]}
<1>1. Render(f, p, Output) \in of(f)
  OBVIOUS
<1>2. Render(f, p, Output) \in UNION {of(g) : g \in Formats}
  <2> HIDE DEF of
  <2> QED
    BY <1>1
<1>3. f = "script" => RenderScript(ProjectScript(p), TRUE) \in {RenderScript(ProjectScript(q), TRUE) : q \in Plans["script"]}
  OBVIOUS
<1> QED
  BY <1>2, <1>3 DEF Contents

LEMMA PublishedIsContent ==
  ASSUME LocalTypeOK, Publish \/ PublishedBefore
  PROVE  file' \in Contents
<1>1. target \in Formats /\ plan \in Plans[target]
  BY DEF LocalTypeOK
<1> QED
  BY <1>1, RenderedIsContent DEF Publish, PublishedBefore

LEMMA SmallContents ==
  Absent \in Contents /\ Torn \in Contents /\ Foreign \subseteq Contents
BY DEF Contents

LEMMA OnePath ==
  ASSUME NEW config \in SUBSET Paths, Cardinality(config) = 1
  PROVE  (CHOOSE p \in config : TRUE) \in Paths
<1>1. config # {}
  BY FS_EmptySet
<1> QED
  BY <1>1

LEMMA InitRun == Init => RunInv
<1> SUFFICES ASSUME Init PROVE RunInv
  OBVIOUS
<1> USE SmallContents
<1>1. disk \in [Paths -> Contents]
  BY DEF Init
<1>2. op = [phase |-> "idle", path |-> 0, artifact |-> Absent, backup |-> Absent, temporary |-> Absent, restoring |-> FALSE,
            cancelled |-> FALSE, result |-> "none", found |-> disk, touched |-> FALSE]
  BY DEF Init, Idle
<1>3. op \in Runs
  BY <1>1, <1>2 DEF Runs, Phases, Results
<1>4. target \in Formats /\ plan \in Plans[target] /\ file \in Contents
  BY DEF Init
<1>5. RunTells
  BY <1>2 DEF RunTells, OutcomeIsTold, Wanted
<1> QED
  BY <1>1, <1>3, <1>4, <1>5 DEF RunInv, LocalTypeOK

LEMMA LocalKeepsRun ==
  ASSUME RunInv, UNCHANGED localVars, target' \in Formats, plan' \in Plans[target'], file' \in Contents
  PROVE  RunInv'
<1>1. op' = op /\ disk' = disk
  BY DEF localVars
<1>2. LocalTypeOK'
  BY <1>1 DEF RunInv, LocalTypeOK
<1>3. OutcomeIsTold' <=> OutcomeIsTold
  BY <1>1 DEF OutcomeIsTold
<1>4. RunTells'
  BY <1>1, <1>3 DEF RunInv, RunTells, Wanted
<1> QED
  BY <1>2, <1>4 DEF RunInv

LEMMA BuildsKeepRun ==
  ASSUME RunInv, Replan \/ Publish \/ PublishedBefore
  PROVE  RunInv'
<1>1. file' \in Contents
  BY PublishedIsContent DEF Replan, RunInv, LocalTypeOK
<1> QED
  BY <1>1, LocalKeepsRun DEF RunInv, LocalTypeOK, Replan, Publish, PublishedBefore, localVars

LEMMA WriterKeepsRun ==
  ASSUME RunInv, NEW p \in Paths \ Relative, NEW content \in Foreign, OperatorWrites(p, content)
  PROVE  RunInv'
<1>1. op' = [op EXCEPT !.touched = TRUE] /\ disk' = [disk EXCEPT ![p] = content] /\ UNCHANGED fileVars
  BY DEF OperatorWrites
<1>2. op \in Runs /\ disk \in [Paths -> Contents] /\ content \in Contents
  BY SmallContents DEF RunInv, LocalTypeOK
<1>3. op' \in Runs /\ disk' \in [Paths -> Contents]
  BY <1>1, <1>2 DEF Runs
<1>4. LocalTypeOK'
  BY <1>1, <1>3 DEF RunInv, LocalTypeOK, fileVars
<1>5. op'.touched
  BY <1>1, <1>2 DEF Runs
<1>6. OutcomeIsTold'
  BY <1>5 DEF OutcomeIsTold
<1>7. RunTells'
  BY <1>1, <1>2, <1>5, <1>6 DEF RunInv, RunTells, Runs, Wanted
<1> QED
  BY <1>4, <1>7 DEF RunInv

LEMMA ProbeKeepsRun ==
  ASSUME RunInv, NEW config \in SUBSET Paths, Probe(config)
  PROVE  RunInv'
<1> DEFINE path == CHOOSE p \in config : TRUE
<1>1. path \in Paths
  BY OnePath DEF Probe
<1>2. disk \in [Paths -> Contents] /\ file \in Contents /\ Absent \in Contents
  BY SmallContents DEF RunInv, LocalTypeOK
<1>3. disk' = disk /\ UNCHANGED fileVars
  BY DEF Probe, LocalStep
<1>4. op' = [phase |-> "backup", path |-> path, artifact |-> file, backup |-> Absent, temporary |-> Absent,
             restoring |-> FALSE, cancelled |-> FALSE, result |-> "running", found |-> disk, touched |-> FALSE]
  BY DEF Probe, LocalStep, Idle
<1> HIDE DEF path
<1>5. op' \in Runs
  BY <1>1, <1>2, <1>4 DEF Runs, Phases, Results
<1>6. LocalTypeOK'
  BY <1>3, <1>5 DEF RunInv, LocalTypeOK, fileVars
<1>7. RunTells'
  BY <1>1, <1>3, <1>4 DEF RunTells
<1> QED
  BY <1>6, <1>7 DEF RunInv

LEMMA EndKeepsType ==
  ASSUME LocalTypeOK, NEW result \in Results
  PROVE  End(result) \in Runs
BY SmallContents DEF LocalTypeOK, End, Runs, Phases

LEMMA UndoKeepsType ==
  ASSUME LocalTypeOK
  PROVE  Undo(op) \in Runs
BY SmallContents DEF LocalTypeOK, Undo, Runs, Phases

\* A run may end wherever what it says of itself is so.
LEMMA EndKeepsRun ==
  ASSUME RunInv, NEW result \in Results \ {"running"}, LocalStep(End(result)), disk' \in [Paths -> Contents],
         op.path \in Paths,
         op.touched \/ (/\ result = "applied" => disk' = [op.found EXCEPT ![op.path] = op.artifact]
                        /\ result \in {"failed", "rolled back"} => disk' = op.found
                        /\ result \in {"crashed", "rollback failed"} =>
                             disk' \in {op.found, [op.found EXCEPT ![op.path] = op.artifact]})
  PROVE  RunInv'
<1>0. op \in Runs
  BY DEF RunInv, LocalTypeOK
<1>1. op' = [op EXCEPT !.phase = "idle", !.temporary = Absent, !.result = result] /\ UNCHANGED fileVars
  BY DEF LocalStep, End
<1>2. /\ op'.phase = "idle" /\ op'.result = result /\ op'.path = op.path /\ op'.found = op.found
      /\ op'.artifact = op.artifact /\ op'.touched = op.touched
  BY <1>0, <1>1 DEF Runs
<1>3. LocalTypeOK'
  BY <1>1, EndKeepsType DEF RunInv, LocalTypeOK, fileVars, LocalStep
<1>4. OutcomeIsTold'
  <2>1. op.found = [op.found EXCEPT ![op.path] = op.found[op.path]]
    BY <1>0 DEF Runs
  <2> QED
    BY <1>2, <2>1 DEF OutcomeIsTold, Results
<1>5. RunTells'
  BY <1>2, <1>4 DEF RunTells
<1> QED
  BY <1>3, <1>5 DEF RunInv

\* What goes wrong after the backup leads to its being put back.
LEMMA UndoKeepsRun ==
  ASSUME RunInv, op.phase \in {"deploy", "create", "write", "rename", "verify"}, ~op.restoring,
         LocalStep(Undo(op)), disk' = disk
  PROVE  RunInv'
<1>0. op \in Runs
  BY DEF RunInv, LocalTypeOK
<1>1. op' = [op EXCEPT !.phase = "rollback", !.temporary = Absent] /\ UNCHANGED fileVars
  BY DEF LocalStep, Undo
<1>2. /\ op'.phase = "rollback" /\ op'.result = op.result /\ op'.path = op.path /\ op'.found = op.found
      /\ op'.artifact = op.artifact /\ op'.touched = op.touched /\ op'.restoring = op.restoring
      /\ op'.backup = op.backup
  BY <1>0, <1>1 DEF Runs
<1>3. LocalTypeOK'
  BY <1>1, UndoKeepsType DEF RunInv, LocalTypeOK, fileVars, LocalStep
<1>4. RunTells'
  BY <1>2 DEF RunInv, RunTells
<1> QED
  BY <1>3, <1>4 DEF RunInv

LEMMA CancelKeepsRun ==
  ASSUME RunInv, Cancel
  PROVE  RunInv'
<1>0. op \in Runs
  BY DEF RunInv, LocalTypeOK
<1>1. op' = [op EXCEPT !.cancelled = TRUE] /\ UNCHANGED fileVars /\ disk' = disk /\ op.phase # "idle"
  BY DEF Cancel, LocalStep
<1>2. /\ op'.phase = op.phase /\ op'.result = op.result /\ op'.path = op.path /\ op'.found = op.found
      /\ op'.artifact = op.artifact /\ op'.touched = op.touched /\ op'.restoring = op.restoring
      /\ op'.backup = op.backup /\ op'.temporary = op.temporary /\ op' \in Runs
  BY <1>0, <1>1 DEF Runs
<1> QED
  BY <1>1, <1>2 DEF RunInv, LocalTypeOK, RunTells, Wanted, fileVars

LEMMA BackupKeepsRun ==
  ASSUME RunInv, Backup
  PROVE  RunInv'
<1>0. op \in Runs /\ disk \in [Paths -> Contents]
  BY DEF RunInv, LocalTypeOK
<1>1. op.phase = "backup" /\ disk' = disk /\ op.path \in Paths /\ ~op.restoring /\ op.result = "running"
      /\ (op.touched \/ disk = op.found)
  BY DEF Backup, RunInv, RunTells
<1>2. CASE LocalStep(End("failed"))
  BY <1>0, <1>1, <1>2, EndKeepsRun DEF Results
<1>3. CASE LocalStep([op EXCEPT !.phase = "deploy", !.backup = disk[op.path]])
  <2>1. op' = [op EXCEPT !.phase = "deploy", !.backup = disk[op.path]] /\ UNCHANGED fileVars
    BY <1>3 DEF LocalStep
  <2>2. disk[op.path] \in Contents
    BY <1>0, <1>1
  <2>3. /\ op'.phase = "deploy" /\ op'.result = op.result /\ op'.path = op.path /\ op'.found = op.found
        /\ op'.artifact = op.artifact /\ op'.touched = op.touched /\ op'.restoring = op.restoring
        /\ op'.backup = disk[op.path] /\ op' \in Runs
    BY <1>0, <2>1, <2>2 DEF Runs, Phases
  <2> QED
    BY <1>1, <2>1, <2>3 DEF RunInv, LocalTypeOK, RunTells, fileVars
<1> QED
  BY <1>2, <1>3 DEF Backup

\* A step of the run that leaves the disk and moves it on.
LEMMA MoveKeepsRun ==
  ASSUME RunInv, disk' = disk, UNCHANGED fileVars, NEW temporary \in Contents,
         NEW from0 \in {"deploy", "create", "write"}, NEW to \in {"create", "write", "rename"},
         op.phase = from0, to = "rename" => temporary = Wanted,
         op' = [op EXCEPT !.phase = to, !.temporary = temporary]
  PROVE  RunInv'
<1>0. op \in Runs
  BY DEF RunInv, LocalTypeOK
<1>1. /\ op'.phase = to /\ op'.result = op.result /\ op'.path = op.path /\ op'.found = op.found
      /\ op'.artifact = op.artifact /\ op'.touched = op.touched /\ op'.restoring = op.restoring
      /\ op'.backup = op.backup /\ op'.temporary = temporary /\ op' \in Runs
  BY <1>0 DEF Runs, Phases
<1>2. RunTells'
  BY <1>1 DEF RunInv, RunTells, Wanted
<1> QED
  BY <1>1, <1>2 DEF RunInv, LocalTypeOK, fileVars

LEMMA WriteFailsKeepsRun ==
  ASSUME RunInv, WriteFails, op.phase \in {"create", "write", "rename"}
  PROVE  RunInv'
<1>0. op \in Runs /\ disk \in [Paths -> Contents]
  BY DEF RunInv, LocalTypeOK
<1>1. disk' = disk /\ op.path \in Paths
      /\ (op.touched \/ disk \in {op.found, [op.found EXCEPT ![op.path] = op.artifact]})
  BY DEF WriteFails, RunInv, RunTells
<1>2. CASE op.restoring
  <2>1. LocalStep(End("rollback failed"))
    BY <1>2 DEF WriteFails
  <2> QED
    BY <1>0, <1>1, <2>1, EndKeepsRun DEF Results
<1>3. CASE ~op.restoring
  BY <1>1, <1>3, UndoKeepsRun DEF WriteFails
<1> QED
  BY <1>2, <1>3

LEMMA DeployKeepsRun ==
  ASSUME RunInv, Deploy
  PROVE  RunInv'
<1>0. op \in Runs
  BY DEF RunInv, LocalTypeOK
<1>1. op.phase = "deploy" /\ disk' = disk /\ ~op.restoring
  BY DEF Deploy, RunInv, RunTells
<1>2. CASE op.cancelled \/ ~Parse("ruleset", op.artifact)
  BY <1>1, <1>2, UndoKeepsRun DEF Deploy
<1>3. CASE ~(op.cancelled \/ ~Parse("ruleset", op.artifact))
  <2>1. op' = [op EXCEPT !.phase = "create"] /\ UNCHANGED fileVars
    BY <1>3 DEF Deploy, LocalStep
  <2>2. op' = [op EXCEPT !.phase = "create", !.temporary = op.temporary] /\ op.temporary \in Contents
    BY <1>0, <2>1 DEF Runs
  <2> QED
    BY <1>1, <2>1, <2>2, MoveKeepsRun
<1> QED
  BY <1>2, <1>3

LEMMA CreateKeepsRun ==
  ASSUME RunInv, CreateTemporary
  PROVE  RunInv'
<1>1. op.phase = "create"
  BY DEF CreateTemporary
<1>2. CASE WriteFails
  BY <1>1, <1>2, WriteFailsKeepsRun
<1>3. CASE LocalStep([op EXCEPT !.phase = "write", !.temporary = Torn]) /\ disk' = disk
  <2>1. op' = [op EXCEPT !.phase = "write", !.temporary = Torn] /\ UNCHANGED fileVars
    BY <1>3 DEF LocalStep
  <2> QED
    BY <1>1, <1>3, <2>1, MoveKeepsRun, SmallContents
<1> QED
  BY <1>2, <1>3 DEF CreateTemporary

LEMMA WriteKeepsRun ==
  ASSUME RunInv, WriteTemporary
  PROVE  RunInv'
<1>1. op.phase = "write"
  BY DEF WriteTemporary
<1>2. CASE WriteFails
  BY <1>1, <1>2, WriteFailsKeepsRun
<1>3. CASE LocalStep([op EXCEPT !.phase = "rename", !.temporary = Wanted]) /\ disk' = disk
  <2>1. op' = [op EXCEPT !.phase = "rename", !.temporary = Wanted] /\ UNCHANGED fileVars
    BY <1>3 DEF LocalStep
  <2>2. Wanted \in Contents
    BY DEF Wanted, RunInv, LocalTypeOK, Runs
  <2> QED
    BY <1>1, <1>3, <2>1, <2>2, MoveKeepsRun
<1> QED
  BY <1>2, <1>3 DEF WriteTemporary

\* The rename puts the artifact there, or, when it is undone, what was there.
LEMMA RenameKeepsRun ==
  ASSUME RunInv, Rename
  PROVE  RunInv'
<1>0. op \in Runs /\ disk \in [Paths -> Contents]
  BY DEF RunInv, LocalTypeOK
<1>1. op.phase = "rename" /\ op.path \in Paths /\ op.temporary = Wanted /\ op.temporary \in Contents
  BY <1>0 DEF Rename, RunInv, RunTells, Runs
<1>2. CASE WriteFails
  BY <1>1, <1>2, WriteFailsKeepsRun
<1>3. CASE disk' = [disk EXCEPT ![op.path] = op.temporary] /\ op.restoring /\ LocalStep(End("rolled back"))
  <2>1. disk' \in [Paths -> Contents]
    BY <1>0, <1>1, <1>3
  <2>2. CASE ~op.touched
    <3>1. op.temporary = op.found[op.path]
      BY <1>1, <1>3, <2>2 DEF RunInv, RunTells, Wanted
    <3>2. disk \in {op.found, [op.found EXCEPT ![op.path] = op.artifact]} /\ op.found \in [Paths -> Contents]
      BY <1>0, <1>1, <2>2 DEF RunInv, RunTells, Runs
    <3>3. disk' = op.found
      BY <1>1, <1>3, <3>1, <3>2
    <3> QED
      BY <1>1, <1>3, <2>1, <3>3, EndKeepsRun DEF Results
  <2>3. CASE op.touched
    BY <1>1, <1>3, <2>1, <2>3, EndKeepsRun DEF Results
  <2> QED
    BY <2>2, <2>3, <1>0 DEF Runs
<1>4. CASE /\ disk' = [disk EXCEPT ![op.path] = op.temporary] /\ ~op.restoring
           /\ LocalStep([op EXCEPT !.phase = "verify", !.temporary = Absent])
  <2>1. op' = [op EXCEPT !.phase = "verify", !.temporary = Absent] /\ UNCHANGED fileVars
    BY <1>4 DEF LocalStep
  <2>2. /\ op'.phase = "verify" /\ op'.result = op.result /\ op'.path = op.path /\ op'.found = op.found
        /\ op'.artifact = op.artifact /\ op'.touched = op.touched /\ op'.restoring = op.restoring
        /\ op'.backup = op.backup /\ op' \in Runs
    BY <1>0, <2>1, SmallContents DEF Runs, Phases
  <2>3. op.temporary = op.artifact
    BY <1>1, <1>4 DEF Wanted
  <2>4. ~op.touched => disk = op.found
    BY <1>1, <1>4 DEF RunInv, RunTells
  <2>5. disk' \in [Paths -> Contents]
    BY <1>0, <1>1, <1>4
  <2>6. LocalTypeOK'
    BY <2>1, <2>2, <2>5 DEF RunInv, LocalTypeOK, fileVars
  <2>7. RunTells'
    BY <1>1, <1>4, <2>2, <2>3, <2>4 DEF RunInv, RunTells
  <2> QED
    BY <2>6, <2>7 DEF RunInv
<1> QED
  BY <1>2, <1>3, <1>4 DEF Rename

LEMMA VerifyKeepsRun ==
  ASSUME RunInv, Verify
  PROVE  RunInv'
<1>0. op \in Runs /\ disk \in [Paths -> Contents]
  BY DEF RunInv, LocalTypeOK
<1>1. /\ op.phase = "verify" /\ op.path \in Paths /\ disk' = disk /\ ~op.restoring
      /\ (op.touched \/ disk = [op.found EXCEPT ![op.path] = op.artifact])
  BY DEF Verify, RunInv, RunTells
<1>2. CASE LocalStep(End("applied"))
  BY <1>0, <1>1, <1>2, EndKeepsRun DEF Results
<1>3. CASE LocalStep(Undo(op))
  BY <1>1, <1>3, UndoKeepsRun
<1> QED
  BY <1>2, <1>3 DEF Verify

LEMMA RollbackKeepsRun ==
  ASSUME RunInv, Rollback
  PROVE  RunInv'
<1>0. op \in Runs /\ disk \in [Paths -> Contents]
  BY DEF RunInv, LocalTypeOK
<1>1. /\ op.phase = "rollback" /\ op.path \in Paths
      /\ (op.touched \/ /\ op.backup = op.found[op.path]
                        /\ disk \in {op.found, [op.found EXCEPT ![op.path] = op.artifact]})
  BY DEF Rollback, RunInv, RunTells
<1>2. CASE op.backup = Absent /\ disk' = [disk EXCEPT ![op.path] = Absent] /\ LocalStep(End("rolled back"))
  <2>1. disk' \in [Paths -> Contents]
    BY <1>0, <1>1, <1>2, SmallContents
  <2>2. op.touched \/ disk' = op.found
    <3>1. op.found \in [Paths -> Contents]
      BY <1>0 DEF Runs
    <3> QED
      BY <1>1, <1>2, <3>1
  <2> QED
    BY <1>1, <1>2, <2>1, <2>2, EndKeepsRun DEF Results
<1>3. CASE disk' = disk /\ LocalStep([op EXCEPT !.phase = "create", !.restoring = TRUE])
  <2>1. op' = [op EXCEPT !.phase = "create", !.restoring = TRUE] /\ UNCHANGED fileVars
    BY <1>3 DEF LocalStep
  <2>2. /\ op'.phase = "create" /\ op'.result = op.result /\ op'.path = op.path /\ op'.found = op.found
        /\ op'.artifact = op.artifact /\ op'.touched = op.touched /\ op'.restoring
        /\ op'.backup = op.backup /\ op' \in Runs
    BY <1>0, <2>1 DEF Runs, Phases
  <2> QED
    BY <1>1, <1>3, <2>1, <2>2 DEF RunInv, LocalTypeOK, RunTells, fileVars
<1>4. CASE disk' = disk /\ LocalStep(End("rollback failed"))
  <2>1. disk' \in [Paths -> Contents]
    BY <1>0, <1>4
  <2> QED
    BY <1>1, <1>4, <2>1, EndKeepsRun DEF Results
<1> QED
  BY <1>2, <1>3, <1>4 DEF Rollback

LEMMA CrashKeepsRun ==
  ASSUME RunInv, Crash
  PROVE  RunInv'
<1>1. /\ op.phase # "idle" /\ op.path \in Paths /\ disk' = disk
      /\ (op.touched \/ disk \in {op.found, [op.found EXCEPT ![op.path] = op.artifact]})
  BY DEF Crash, RunInv, RunTells
<1>2. disk' \in [Paths -> Contents]
  BY <1>1 DEF RunInv, LocalTypeOK
<1> QED
  BY <1>1, <1>2, EndKeepsRun DEF Crash, Results

LEMMA NextKeepsRun ==
  ASSUME RunInv, [Next]_vars
  PROVE  RunInv'
<1>0. target \in Formats /\ plan \in Plans[target] /\ file \in Contents
  BY DEF RunInv, LocalTypeOK
<1>1. CASE UNCHANGED vars
  BY <1>0, <1>1, LocalKeepsRun DEF vars, fileVars
<1>2. CASE Replan \/ Publish \/ PublishedBefore
  BY <1>2, BuildsKeepRun
<1>3. CASE StartImport \/ ImportLine \/ Disconnect \/ \E family \in Families : Resolve(family)
  <2>1. UNCHANGED fileVars /\ UNCHANGED localVars
    BY <1>3 DEF StartImport, ImportLine, Disconnect, Resolve
  <2> QED
    BY <1>0, <2>1, LocalKeepsRun DEF fileVars
<1>4. CASE \E p \in Paths \ Relative, content \in Foreign : OperatorWrites(p, content)
  BY <1>4, WriterKeepsRun
<1>5. CASE \E config \in SUBSET Paths : Probe(config)
  BY <1>5, ProbeKeepsRun
<1> QED
  BY <1>1, <1>2, <1>3, <1>4, <1>5, CancelKeepsRun, BackupKeepsRun, DeployKeepsRun, CreateKeepsRun, WriteKeepsRun,
     RenameKeepsRun, VerifyKeepsRun, RollbackKeepsRun, CrashKeepsRun DEF Next

\* The files and the run are what their types say, and a run is where its record
\* says: what it found is kept from the backup on, the disk holds what was found
\* until the file is renamed, and nothing but the artifact after that.
THEOREM RunInvariance == Spec => []RunInv
<1>1. Init => RunInv
  BY InitRun
<1>2. RunInv /\ [Next]_vars => RunInv'
  BY NextKeepsRun
<1> QED
  BY <1>1, <1>2, PTL DEF Spec

\* As long as nobody else writes, what a local run says of itself is so, also one
\* that was given up, cut off or could not undo: the file is the artifact or what
\* was found, and what was found exactly where the run says so.
THEOREM RunTruth == Spec => []OutcomeIsTold
<1>1. RunInv => OutcomeIsTold
  <2>1. RunInv => op.phase \in Phases /\ op.found \in [Paths -> Contents]
    BY DEF RunInv, LocalTypeOK, Runs
  <2>2. ASSUME RunInv, op.phase # "idle" PROVE OutcomeIsTold
    <3>1. op.result = "running" /\ op.path \in Paths
      BY <2>2 DEF RunInv, RunTells
    <3>2. op.found = [op.found EXCEPT ![op.path] = op.found[op.path]]
      BY <2>1, <2>2
    <3> QED
      BY <2>2, <3>1, <3>2 DEF OutcomeIsTold, RunInv, RunTells
  <2> QED
    BY <2>2 DEF RunInv, RunTells
<1> QED
  BY <1>1, RunInvariance, PTL

-----------------------------------------------------------------------------
(* Sequences of lines, whatever a line is.                                   *)

IsSequence(s) == s \in Seq({s[i] : i \in DOMAIN s})

LEMMA SequenceIs ==
  ASSUME NEW s, IsSequence(s)
  PROVE  Len(s) \in Nat /\ DOMAIN s = 1 .. Len(s) /\ ToSet(s) = {s[i] : i \in 1 .. Len(s)}
<1>1. Len(s) \in Nat /\ DOMAIN s = 1 .. Len(s)
  BY LenProperties DEF IsSequence
<1> QED
  BY <1>1 DEF ToSet

LEMMA IsSequenceIn ==
  ASSUME NEW S, NEW s \in Seq(S)
  PROVE  IsSequence(s)
<1>1. Len(s) \in Nat /\ s \in [1 .. Len(s) -> S]
  BY LenProperties
<1> DEFINE T == {s[i] : i \in DOMAIN s}
<1>2. s \in [1 .. Len(s) -> T]
  BY <1>1
<1> HIDE DEF T
<1>3. s \in Seq(T)
  BY <1>1, <1>2
<1> QED
  BY <1>3 DEF IsSequence, T

LEMMA FunctionIsSequence ==
  ASSUME NEW n \in Nat, NEW s, DOMAIN s = 1 .. n, s = [i \in 1 .. n |-> s[i]]
  PROVE  IsSequence(s) /\ Len(s) = n
<1> DEFINE T == {s[i] : i \in DOMAIN s}
<1>1. s \in [1 .. n -> T]
  OBVIOUS
<1> HIDE DEF T
<1>2. s \in Seq(T)
  BY <1>1
<1>3. Len(s) = n
  <2>1. Len(s) \in Nat /\ DOMAIN s = 1 .. Len(s)
    BY <1>2, LenProperties
  <2> QED
    BY <2>1
<1> QED
  BY <1>2, <1>3 DEF IsSequence, T

LEMMA ConcatIs ==
  ASSUME NEW s, NEW t, IsSequence(s), IsSequence(t)
  PROVE  /\ IsSequence(s \o t) /\ Len(s \o t) = Len(s) + Len(t)
         /\ \A i \in 1 .. Len(s) : (s \o t)[i] = s[i]
         /\ \A i \in 1 .. Len(t) : (s \o t)[Len(s) + i] = t[i]
<1> DEFINE A == {s[i] : i \in DOMAIN s}
           B == {t[i] : i \in DOMAIN t}
           T == A \cup B
<1>1. s \in Seq(A) /\ t \in Seq(B)
  BY DEF IsSequence
<1> HIDE DEF A, B
<1>2. s \in Seq(T) /\ t \in Seq(T)
  BY <1>1, SeqMonotonic
<1> HIDE DEF T
<1>3. s \o t \in Seq(T) /\ Len(s \o t) = Len(s) + Len(t)
      /\ \A i \in 1 .. Len(s) + Len(t) : (s \o t)[i] = IF i <= Len(s) THEN s[i] ELSE t[i - Len(s)]
  BY <1>2, ConcatProperties
<1>4. Len(s) \in Nat /\ Len(t) \in Nat
  BY <1>2, LenProperties
<1>5. ASSUME NEW i \in 1 .. Len(s) PROVE (s \o t)[i] = s[i]
  BY <1>3, <1>4
<1>6. ASSUME NEW i \in 1 .. Len(t) PROVE (s \o t)[Len(s) + i] = t[i]
  <2>1. Len(s) + i \in 1 .. Len(s) + Len(t) /\ ~(Len(s) + i <= Len(s)) /\ Len(s) + i - Len(s) = i
    BY <1>4
  <2> QED
    BY <1>3, <2>1
<1> QED
  BY <1>3, <1>5, <1>6, IsSequenceIn

\* A sequence of n lines, and what its parts are joined to: the provers take a
\* concatenation they see apart, and this one they do not.
HasLines(s, n) == IsSequence(s) /\ n \in Nat /\ Len(s) = n
Joined(s, t) == s \o t
Single(x) == <<x>>

LEMMA JoinIs ==
  ASSUME NEW s, NEW t, NEW m, NEW n, HasLines(s, m), HasLines(t, n)
  PROVE  /\ HasLines(Joined(s, t), m + n)
         /\ \A i \in 1 .. m : Joined(s, t)[i] = s[i]
         /\ \A i \in 1 .. n : Joined(s, t)[m + i] = t[i]
<1>1. IsSequence(s) /\ IsSequence(t) /\ Len(s) = m /\ Len(t) = n /\ m \in Nat /\ n \in Nat
  BY DEF HasLines
<1>2. /\ IsSequence(s \o t) /\ Len(s \o t) = Len(s) + Len(t)
      /\ \A i \in 1 .. Len(s) : (s \o t)[i] = s[i]
      /\ \A i \in 1 .. Len(t) : (s \o t)[Len(s) + i] = t[i]
  BY <1>1, ConcatIs
<1>3. /\ IsSequence(s \o t) /\ Len(s \o t) = m + n /\ m + n \in Nat
      /\ \A i \in 1 .. m : (s \o t)[i] = s[i]
      /\ \A i \in 1 .. n : (s \o t)[m + i] = t[i]
  BY <1>1, <1>2
<1> QED
  BY <1>3 DEF HasLines, Joined

LEMMA OneLine ==
  ASSUME NEW x
  PROVE  HasLines(Single(x), 1) /\ Single(x)[1] = x
<1>1. <<x>> \in Seq({x}) /\ Len(<<x>>) = 1 /\ <<x>>[1] = x
  OBVIOUS
<1> QED
  BY <1>1, IsSequenceIn DEF Single, HasLines

LEMMA NoLine ==
  HasLines(<<>>, 0)
<1>1. <<>> \in Seq({}) /\ Len(<<>>) = 0
  OBVIOUS
<1> QED
  BY <1>1, IsSequenceIn DEF HasLines

LEMMA SubSeqIs ==
  ASSUME NEW s, IsSequence(s), NEW m \in 1 .. Len(s) + 1, NEW n \in 0 .. Len(s)
  PROVE  /\ IsSequence(SubSeq(s, m, n)) /\ Len(SubSeq(s, m, n)) = (IF m <= n THEN n - m + 1 ELSE 0)
         /\ \A i \in 1 .. n - m + 1 : SubSeq(s, m, n)[i] = s[m + i - 1]
<1> DEFINE T == {s[i] : i \in DOMAIN s}
<1>0. Len(s) \in Nat /\ DOMAIN s = 1 .. Len(s)
  BY SequenceIs
<1>1. m \in Int /\ n \in Int /\ \A i \in m .. n : s[i] \in T
  BY <1>0
<1> HIDE DEF T
<1>2. /\ SubSeq(s, m, n) \in Seq(T) /\ Len(SubSeq(s, m, n)) = (IF m <= n THEN n - m + 1 ELSE 0)
      /\ \A i \in 1 .. n - m + 1 : SubSeq(s, m, n)[i] = s[m + i - 1]
  BY <1>1, SubSeqProperties
<1> QED
  BY <1>2, IsSequenceIn

-----------------------------------------------------------------------------
(* The lines of a set of entries, and of a section of a script.              *)

LEMMA LinesAre ==
  ASSUME NEW is, NEW of, NEW entries, IsFiniteSet(entries)
  PROVE  /\ HasLines(Lines(is, of, entries), Cardinality(entries))
         /\ \A i \in 1 .. Cardinality(entries) : Lines(is, of, entries)[i] = Line(is, of, Sorted(entries)[i])
<1>1. Cardinality(entries) \in Nat
  BY FS_CardinalityType
<1> DEFINE body == Lines(is, of, entries)
<1>2. body = [i \in 1 .. Cardinality(entries) |-> Line(is, of, Sorted(entries)[i])]
  BY DEF Lines
<1>3. DOMAIN body = 1 .. Cardinality(entries) /\ body = [i \in 1 .. Cardinality(entries) |-> body[i]]
  BY <1>2
<1>4. IsSequence(body) /\ Len(body) = Cardinality(entries)
  <2> HIDE DEF body
  <2> QED
    BY <1>1, <1>3, FunctionIsSequence
<1> QED
  BY <1>1, <1>2, <1>4 DEF HasLines

Section(entries, legacy, family) ==
  IF legacy /\ entries = {} THEN <<>>
  ELSE <<Line("section", <<family>>, Nothing)>>
         \o (IF legacy THEN <<>> ELSE <<Clear(family, StaticRows)>>) \o <<Clear(family, AllRows)>>
         \o Lines("add", <<family>>, entries)

LEMMA ScriptIsSections ==
  ASSUME NEW script0, NEW legacy
  PROVE  RenderScript(script0, legacy) = Joined(Section(script0[4], legacy, 4), Section(script0[6], legacy, 6))
BY DEF RenderScript, Section, Joined

FourJoined(a, b, c, d) == Joined(Joined(Joined(a, b), c), d)

LEMMA FourParts ==
  ASSUME NEW a, NEW b, NEW c, NEW d, NEW n, HasLines(a, 1), HasLines(b, 1), HasLines(c, 1), HasLines(d, n)
  PROVE  /\ HasLines(FourJoined(a, b, c, d), 3 + n)
         /\ FourJoined(a, b, c, d)[1] = a[1]
         /\ FourJoined(a, b, c, d)[2] = b[1]
         /\ FourJoined(a, b, c, d)[3] = c[1]
         /\ \A k \in 1 .. n : FourJoined(a, b, c, d)[3 + k] = d[k]
<1>1. PICK ab : ab = Joined(a, b)
  OBVIOUS
<1>2. PICK abc : abc = Joined(ab, c)
  OBVIOUS
<1>3. PICK s : s = Joined(abc, d)
  OBVIOUS
<1>4. HasLines(ab, 2) /\ ab[1] = a[1] /\ ab[2] = b[1]
  <2>1. /\ HasLines(Joined(a, b), 1 + 1)
        /\ \A i \in 1 .. 1 : Joined(a, b)[i] = a[i]
        /\ \A i \in 1 .. 1 : Joined(a, b)[1 + i] = b[i]
    BY JoinIs
  <2> QED
    BY <1>1, <2>1
<1>5. HasLines(abc, 3) /\ abc[1] = a[1] /\ abc[2] = b[1] /\ abc[3] = c[1]
  <2>1. /\ HasLines(Joined(ab, c), 2 + 1)
        /\ \A i \in 1 .. 2 : Joined(ab, c)[i] = ab[i]
        /\ \A i \in 1 .. 1 : Joined(ab, c)[2 + i] = c[i]
    BY <1>4, JoinIs
  <2> QED
    BY <1>2, <1>4, <2>1
<1>6. /\ HasLines(s, 3 + n)
      /\ \A i \in 1 .. 3 : s[i] = abc[i]
      /\ \A k \in 1 .. n : s[3 + k] = d[k]
  BY <1>3, <1>5, JoinIs
<1>7. s[1] = a[1] /\ s[2] = b[1] /\ s[3] = c[1]
  BY <1>5, <1>6
<1>8. s = FourJoined(a, b, c, d)
  BY <1>1, <1>2, <1>3 DEF FourJoined
<1> QED
  BY <1>6, <1>7, <1>8

SectionLines(s, entries, family) ==
  /\ HasLines(s, 3 + Cardinality(entries))
  /\ s[1] = Line("section", <<family>>, Nothing)
  /\ s[2] = Clear(family, StaticRows) /\ s[3] = Clear(family, AllRows)
  /\ \A k \in 1 .. Cardinality(entries) : s[3 + k] = Line("add", <<family>>, Sorted(entries)[k])

LEMMA SectionIs ==
  ASSUME NEW entries, IsFiniteSet(entries), NEW family
  PROVE  SectionLines(Section(entries, FALSE, family), entries, family)
<1>1. PICK a : a = Single(Line("section", <<family>>, Nothing))
  OBVIOUS
<1>2. PICK b : b = Single(Clear(family, StaticRows))
  OBVIOUS
<1>3. PICK c : c = Single(Clear(family, AllRows))
  OBVIOUS
<1>4. PICK d : d = Lines("add", <<family>>, entries)
  OBVIOUS
<1>5. PICK s : s = FourJoined(a, b, c, d)
  OBVIOUS
<1>6. PICK n : n = Cardinality(entries)
  OBVIOUS
<1>7. Section(entries, FALSE, family) = s
  BY <1>1, <1>2, <1>3, <1>4, <1>5 DEF Section, FourJoined, Joined, Single
<1>8. HasLines(a, 1) /\ HasLines(b, 1) /\ HasLines(c, 1)
  BY <1>1, <1>2, <1>3, OneLine
<1>9. a[1] = Line("section", <<family>>, Nothing) /\ b[1] = Clear(family, StaticRows) /\ c[1] = Clear(family, AllRows)
  BY <1>1, <1>2, <1>3, OneLine
<1>10. HasLines(d, n)
  BY <1>4, <1>6, LinesAre
<1>11. \A k \in 1 .. n : d[k] = Line("add", <<family>>, Sorted(entries)[k])
  BY <1>4, <1>6, LinesAre
<1>12. HasLines(s, 3 + n) /\ s[1] = a[1] /\ s[2] = b[1] /\ s[3] = c[1] /\ \A k \in 1 .. n : s[3 + k] = d[k]
  BY <1>5, <1>8, <1>10, FourParts
<1>13. SectionLines(s, entries, family)
  BY <1>6, <1>9, <1>11, <1>12 DEF SectionLines
<1> QED
  BY <1>7, <1>13

LEMMA OldSectionIs ==
  ASSUME NEW entries, IsFiniteSet(entries), NEW family
  PROVE  HasLines(Section(entries, TRUE, family), IF entries = {} THEN 0 ELSE 2 + Cardinality(entries))
<1>1. CASE entries = {}
  BY <1>1, NoLine DEF Section
<1>2. CASE entries # {}
  <2> DEFINE a == Single(Line("section", <<family>>, Nothing))
             c == Single(Clear(family, AllRows))
             d == Lines("add", <<family>>, entries)
  <2>1. HasLines(a, 1) /\ HasLines(c, 1)
    BY OneLine
  <2>2. HasLines(d, Cardinality(entries))
    BY LinesAre
  <2>3. Section(entries, TRUE, family) = Joined(Joined(a, c), d)
    <3>1. a \o <<>> = a
      BY DEF Single
    <3> QED
      BY <1>2, <3>1 DEF Section, Joined, Single
  <2> HIDE DEF a, c, d
  <2>4. HasLines(Joined(a, c), 2)
    <3>1. HasLines(Joined(a, c), 1 + 1)
      BY <2>1, JoinIs
    <3> QED
      BY <3>1
  <2>5. HasLines(Joined(Joined(a, c), d), 2 + Cardinality(entries))
    BY <2>2, <2>4, JoinIs
  <2> QED
    BY <1>2, <2>3, <2>5
<1> QED
  BY <1>1, <1>2

-----------------------------------------------------------------------------
(* Finite sets.                                                              *)

LEMMA ImageIsFinite ==
  ASSUME NEW S, IsFiniteSet(S), NEW f, DOMAIN f = S, f = [x \in S |-> f[x]]
  PROVE  IsFiniteSet({f[x] : x \in S}) /\ Cardinality({f[x] : x \in S}) <= Cardinality(S)
<1> DEFINE T == {f[x] : x \in S}
<1>1. f \in [S -> T] /\ \A t \in T : \E x \in S : f[x] = t
  OBVIOUS
<1> HIDE DEF T
<1>2. f \in Surjection(S, T)
  BY <1>1 DEF Surjection
<1>3. IsFiniteSet(T) /\ Cardinality(T) <= Cardinality(S)
  BY <1>2, FS_Surjection
<1> QED
  BY <1>3 DEF T

\* A function from 1..n onto a set of n elements takes no element twice.
LEMMA OntoIsOnce ==
  ASSUME NEW S, NEW n \in Nat, IsFiniteSet(S), Cardinality(S) = n,
         NEW f \in [1 .. n -> S], \A e \in S : \E k \in 1 .. n : f[k] = e
  PROVE  \A j, k \in 1 .. n : f[j] = f[k] => j = k
<1>1. DOMAIN f = 1 .. n
  OBVIOUS
<1>2. f \in Surjection(1 .. n, S)
  BY DEF Surjection
<1>3. IsFiniteSet(1 .. n) /\ Cardinality(1 .. n) = n
  BY FS_Interval
<1>4. f \in Injection(1 .. n, S)
  BY <1>2, <1>3, FS_SurjSameCardinalityImpliesInj
<1> QED
  BY <1>1, <1>4 DEF Injection, IsInjective

-----------------------------------------------------------------------------
(* A script of the present form, line by line.                               *)

\* Two sections: m entries in the first, n in the second.
ScriptLines(b, script0, m, n) ==
  /\ HasLines(b, 6 + m + n)
  /\ b[1] = Line("section", <<4>>, Nothing) /\ b[2] = Clear(4, StaticRows) /\ b[3] = Clear(4, AllRows)
  /\ \A k \in 1 .. m : b[3 + k] = Line("add", <<4>>, Sorted(script0[4])[k])
  /\ b[4 + m] = Line("section", <<6>>, Nothing) /\ b[5 + m] = Clear(6, StaticRows) /\ b[6 + m] = Clear(6, AllRows)
  /\ \A k \in 1 .. n : b[6 + m + k] = Line("add", <<6>>, Sorted(script0[6])[k])

LEMMA ScriptIs ==
  ASSUME NEW script0, IsFiniteSet(script0[4]), IsFiniteSet(script0[6])
  PROVE  ScriptLines(RenderScript(script0, FALSE), script0, Cardinality(script0[4]), Cardinality(script0[6]))
<1>1. PICK s : s = Section(script0[4], FALSE, 4)
  OBVIOUS
<1>2. PICK t : t = Section(script0[6], FALSE, 6)
  OBVIOUS
<1>3. PICK m : m = Cardinality(script0[4])
  OBVIOUS
<1>4. PICK n : n = Cardinality(script0[6])
  OBVIOUS
<1>5. PICK b : b = Joined(s, t)
  OBVIOUS
<1>6. RenderScript(script0, FALSE) = b
  BY <1>1, <1>2, <1>5, ScriptIsSections
<1>7. m \in Nat /\ n \in Nat
  BY <1>3, <1>4, FS_CardinalityType
<1>8. /\ HasLines(s, 3 + m)
      /\ s[1] = Line("section", <<4>>, Nothing) /\ s[2] = Clear(4, StaticRows) /\ s[3] = Clear(4, AllRows)
      /\ \A k \in 1 .. m : s[3 + k] = Line("add", <<4>>, Sorted(script0[4])[k])
  BY <1>1, <1>3, SectionIs DEF SectionLines
<1>9. /\ HasLines(t, 3 + n)
      /\ t[1] = Line("section", <<6>>, Nothing) /\ t[2] = Clear(6, StaticRows) /\ t[3] = Clear(6, AllRows)
      /\ \A k \in 1 .. n : t[3 + k] = Line("add", <<6>>, Sorted(script0[6])[k])
  BY <1>2, <1>4, SectionIs DEF SectionLines
<1>10. /\ HasLines(b, (3 + m) + (3 + n))
       /\ \A i \in 1 .. 3 + m : b[i] = s[i]
       /\ \A i \in 1 .. 3 + n : b[(3 + m) + i] = t[i]
  <2>1. HasLines(s, 3 + m) /\ HasLines(t, 3 + n)
    BY <1>8, <1>9
  <2> QED
    BY <1>5, <2>1, JoinIs
<1>11. HasLines(b, 6 + m + n)
  <2>1. (3 + m) + (3 + n) = 6 + m + n
    BY <1>7
  <2> QED
    BY <1>10, <2>1
<1>12. b[1] = s[1] /\ b[2] = s[2] /\ b[3] = s[3]
  BY <1>7, <1>10
<1>13. ASSUME NEW k \in 1 .. m PROVE b[3 + k] = s[3 + k]
  BY <1>7, <1>10
<1>14. b[4 + m] = t[1] /\ b[5 + m] = t[2] /\ b[6 + m] = t[3]
  <2>1. 1 \in 1 .. 3 + n /\ 2 \in 1 .. 3 + n /\ 3 \in 1 .. 3 + n
    BY <1>7
  <2>2. (3 + m) + 1 = 4 + m /\ (3 + m) + 2 = 5 + m /\ (3 + m) + 3 = 6 + m
    BY <1>7
  <2>3. b[(3 + m) + 1] = t[1] /\ b[(3 + m) + 2] = t[2] /\ b[(3 + m) + 3] = t[3]
    BY <1>10, <2>1
  <2> QED
    BY <2>2, <2>3
<1>15. ASSUME NEW k \in 1 .. n PROVE b[6 + m + k] = t[3 + k]
  <2>1. 3 + k \in 1 .. 3 + n /\ (3 + m) + (3 + k) = 6 + m + k
    BY <1>7
  <2>2. b[(3 + m) + (3 + k)] = t[3 + k]
    BY <1>10, <2>1
  <2> QED
    BY <2>1, <2>2
<1>16. ScriptLines(b, script0, m, n)
  <2>1. b[1] = Line("section", <<4>>, Nothing) /\ b[2] = Clear(4, StaticRows) /\ b[3] = Clear(4, AllRows)
    BY <1>8, <1>12
  <2>2. b[4 + m] = Line("section", <<6>>, Nothing) /\ b[5 + m] = Clear(6, StaticRows) /\ b[6 + m] = Clear(6, AllRows)
    BY <1>9, <1>14
  <2>3. \A k \in 1 .. m : b[3 + k] = Line("add", <<4>>, Sorted(script0[4])[k])
    BY <1>8, <1>13
  <2>4. \A k \in 1 .. n : b[6 + m + k] = Line("add", <<6>>, Sorted(script0[6])[k])
    BY <1>9, <1>15
  <2> QED
    BY <1>11, <2>1, <2>2, <2>3, <2>4 DEF ScriptLines
<1> QED
  BY <1>3, <1>4, <1>6, <1>16

LEMMA SectionFrom ==
  ASSUME NEW b, NEW at, NEW i, at \in Nat, i \in Nat, 1 <= at, at <= i, b[at].is = "section",
         \A j \in Nat : at < j /\ j <= i => b[j].is # "section"
  PROVE  SectionAt(b, i) = b[at].of[1]
<1> DEFINE before == {j \in 1 .. i : b[j].is = "section"}
<1>1. at \in before /\ \A k \in before : k <= at
  OBVIOUS
<1>2. \A j \in before : (\A k \in before : k <= j) => j = at
  BY <1>1
<1>3. (CHOOSE j \in before : \A k \in before : k <= j) = at
  <2> HIDE DEF before
  <2> QED
    BY <1>1, <1>2
<1> QED
  BY <1>1, <1>3 DEF SectionAt

LEMMA LineHas ==
  ASSUME NEW is, NEW of, NEW entry
  PROVE  Line(is, of, entry).is = is /\ Line(is, of, entry).of = of /\ Line(is, of, entry).entry = entry
BY DEF Line

\* What its positions are when a script is what its own entries render to: an
\* entry of either list stands on one line.
Replacing(b, lists, m, n) ==
  /\ m \in Nat /\ n \in Nat /\ HasLines(b, 6 + m + n)
  /\ b[1] = Line("section", <<4>>, Nothing) /\ b[2] = Clear(4, StaticRows) /\ b[3] = Clear(4, AllRows)
  /\ \A k \in 4 .. 3 + m : b[k].is = "add" /\ b[k].of = <<4>>
  /\ b[4 + m] = Line("section", <<6>>, Nothing) /\ b[5 + m] = Clear(6, StaticRows) /\ b[6 + m] = Clear(6, AllRows)
  /\ \A k \in 7 + m .. 6 + m + n : b[k].is = "add" /\ b[k].of = <<6>>
  /\ lists = [family \in Families |-> lists[family]]
  /\ lists[4] = {b[k].entry : k \in 4 .. 3 + m} /\ lists[6] = {b[k].entry : k \in 7 + m .. 6 + m + n}
  /\ \A j, k \in 4 .. 3 + m : b[j].entry = b[k].entry => j = k
  /\ \A j, k \in 7 + m .. 6 + m + n : b[j].entry = b[k].entry => j = k

LEMMA ListsAreFinite ==
  ASSUME NEW b, IsSequence(b), NEW family \in Families
  PROVE  IsFiniteSet(ScriptOf(b)[family])
<1> DEFINE adds == {j \in 1 .. Len(b) : b[j].is = "add" /\ SectionAt(b, j) = family}
           f == [i \in adds |-> b[i].entry]
<1>1. Len(b) \in Nat
  BY SequenceIs
<1>2. IsFiniteSet(adds)
  <2>1. IsFiniteSet(1 .. Len(b)) /\ adds \subseteq 1 .. Len(b)
    BY <1>1, FS_Interval
  <2> HIDE DEF adds
  <2> QED
    BY <2>1, FS_Subset
<1>3. IsFiniteSet({f[i] : i \in adds})
  <2>1. DOMAIN f = adds /\ f = [i \in adds |-> f[i]]
    OBVIOUS
  <2> HIDE DEF adds, f
  <2> QED
    BY <1>2, <2>1, ImageIsFinite
<1>4. {f[i] : i \in adds} = {b[i].entry : i \in adds}
  OBVIOUS
<1> QED
  BY <1>3, <1>4 DEF ScriptOf

LEMMA ReplacingIs ==
  ASSUME NEW b, IsSequence(b), b = RenderScript(ScriptOf(b), FALSE)
  PROVE  \E m, n \in Nat : Replacing(b, ScriptOf(b), m, n)
<1>1. PICK lists : lists = ScriptOf(b)
  OBVIOUS
<1>2. IsFiniteSet(lists[4]) /\ IsFiniteSet(lists[6])
  BY <1>1, ListsAreFinite DEF Families
<1>3. PICK m : m = Cardinality(lists[4])
  OBVIOUS
<1>4. PICK n : n = Cardinality(lists[6])
  OBVIOUS
<1>5. m \in Nat /\ n \in Nat
  BY <1>2, <1>3, <1>4, FS_CardinalityType
<1>6. ScriptLines(b, lists, m, n)
  BY <1>1, <1>2, <1>3, <1>4, ScriptIs
<1>7. HasLines(b, 6 + m + n) /\ Len(b) = 6 + m + n
  BY <1>6 DEF ScriptLines, HasLines
<1>8. b[1] = Line("section", <<4>>, Nothing) /\ b[2] = Clear(4, StaticRows) /\ b[3] = Clear(4, AllRows)
  BY <1>6 DEF ScriptLines
<1>9. b[4 + m] = Line("section", <<6>>, Nothing) /\ b[5 + m] = Clear(6, StaticRows) /\ b[6 + m] = Clear(6, AllRows)
  BY <1>6 DEF ScriptLines
<1>10. ASSUME NEW k \in 1 .. m
       PROVE  b[3 + k].is = "add" /\ b[3 + k].of = <<4>> /\ b[3 + k].entry = Sorted(lists[4])[k]
  BY <1>6, LineHas DEF ScriptLines
<1>11. ASSUME NEW k \in 1 .. n
       PROVE  b[6 + m + k].is = "add" /\ b[6 + m + k].of = <<6>> /\ b[6 + m + k].entry = Sorted(lists[6])[k]
  BY <1>6, LineHas DEF ScriptLines
<1>12. ASSUME NEW k \in 4 .. 3 + m PROVE b[k].is = "add" /\ b[k].of = <<4>> /\ b[k].entry = Sorted(lists[4])[k - 3]
  <2>1. k - 3 \in 1 .. m /\ 3 + (k - 3) = k
    BY <1>5
  <2> QED
    BY <2>1, <1>10
<1>13. ASSUME NEW k \in 7 + m .. 6 + m + n
       PROVE  b[k].is = "add" /\ b[k].of = <<6>> /\ b[k].entry = Sorted(lists[6])[k - 6 - m]
  <2>1. k - 6 - m \in 1 .. n /\ 6 + m + (k - 6 - m) = k
    BY <1>5
  <2> QED
    BY <2>1, <1>11
<1>14. /\ b[1].is = "section" /\ b[1].of[1] = 4 /\ b[2].is = "clear" /\ b[3].is = "clear"
       /\ b[4 + m].is = "section" /\ b[4 + m].of[1] = 6 /\ b[5 + m].is = "clear" /\ b[6 + m].is = "clear"
  BY <1>8, <1>9, LineHas DEF Clear
<1>15. ASSUME NEW k \in 1 .. 6 + m + n
       PROVE  k = 1 \/ k = 2 \/ k = 3 \/ k \in 4 .. 3 + m \/ k = 4 + m \/ k = 5 + m \/ k = 6 + m \/ k \in 7 + m .. 6 + m + n
  BY <1>5
<1>16. ASSUME NEW i \in 4 .. 3 + m PROVE SectionAt(b, i) = 4
  <2>1. \A j \in Nat : 1 < j /\ j <= i => b[j].is # "section"
    <3> SUFFICES ASSUME NEW j \in Nat, 1 < j, j <= i PROVE b[j].is # "section"
      OBVIOUS
    <3>1. j = 2 \/ j = 3 \/ j \in 4 .. 3 + m
      BY <1>5
    <3> QED
      BY <3>1, <1>12, <1>14
  <2>2. i \in Nat /\ 1 <= i
    BY <1>5
  <2>3. PICK at : at = 1
    OBVIOUS
  <2>4. at \in Nat /\ i \in Nat /\ 1 <= at /\ at <= i /\ b[at].is = "section" /\ b[at].of[1] = 4
        /\ \A j \in Nat : at < j /\ j <= i => b[j].is # "section"
    BY <1>14, <2>1, <2>2, <2>3
  <2> QED
    BY <2>4, SectionFrom
<1>17. ASSUME NEW i \in 7 + m .. 6 + m + n PROVE SectionAt(b, i) = 6
  <2>1. \A j \in Nat : 4 + m < j /\ j <= i => b[j].is # "section"
    <3> SUFFICES ASSUME NEW j \in Nat, 4 + m < j, j <= i PROVE b[j].is # "section"
      OBVIOUS
    <3>1. j = 5 + m \/ j = 6 + m \/ j \in 7 + m .. 6 + m + n
      BY <1>5
    <3> QED
      BY <3>1, <1>13, <1>14
  <2>2. i \in Nat /\ 4 + m \in Nat /\ 1 <= 4 + m /\ 4 + m <= i
    BY <1>5
  <2> QED
    BY <1>14, <2>1, <2>2, SectionFrom
<1>18. lists = [family \in Families |-> {b[i].entry : i \in {j \in 1 .. Len(b) : b[j].is = "add" /\ SectionAt(b, j) = family}}]
  BY <1>1 DEF ScriptOf
<1>19. ASSUME NEW j \in 1 .. Len(b), b[j].is = "add" PROVE j \in 4 .. 3 + m \/ j \in 7 + m .. 6 + m + n
  BY <1>7, <1>14, <1>15, <1>19
<1>20. {j \in 1 .. Len(b) : b[j].is = "add" /\ SectionAt(b, j) = 4} = 4 .. 3 + m
  <2>1. 4 .. 3 + m \subseteq 1 .. Len(b)
    BY <1>5, <1>7
  <2> QED
    BY <1>12, <1>16, <1>17, <1>19, <2>1
<1>21. {j \in 1 .. Len(b) : b[j].is = "add" /\ SectionAt(b, j) = 6} = 7 + m .. 6 + m + n
  <2>1. 7 + m .. 6 + m + n \subseteq 1 .. Len(b)
    BY <1>5, <1>7
  <2> QED
    BY <1>13, <1>16, <1>17, <1>19, <2>1
<1>22. lists[4] = {b[k].entry : k \in 4 .. 3 + m} /\ lists[6] = {b[k].entry : k \in 7 + m .. 6 + m + n}
  BY <1>18, <1>20, <1>21 DEF Families
<1>23. ASSUME NEW i \in 4 .. 3 + m, NEW j \in 4 .. 3 + m, b[i].entry = b[j].entry PROVE i = j
  <2>1. PICK f : f = [k \in 1 .. m |-> Sorted(lists[4])[k]]
    OBVIOUS
  <2>2. PICK S : S = lists[4]
    OBVIOUS
  <2>3. f \in [1 .. m -> S] /\ \A e \in S : \E k \in 1 .. m : f[k] = e
    <3>1. ASSUME NEW e \in lists[4] PROVE \E k \in 1 .. m : f[k] = e
      <4>1. PICK k \in 4 .. 3 + m : e = b[k].entry
        BY <1>22
      <4>2. k - 3 \in 1 .. m
        BY <1>5
      <4> QED
        BY <1>12, <2>1, <4>1, <4>2
    <3>2. ASSUME NEW k \in 1 .. m PROVE f[k] \in lists[4]
      <4>1. 3 + k \in 4 .. 3 + m
        BY <1>5
      <4> QED
        BY <1>10, <1>22, <2>1, <4>1
    <3> QED
      BY <2>1, <2>2, <3>1, <3>2
  <2>4. \A k, l \in 1 .. m : f[k] = f[l] => k = l
    <3>1. IsFiniteSet(S) /\ Cardinality(S) = m
      BY <1>2, <1>3, <2>2
    <3> QED
      BY <1>5, <2>3, <3>1, OntoIsOnce
  <2>5. i - 3 \in 1 .. m /\ j - 3 \in 1 .. m
    BY <1>5
  <2>6. f[i - 3] = f[j - 3]
    BY <1>12, <1>23, <2>1, <2>5
  <2> QED
    BY <2>4, <2>5, <2>6
<1>24. ASSUME NEW i \in 7 + m .. 6 + m + n, NEW j \in 7 + m .. 6 + m + n, b[i].entry = b[j].entry PROVE i = j
  <2>1. PICK f : f = [k \in 1 .. n |-> Sorted(lists[6])[k]]
    OBVIOUS
  <2>2. PICK S : S = lists[6]
    OBVIOUS
  <2>3. f \in [1 .. n -> S] /\ \A e \in S : \E k \in 1 .. n : f[k] = e
    <3>1. ASSUME NEW e \in lists[6] PROVE \E k \in 1 .. n : f[k] = e
      <4>1. PICK k \in 7 + m .. 6 + m + n : e = b[k].entry
        BY <1>22
      <4>2. k - 6 - m \in 1 .. n
        BY <1>5
      <4> QED
        BY <1>13, <2>1, <4>1, <4>2
    <3>2. ASSUME NEW k \in 1 .. n PROVE f[k] \in lists[6]
      <4>1. 6 + m + k \in 7 + m .. 6 + m + n
        BY <1>5
      <4> QED
        BY <1>11, <1>22, <2>1, <4>1
    <3> QED
      BY <2>1, <2>2, <3>1, <3>2
  <2>4. \A k, l \in 1 .. n : f[k] = f[l] => k = l
    <3>1. IsFiniteSet(S) /\ Cardinality(S) = n
      BY <1>2, <1>4, <2>2
    <3> QED
      BY <1>5, <2>3, <3>1, OntoIsOnce
  <2>5. i - 6 - m \in 1 .. n /\ j - 6 - m \in 1 .. n /\ (i - 6 - m = j - 6 - m => i = j)
    BY <1>5
  <2>6. f[i - 6 - m] = f[j - 6 - m]
    BY <1>13, <1>24, <2>1, <2>5
  <2> QED
    BY <2>4, <2>5, <2>6
<1>25. lists = [family \in Families |-> lists[family]]
  BY <1>18
<1>26. Replacing(b, lists, m, n)
  BY <1>5, <1>7, <1>8, <1>9, <1>12, <1>13, <1>22, <1>23, <1>24, <1>25 DEF Replacing
<1> QED
  BY <1>1, <1>5, <1>26

-----------------------------------------------------------------------------
(* A rendered file is a sequence of lines: what a plan comes to is finite.    *)

LEMMA ImageOfPlan ==
  ASSUME NEW S, IsFiniteSet(S), NEW f, f = [x \in S |-> f[x]], NEW T, \A t \in T : \E x \in S : t = f[x]
  PROVE  IsFiniteSet(T)
<1> DEFINE U == {f[x] : x \in S}
<1>1. DOMAIN f = S
  OBVIOUS
<1>2. IsFiniteSet(U)
  BY <1>1, ImageIsFinite
<1>3. T \subseteq U
  OBVIOUS
<1> HIDE DEF U
<1> QED
  BY <1>2, <1>3, FS_Subset

LEMMA ScriptIsFinite ==
  ASSUME NEW p, IsFiniteSet(p), NEW family \in Families
  PROVE  IsFiniteSet(ProjectScript(p)[family])
<1> DEFINE names == {NameEntry(r.at) : r \in {q \in p : q.kind = "exact"}}
           blocks == {Masked(r) : r \in {q \in p : q.family = family}}
<1>1. PICK f : f = [r \in p |-> NameEntry(r.at)]
  OBVIOUS
<1>2. PICK g : g = [r \in p |-> Masked(r)]
  OBVIOUS
<1>3. f = [r \in p |-> f[r]] /\ \A t \in names : \E r \in p : t = f[r]
  BY <1>1
<1>4. g = [r \in p |-> g[r]] /\ \A t \in blocks : \E r \in p : t = g[r]
  BY <1>2
<1>5. ProjectScript(p)[family] = names \cup blocks
  BY DEF ProjectScript
<1> HIDE DEF names, blocks
<1>6. IsFiniteSet(names) /\ IsFiniteSet(blocks)
  BY <1>3, <1>4, ImageOfPlan
<1> QED
  BY <1>5, <1>6, FS_Union

LEMMA ShardsAreFinite ==
  ASSUME NEW entries, IsFiniteSet(entries), NEW shard \in Int
  PROVE  IsFiniteSet(ShardEntries(entries, shard)) /\ Shards(entries) \in Int
<1>1. PICK M : M = MaxEntriesPerGroup
  OBVIOUS
<1>2. M \in Nat \ {0} /\ Cardinality(entries) \in Nat
  BY <1>1, BoundsAreReal, FS_CardinalityType
<1>3. Shards(entries) \in Int
  <2>1. Cardinality(entries) + M - 1 \in Int
    BY <1>2
  <2> QED
    BY <1>1, <1>2, <2>1 DEF Shards
<1>4. PICK a : a = (shard - 1) * M + 1
  OBVIOUS
<1>5. PICK z : z = IF shard < Shards(entries) THEN shard * M ELSE Cardinality(entries)
  OBVIOUS
<1>6. a \in Int /\ z \in Int
  BY <1>2, <1>3, <1>4, <1>5
<1>7. IsFiniteSet(a .. z)
  BY <1>6, FS_Interval
<1>8. PICK f : f = [i \in a .. z |-> Sorted(entries)[i]]
  OBVIOUS
<1>9. ShardEntries(entries, shard) = {Sorted(entries)[i] : i \in a .. z}
  BY <1>1, <1>4, <1>5 DEF ShardEntries
<1>10. f = [i \in a .. z |-> f[i]] /\ \A t \in ShardEntries(entries, shard) : \E i \in a .. z : t = f[i]
  BY <1>8, <1>9
<1> QED
  BY <1>3, <1>7, <1>10, ImageOfPlan

LEMMA GroupsAreFinite ==
  ASSUME NEW p, IsFiniteSet(p), NEW output
  PROVE  IsFiniteSet(ProjectGroups(p, output)) /\ \A g \in ProjectGroups(p, output) : IsFiniteSet(g.entries)
<1> DEFINE rules(list) == {r \in p : r.list = list}
           values(list) == {EntryValue(r) : r \in rules(list)}
           label(list, shard) == <<ListDescription(list, rules(list)), shard, Shards(values(list))>>
           group(list, shard) ==
             [name |-> ListNamePart(list) \o <<output, shard>>, entries |-> ShardEntries(values(list), shard),
              description |-> IF Shards(values(list)) > 1 THEN label(list, shard) ELSE <<label(list, shard)[1], 0, 0>>]
           ofList(list) == {group(list, shard) : shard \in 1 .. Shards(values(list))}
           lists == {r.list : r \in p}
<1>1. ProjectGroups(p, output) = UNION {ofList(list) : list \in lists}
  BY DEF ProjectGroups
<1>2. ASSUME NEW list PROVE IsFiniteSet(values(list))
  <2>1. PICK f : f = [r \in p |-> EntryValue(r)]
    OBVIOUS
  <2>2. f = [r \in p |-> f[r]] /\ \A t \in values(list) : \E r \in p : t = f[r]
    BY <2>1
  <2> HIDE DEF values
  <2> QED
    BY <2>2, ImageOfPlan
<1>3. \A list, shard : group(list, shard).entries = ShardEntries(values(list), shard)
  OBVIOUS
<1> HIDE DEF values, group
<1>4. ASSUME NEW list PROVE IsFiniteSet(ofList(list)) /\ \A g \in ofList(list) : IsFiniteSet(g.entries)
  <2>1. Shards(values(list)) \in Int
    <3>1. 1 \in Int
      OBVIOUS
    <3> QED
      BY <1>2, <3>1, ShardsAreFinite
  <2>2. IsFiniteSet(1 .. Shards(values(list)))
    BY <2>1, FS_Interval
  <2>3. PICK f : f = [shard \in 1 .. Shards(values(list)) |-> group(list, shard)]
    OBVIOUS
  <2>4. f = [shard \in 1 .. Shards(values(list)) |-> f[shard]]
        /\ \A t \in ofList(list) : \E shard \in 1 .. Shards(values(list)) : t = f[shard]
    BY <2>3
  <2>5. IsFiniteSet(ofList(list))
    BY <2>2, <2>4, ImageOfPlan
  <2>6. ASSUME NEW g \in ofList(list) PROVE IsFiniteSet(g.entries)
    <3>1. PICK shard \in 1 .. Shards(values(list)) : g = group(list, shard)
      OBVIOUS
    <3>2. shard \in Int
      BY <2>1
    <3>3. IsFiniteSet(ShardEntries(values(list), shard))
      BY <1>2, <3>2, ShardsAreFinite
    <3> QED
      BY <1>3, <3>1, <3>3
  <2> QED
    BY <2>5, <2>6
<1>5. IsFiniteSet(lists)
  <2>1. PICK f : f = [r \in p |-> r.list]
    OBVIOUS
  <2>2. f = [r \in p |-> f[r]] /\ \A t \in lists : \E r \in p : t = f[r]
    BY <2>1
  <2> HIDE DEF lists
  <2> QED
    BY <2>2, ImageOfPlan
<1> HIDE DEF ofList, lists
<1>6. IsFiniteSet({ofList(list) : list \in lists})
  <2>1. PICK f : f = [list \in lists |-> ofList(list)]
    OBVIOUS
  <2>2. f = [list \in lists |-> f[list]] /\ \A t \in {ofList(list) : list \in lists} : \E list \in lists : t = f[list]
    BY <2>1
  <2> DEFINE all == {ofList(list) : list \in lists}
  <2> HIDE DEF all
  <2>3. \A t \in all : \E list \in lists : t = f[list]
    BY <2>2 DEF all
  <2>4. IsFiniteSet(all)
    BY <1>5, <2>2, <2>3, ImageOfPlan
  <2> QED
    BY <2>4 DEF all
<1> DEFINE sets == {ofList(list) : list \in lists}
<1>7. \A T \in sets : IsFiniteSet(T) /\ \A g \in T : IsFiniteSet(g.entries)
  BY <1>4
<1>8. IsFiniteSet(sets)
  BY <1>6
<1> HIDE DEF sets
<1>9. IsFiniteSet(UNION sets) /\ \A g \in UNION sets : IsFiniteSet(g.entries)
  BY <1>7, <1>8, FS_UNION
<1> QED
  BY <1>1, <1>9 DEF sets

LEMMA GroupLinesAreFinite ==
  ASSUME NEW groups, IsFiniteSet(groups), \A g \in groups : IsFiniteSet(g.entries)
  PROVE  IsFiniteSet(UNION {GroupLines(g) : g \in groups})
<1>1. ASSUME NEW g \in groups PROVE IsFiniteSet(GroupLines(g))
  <2> DEFINE head == IF g.description = Nothing THEN {} ELSE {Line("description", g.name, g.description)}
             rest == {Line("include", g.name, e) : e \in g.entries}
  <2>1. IsFiniteSet(head)
    BY FS_EmptySet, FS_Singleton
  <2>2. IsFiniteSet(rest)
    <3>1. PICK f : f = [e \in g.entries |-> Line("include", g.name, e)]
      OBVIOUS
    <3>2. f = [e \in g.entries |-> f[e]] /\ \A t \in rest : \E e \in g.entries : t = f[e]
      BY <3>1
    <3> HIDE DEF rest
    <3>3. PICK S : S = g.entries
      OBVIOUS
    <3>4. IsFiniteSet(S) /\ f = [e \in S |-> f[e]] /\ \A t \in rest : \E e \in S : t = f[e]
      BY <3>2, <3>3
    <3> QED
      BY <3>4, ImageOfPlan
  <2> HIDE DEF head, rest
  <2>3. IsFiniteSet(head \cup rest)
    BY <2>1, <2>2, FS_Union
  <2> QED
    BY <2>3 DEF head, rest, GroupLines
<1>2. PICK f : f = [g \in groups |-> GroupLines(g)]
  OBVIOUS
<1> DEFINE sets == {GroupLines(g) : g \in groups}
<1>3. f = [g \in groups |-> f[g]] /\ (\A t \in sets : \E g \in groups : t = f[g]) /\ \A T \in sets : IsFiniteSet(T)
  BY <1>1, <1>2
<1> HIDE DEF sets
<1>4. IsFiniteSet(sets)
  BY <1>3, ImageOfPlan
<1>5. IsFiniteSet(UNION sets)
  BY <1>3, <1>4, FS_UNION
<1> QED
  BY <1>5 DEF sets

LEMMA RenderedGroupsAre ==
  ASSUME NEW groups, IsFiniteSet(groups), \A g \in groups : IsFiniteSet(g.entries)
  PROVE  IsSequence(RenderGroups(groups))
<1> DEFINE lines == UNION {GroupLines(g) : g \in groups}
<1>1. IsFiniteSet(lines)
  BY GroupLinesAreFinite
<1>2. PICK n : n = Cardinality(lines)
  OBVIOUS
<1>3. n \in Nat
  BY <1>1, <1>2, FS_CardinalityType
<1>4. PICK s : s = RenderGroups(groups)
  OBVIOUS
<1> DEFINE before(l) == {k \in lines : Precedes(LineKey(k), LineKey(l))}
           line(i) == CHOOSE l \in lines : Cardinality(before(l)) = i - 1
<1>5. DOMAIN s = 1 .. n /\ s = [i \in 1 .. n |-> s[i]]
  <2>1. RenderGroups(groups) = [i \in 1 .. Cardinality(lines) |-> line(i)]
    BY DEF RenderGroups
  <2> HIDE DEF line, lines
  <2> QED
    BY <1>2, <1>4, <2>1
<1>6. IsSequence(s)
  BY <1>3, <1>5, FunctionIsSequence
<1> QED
  BY <1>4, <1>6

LEMMA RuleSetIs ==
  ASSUME NEW rule, IsFiniteSet(rule.domain), IsFiniteSet(rule.suffix), IsFiniteSet(rule.cidr)
  PROVE  IsSequence(RenderRuleSet(rule))
<1>1. PICK a : a = Lines("domain", <<>>, rule.domain)
  OBVIOUS
<1>2. PICK b : b = Lines("suffix", <<>>, rule.suffix)
  OBVIOUS
<1>3. PICK c : c = Lines("cidr", <<>>, rule.cidr)
  OBVIOUS
<1>4. PICK k, m, n : k = Cardinality(rule.domain) /\ m = Cardinality(rule.suffix) /\ n = Cardinality(rule.cidr)
  OBVIOUS
<1>5. HasLines(a, k) /\ HasLines(b, m) /\ HasLines(c, n)
  BY <1>1, <1>2, <1>3, <1>4, LinesAre
<1>6. PICK ab : ab = Joined(a, b)
  OBVIOUS
<1>7. HasLines(ab, k + m)
  BY <1>5, <1>6, JoinIs
<1>8. HasLines(Joined(ab, c), k + m + n)
  BY <1>5, <1>7, JoinIs
<1>9. RenderRuleSet(rule) = Joined(ab, c)
  BY <1>1, <1>2, <1>3, <1>6 DEF RenderRuleSet, Joined
<1> QED
  BY <1>8, <1>9 DEF HasLines

LEMMA RenderedIsSequence ==
  ASSUME NEW f \in Formats, NEW p \in Plans[f]
  PROVE  /\ IsSequence(Render(f, p, Output))
         /\ f = "script" => IsSequence(RenderScript(ProjectScript(p), TRUE))
<1>1. IsFiniteSet(p)
  BY PlansAreFinite
<1>2. ASSUME NEW is, NEW entries, NEW g, g = [r \in p |-> g[r]], \A t \in entries : \E r \in p : t = g[r]
      PROVE  IsSequence(Lines(is, <<>>, entries))
  <2>1. IsFiniteSet(entries)
    BY <1>1, <1>2, ImageOfPlan
  <2> QED
    BY <2>1, LinesAre DEF HasLines
<1>3. IsSequence(RenderBat(ProjectBat(p)))
  <2>1. PICK g : g = [r \in p |-> Masked(r)]
    OBVIOUS
  <2>2. g = [r \in p |-> g[r]] /\ \A t \in ProjectBat(p) : \E r \in p : t = g[r]
    BY <2>1 DEF ProjectBat
  <2> QED
    BY <1>2, <2>2 DEF RenderBat
<1>4. IsSequence(RenderNftset(ProjectNftset(p)))
  <2>1. PICK g : g = [r \in p |-> NameEntry(r.at)]
    OBVIOUS
  <2>2. g = [r \in p |-> g[r]] /\ \A t \in ProjectNftset(p) : \E r \in p : t = g[r]
    BY <2>1 DEF ProjectNftset
  <2> QED
    BY <1>2, <2>2 DEF RenderNftset
<1>5. IsSequence(RenderSites(ProjectSites(p)))
  <2>1. PICK g : g = [r \in p |-> IF r.kind = "exact" THEN NameEntry(r.at) ELSE Masked(r)]
    OBVIOUS
  <2>2. g = [r \in p |-> g[r]] /\ \A t \in ProjectSites(p) : \E r \in p : t = g[r]
    BY <2>1 DEF ProjectSites
  <2> QED
    BY <1>2, <2>2 DEF RenderSites
<1>6. IsSequence(RenderGroups(ProjectGroups(p, Output)))
  BY <1>1, GroupsAreFinite, RenderedGroupsAre
<1>7. IsSequence(RenderRuleSet(ProjectRuleSet(p)))
  <2>1. PICK rule : rule = ProjectRuleSet(p)
    OBVIOUS
  <2>2. PICK g : g = [r \in p |-> NameEntry(r.at)]
    OBVIOUS
  <2>3. PICK h : h = [r \in p |-> Masked(r)]
    OBVIOUS
  <2>4. g = [r \in p |-> g[r]] /\ (\A t \in rule.domain : \E r \in p : t = g[r])
        /\ \A t \in rule.suffix : \E r \in p : t = g[r]
    BY <2>1, <2>2 DEF ProjectRuleSet
  <2>5. h = [r \in p |-> h[r]] /\ \A t \in rule.cidr : \E r \in p : t = h[r]
    BY <2>1, <2>3 DEF ProjectRuleSet
  <2>6. IsFiniteSet(rule.domain) /\ IsFiniteSet(rule.suffix) /\ IsFiniteSet(rule.cidr)
    BY <1>1, <2>4, <2>5, ImageOfPlan
  <2> QED
    BY <2>1, <2>6, RuleSetIs
<1>8. IsFiniteSet(ProjectScript(p)[4]) /\ IsFiniteSet(ProjectScript(p)[6])
  BY <1>1, ScriptIsFinite DEF Families
<1>9. IsSequence(RenderScript(ProjectScript(p), FALSE))
  BY <1>8, ScriptIs DEF ScriptLines, HasLines
<1>10. IsSequence(RenderScript(ProjectScript(p), TRUE))
  <2>1. PICK s : s = Section(ProjectScript(p)[4], TRUE, 4)
    OBVIOUS
  <2>2. PICK t : t = Section(ProjectScript(p)[6], TRUE, 6)
    OBVIOUS
  <2>3. PICK m, n : HasLines(s, m) /\ HasLines(t, n)
    BY <1>8, <2>1, <2>2, OldSectionIs
  <2>4. HasLines(Joined(s, t), m + n)
    BY <2>3, JoinIs
  <2> QED
    BY <2>1, <2>2, <2>4, ScriptIsSections DEF HasLines
<1> QED
  BY <1>3, <1>4, <1>5, <1>6, <1>7, <1>9, <1>10 DEF Render, Formats

-----------------------------------------------------------------------------
(* The published file.                                                       *)

FileInv ==
  /\ target \in Formats /\ plan \in Plans[target]
  /\ IsSequence(file) /\ (file # Absent => Parse(target, file))

LEMMA BuildsOrNot ==
  ASSUME [Next]_vars
  PROVE  Replan \/ Publish \/ PublishedBefore \/ UNCHANGED fileVars
<1>1. CASE UNCHANGED vars
  BY <1>1 DEF vars
<1>2. CASE StartImport \/ ImportLine \/ Disconnect \/ \E family \in Families : Resolve(family)
  BY <1>2 DEF StartImport, ImportLine, Disconnect, Resolve
<1>3. CASE \E p \in Paths \ Relative, content \in Foreign : OperatorWrites(p, content)
  BY <1>3 DEF OperatorWrites
<1>4. CASE \E config \in SUBSET Paths : Probe(config)
  BY <1>4 DEF Probe, LocalStep
<1>5. CASE Cancel \/ Backup \/ Deploy \/ Verify \/ Rollback \/ Crash
  BY <1>5 DEF Cancel, Backup, Deploy, Verify, Rollback, Crash, LocalStep
<1>6. CASE CreateTemporary \/ WriteTemporary \/ Rename
  BY <1>6 DEF CreateTemporary, WriteTemporary, Rename, WriteFails, LocalStep
<1> QED
  BY <1>1, <1>2, <1>3, <1>4, <1>5, <1>6 DEF Next

LEMMA NextKeepsFile ==
  ASSUME FileInv, [Next]_vars
  PROVE  FileInv'
<1>1. CASE Replan
  BY <1>1 DEF FileInv, Replan
<1>2. CASE Publish
  <2>1. target' = target /\ plan' = plan /\ file' = Render(target, plan, Output) /\ Parse(target, file')
    BY <1>2 DEF Publish
  <2>2. IsSequence(file')
    BY <2>1, RenderedIsSequence DEF FileInv
  <2> QED
    BY <2>1, <2>2 DEF FileInv
<1>3. CASE PublishedBefore
  <2>1. target' = target /\ plan' = plan /\ target = "script"
        /\ file' = RenderScript(ProjectScript(plan), TRUE) /\ Parse(target, file')
    BY <1>3 DEF PublishedBefore
  <2>2. IsSequence(file')
    BY <2>1, RenderedIsSequence DEF FileInv
  <2> QED
    BY <2>1, <2>2 DEF FileInv
<1>4. CASE UNCHANGED fileVars
  BY <1>4 DEF FileInv, fileVars
<1> QED
  BY <1>1, <1>2, <1>3, <1>4, BuildsOrNot

\* Whatever is published was accepted when it was read back.
THEOREM FileInvariance == Spec => []FileInv
<1>1. Init => FileInv
  BY NoLine DEF Init, FileInv, Absent, HasLines
<1>2. FileInv /\ [Next]_vars => FileInv'
  BY NextKeepsFile
<1> QED
  BY <1>1, <1>2, PTL DEF Spec

-----------------------------------------------------------------------------
(* The import of a script.                                                   *)

RouterShape ==
  /\ router = [static |-> router.static, dynamic |-> router.dynamic]
  /\ router.static = [family \in Families |-> router.static[family]]
  /\ \A d \in router.dynamic : d[1] \in Families

ScriptShape ==
  /\ script = [body |-> script.body, at |-> script.at, state |-> script.state]
  /\ IsSequence(script.body)

\* The rows that resolved names gave a list came with names that are in it.
ChildrenOf(family) == \A d \in router.dynamic : d[1] = family => d[2] \in router.static[family]

\* A list has been emptied once the lines that empty it are past, and holds the
\* entries of the lines that are past since.
ImportIsOn(m, n) ==
  /\ script.state \in {"running", "done"}
  /\ script.at \in 1 .. 7 + m + n
  /\ script.state = "running" => script.at <= 6 + m + n
  /\ script.state = "done" => script.at = 7 + m + n
  /\ script.at > 2 =>
       /\ router.static[4] = {script.body[j].entry : j \in {k \in 4 .. 3 + m : k < script.at}}
       /\ ChildrenOf(4)
  /\ script.at > 5 + m =>
       /\ router.static[6] = {script.body[j].entry : j \in {k \in 7 + m .. 6 + m + n : k < script.at}}
       /\ ChildrenOf(6)

ImportInv ==
  /\ RouterShape /\ ScriptShape
  /\ script.state # "none" =>
       \A m, n \in Nat : Replacing(script.body, ScriptOf(script.body), m, n) => ImportIsOn(m, n)

LEMMA StartKeepsImport ==
  ASSUME FileInv, ImportInv, StartImport
  PROVE  ImportInv'
<1>1. script' = [body |-> file, at |-> 1, state |-> "running"] /\ router' = router /\ IsSequence(file)
  BY DEF StartImport, FileInv
<1>2. RouterShape' /\ ScriptShape'
  BY <1>1 DEF ImportInv, RouterShape, ScriptShape
<1>3. ASSUME NEW m \in Nat, NEW n \in Nat PROVE ImportIsOn(m, n)'
  BY <1>1 DEF ImportIsOn
<1> QED
  BY <1>2, <1>3 DEF ImportInv

LEMMA EndKeepsImport ==
  ASSUME ImportInv, Disconnect
  PROVE  ImportInv'
<1>1. script' = [body |-> Absent, at |-> 0, state |-> "none"] /\ router' = router
  BY DEF Disconnect, NoImport
<1>2. IsSequence(Absent)
  BY NoLine DEF Absent, HasLines
<1> QED
  BY <1>1, <1>2 DEF ImportInv, RouterShape, ScriptShape

LEMMA ResolveKeepsImport ==
  ASSUME ImportInv, NEW family \in Families, Resolve(family)
  PROVE  ImportInv'
<1>1. PICK e \in router.static[family] : router' = [router EXCEPT !.dynamic = @ \cup {<<family, e>>}]
  BY DEF Resolve
<1>2. script' = script
  BY DEF Resolve
<1>3. router' = [static |-> router.static, dynamic |-> router.dynamic \cup {<<family, e>>}]
  BY <1>1 DEF ImportInv, RouterShape
<1>4. router'.static = router.static /\ router'.dynamic = router.dynamic \cup {<<family, e>>}
  BY <1>3
<1>5. RouterShape' /\ ScriptShape'
  BY <1>2, <1>3, <1>4 DEF ImportInv, RouterShape, ScriptShape
<1>6. \A f \in Families : ChildrenOf(f) => ChildrenOf(f)'
  BY <1>4 DEF ChildrenOf
<1>7. ASSUME NEW m \in Nat, NEW n \in Nat, ImportIsOn(m, n) PROVE ImportIsOn(m, n)'
  BY <1>2, <1>4, <1>6, <1>7 DEF ImportIsOn, Families
<1> QED
  BY <1>2, <1>5, <1>7 DEF ImportInv

LEMMA FilledRouter ==
  ASSUME RouterShape, NEW family, NEW entry,
         router' = [router EXCEPT !.static[family] = @ \cup {entry}]
  PROVE  router' = [static |-> [router.static EXCEPT ![family] = @ \cup {entry}], dynamic |-> router.dynamic]
<1>1. router = [static |-> router.static, dynamic |-> router.dynamic]
  BY DEF RouterShape
<1>2. PICK st, dy : st = router.static /\ dy = router.dynamic
  OBVIOUS
<1>3. router = [static |-> st, dynamic |-> dy]
  BY <1>1, <1>2
<1>4. [router EXCEPT !.static[family] = @ \cup {entry}] = [static |-> [st EXCEPT ![family] = @ \cup {entry}], dynamic |-> dy]
  BY <1>3
<1> QED
  BY <1>2, <1>4

\* What a line does: it empties a list, adds to it, or announces a section.
LEMMA LineDoes ==
  ASSUME ImportInv, ImportLine, NEW line, NEW family, line = script.body[script.at], family = line.of[1]
  PROVE  /\ script.state = "running" /\ RouterShape' /\ ScriptShape' /\ script'.body = script.body
         /\ line.is = "clear" =>
              /\ router'.static = [router.static EXCEPT ![family] = {}]
              /\ router'.dynamic = router.dynamic \ {d \in router.dynamic : d[1] = family}
         /\ line.is = "add" =>
              /\ router'.static = [router.static EXCEPT ![family] = @ \cup {line.entry}]
              /\ router'.dynamic = router.dynamic
         /\ line.is \notin {"clear", "add"} => router' = router
         /\ (/\ (line.is = "clear" => line.of[2] # AllRows \/ \A d \in router.dynamic : d[1] = family => d[2] \notin router.static[family])
             /\ (line.is = "add" => line.entry \notin router.static[family])) =>
              script'.at = script.at + 1 /\ script'.state = IF script.at = Len(script.body) THEN "done" ELSE "running"
<1> DEFINE children == {d \in router.dynamic : d[1] = family}
           stops == \/ line.is = "clear" /\ line.of[2] = AllRows /\ \E d \in children : d[2] \in router.static[family]
                    \/ line.is = "add" /\ line.entry \in router.static[family]
<1>1. script.state = "running" /\ RouterShape /\ ScriptShape
  BY DEF ImportLine, ImportInv
<1>2. IF stops THEN script' = [script EXCEPT !.state = "stopped"] ELSE Advance(line)
  BY DEF ImportLine
<1>3. router' = CASE line.is = "clear" -> [static |-> [router.static EXCEPT ![family] = {}], dynamic |-> router.dynamic \ children]
                  [] line.is = "add" -> [router EXCEPT !.static[family] = @ \cup {line.entry}]
                  [] OTHER -> router
  BY DEF ImportLine
<1>4. ~stops => script' = [script EXCEPT !.at = @ + 1, !.state = IF script.at = Len(script.body) THEN "done" ELSE @]
  BY <1>2 DEF Advance
<1>5. (/\ (line.is = "clear" => line.of[2] # AllRows \/ \A d \in router.dynamic : d[1] = family => d[2] \notin router.static[family])
       /\ (line.is = "add" => line.entry \notin router.static[family])) => ~stops
  OBVIOUS
<1>6. stops => script' = [script EXCEPT !.state = "stopped"]
  BY <1>2
<1> HIDE DEF stops
<1>7. ScriptShape' /\ script'.body = script.body
  BY <1>1, <1>4, <1>6 DEF ScriptShape
<1>8. ~stops => script'.at = script.at + 1 /\ script'.state = IF script.at = Len(script.body) THEN "done" ELSE "running"
  BY <1>1, <1>4 DEF ScriptShape
<1>9. PICK f, e, ch, is : f = family /\ e = line.entry /\ ch = children /\ is = line.is
  OBVIOUS
<1>10. is = "clear" => router' = [static |-> [router.static EXCEPT ![f] = {}], dynamic |-> router.dynamic \ ch]
  <2> SUFFICES ASSUME is = "clear" PROVE router' = [static |-> [router.static EXCEPT ![f] = {}], dynamic |-> router.dynamic \ ch]
    OBVIOUS
  <2> QED
    BY <1>3, <1>9
<1>11. is = "add" => router' = [static |-> [router.static EXCEPT ![f] = @ \cup {e}], dynamic |-> router.dynamic]
  <2> SUFFICES ASSUME is = "add" PROVE router' = [static |-> [router.static EXCEPT ![f] = @ \cup {e}], dynamic |-> router.dynamic]
    OBVIOUS
  <2>1. router' = [router EXCEPT !.static[f] = @ \cup {e}]
    BY <1>3, <1>9
  <2> QED
    BY <1>1, <2>1, FilledRouter
<1>12. is \notin {"clear", "add"} => router' = router
  BY <1>3, <1>9
<1>13. RouterShape'
  BY <1>1, <1>10, <1>11, <1>12 DEF RouterShape
<1>14. is = "clear" => router'.static = [router.static EXCEPT ![f] = {}] /\ router'.dynamic = router.dynamic \ ch
  BY <1>10
<1>15. is = "add" => router'.static = [router.static EXCEPT ![f] = @ \cup {e}] /\ router'.dynamic = router.dynamic
  BY <1>11
<1>16. line.is = "clear" =>
              /\ router'.static = [router.static EXCEPT ![family] = {}]
              /\ router'.dynamic = router.dynamic \ {d \in router.dynamic : d[1] = family}
  BY <1>9, <1>14
<1>17. line.is = "add" =>
              /\ router'.static = [router.static EXCEPT ![family] = @ \cup {line.entry}]
              /\ router'.dynamic = router.dynamic
  BY <1>9, <1>15
<1>18. line.is \notin {"clear", "add"} => router' = router
  BY <1>9, <1>12
<1> QED
  BY <1>1, <1>5, <1>7, <1>8, <1>13, <1>16, <1>17, <1>18, Zenon

\* A line that empties a list takes its routes and the lines of its children away.
LEMMA LineEmpties ==
  ASSUME ImportInv, ImportLine, NEW line, NEW family, line = script.body[script.at], family = line.of[1],
         line.is = "clear"
  PROVE  /\ router'.static = [router.static EXCEPT ![family] = {}]
         /\ router'.dynamic = router.dynamic \ {d \in router.dynamic : d[1] = family}
<1> DEFINE children == {d \in router.dynamic : d[1] = family}
<1>1. router' = [static |-> [router.static EXCEPT ![family] = {}], dynamic |-> router.dynamic \ children]
  BY DEF ImportLine
<1> HIDE DEF children
<1>2. router'.static = [router.static EXCEPT ![family] = {}] /\ router'.dynamic = router.dynamic \ children
  BY <1>1
<1> QED
  BY <1>2 DEF children

LEMMA LineKeepsImport ==
  ASSUME ImportInv, ImportLine, NEW m \in Nat, NEW n \in Nat,
         Replacing(script.body, ScriptOf(script.body), m, n), ImportIsOn(m, n)
  PROVE  ImportIsOn(m, n)'
<1>1. PICK b, k, static, line : b = script.body /\ k = script.at /\ static = router.static /\ line = b[k]
  OBVIOUS
<1>2. PICK family : family = line.of[1]
  OBVIOUS
<1>3. /\ script.state = "running" /\ script'.body = b
      /\ line.is = "clear" =>
           /\ router'.static = [static EXCEPT ![family] = {}]
           /\ router'.dynamic = router.dynamic \ {d \in router.dynamic : d[1] = family}
      /\ line.is = "add" =>
           /\ router'.static = [static EXCEPT ![family] = @ \cup {line.entry}]
           /\ router'.dynamic = router.dynamic
      /\ line.is \notin {"clear", "add"} => router' = router
      /\ (/\ (line.is = "clear" => line.of[2] # AllRows \/ \A d \in router.dynamic : d[1] = family => d[2] \notin static[family])
          /\ (line.is = "add" => line.entry \notin static[family])) =>
           script'.at = k + 1 /\ script'.state = IF k = Len(b) THEN "done" ELSE "running"
  <2>1. line = script.body[script.at] /\ family = line.of[1]
    BY <1>1, <1>2
  <2>2. script.state = "running" /\ script'.body = b
    BY <1>1, <2>1, LineDoes
  <2>3. line.is = "clear" =>
          /\ router'.static = [static EXCEPT ![family] = {}]
          /\ router'.dynamic = router.dynamic \ {d \in router.dynamic : d[1] = family}
    <3> SUFFICES ASSUME line.is = "clear"
                 PROVE  /\ router'.static = [router.static EXCEPT ![family] = {}]
                        /\ router'.dynamic = router.dynamic \ {d \in router.dynamic : d[1] = family}
      BY <1>1
    <3> QED
      BY <2>1, LineEmpties
  <2>4. line.is = "add" =>
          /\ router'.static = [static EXCEPT ![family] = @ \cup {line.entry}]
          /\ router'.dynamic = router.dynamic
    BY <1>1, <2>1, LineDoes
  <2>5. line.is \notin {"clear", "add"} => router' = router
    BY <2>1, LineDoes
  <2>6. (/\ (line.is = "clear" => line.of[2] # AllRows \/ \A d \in router.dynamic : d[1] = family => d[2] \notin static[family])
         /\ (line.is = "add" => line.entry \notin static[family])) =>
          script'.at = k + 1 /\ script'.state = IF k = Len(b) THEN "done" ELSE "running"
    BY <1>1, <2>1, LineDoes
  <2> QED
    BY <2>2, <2>3, <2>4, <2>5, <2>6
<1>4. static = [f \in Families |-> static[f]]
  BY <1>1 DEF ImportInv, RouterShape
<1>5. k \in 1 .. 6 + m + n /\ k \in Nat /\ Len(b) = 6 + m + n
  BY <1>1, <1>3 DEF ImportIsOn, Replacing, HasLines
<1>6. /\ b[1].is = "section" /\ b[4 + m].is = "section"
      /\ b[2].is = "clear" /\ b[2].of[1] = 4 /\ b[2].of[2] # AllRows
      /\ b[3].is = "clear" /\ b[3].of[1] = 4
      /\ b[5 + m].is = "clear" /\ b[5 + m].of[1] = 6 /\ b[5 + m].of[2] # AllRows
      /\ b[6 + m].is = "clear" /\ b[6 + m].of[1] = 6
  BY <1>1, LineHas DEF Replacing, Clear, StaticRows, AllRows
<1>7. /\ \A j \in 4 .. 3 + m : b[j].is = "add" /\ b[j].of[1] = 4
      /\ \A j \in 7 + m .. 6 + m + n : b[j].is = "add" /\ b[j].of[1] = 6
  BY <1>1 DEF Replacing
<1>8. /\ \A i, j \in 4 .. 3 + m : b[i].entry = b[j].entry => i = j
      /\ \A i, j \in 7 + m .. 6 + m + n : b[i].entry = b[j].entry => i = j
  BY <1>1 DEF Replacing
<1> DEFINE first(at) == {b[j].entry : j \in {i \in 4 .. 3 + m : i < at}}
           second(at) == {b[j].entry : j \in {i \in 7 + m .. 6 + m + n : i < at}}
<1>9. k > 2 => static[4] = first(k) /\ ChildrenOf(4)
  BY <1>1 DEF ImportIsOn
<1>10. k > 5 + m => static[6] = second(k) /\ ChildrenOf(6)
  BY <1>1 DEF ImportIsOn
<1>11. k = 1 \/ k = 2 \/ k = 3 \/ k \in 4 .. 3 + m \/ k = 4 + m \/ k = 5 + m \/ k = 6 + m \/ k \in 7 + m .. 6 + m + n
  BY <1>5
<1>12. first(3) = {} /\ first(4) = {} /\ second(6 + m) = {} /\ second(7 + m) = {}
  OBVIOUS
<1>13. k > 3 + m => first(k) = first(k + 1)
  BY <1>5
<1>14. k < 7 + m => second(k) = second(k + 1)
  BY <1>5
<1>15. ASSUME script'.at = k + 1, script'.state = IF k = Len(b) THEN "done" ELSE "running",
              k + 1 > 2 => router'.static[4] = first(k + 1) /\ ChildrenOf(4)',
              k + 1 > 5 + m => router'.static[6] = second(k + 1) /\ ChildrenOf(6)'
       PROVE  ImportIsOn(m, n)'
  <2>1. k + 1 \in 1 .. 7 + m + n /\ (k = 6 + m + n <=> k + 1 = 7 + m + n) /\ (k # 6 + m + n => k + 1 <= 6 + m + n)
    BY <1>5
  <2>2. script'.state \in {"running", "done"}
        /\ (script'.state = "running" => script'.at <= 6 + m + n) /\ (script'.state = "done" => script'.at = 7 + m + n)
    BY <1>5, <1>15, <2>1
  <2>3. script'.at > 2 => router'.static[4] = {script'.body[j].entry : j \in {i \in 4 .. 3 + m : i < script'.at}} /\ ChildrenOf(4)'
    BY <1>3, <1>15
  <2>4. script'.at > 5 + m =>
          router'.static[6] = {script'.body[j].entry : j \in {i \in 7 + m .. 6 + m + n : i < script'.at}} /\ ChildrenOf(6)'
    BY <1>3, <1>15
  <2> QED
    BY <1>15, <2>1, <2>2, <2>3, <2>4 DEF ImportIsOn
<1>16. CASE k = 1 \/ k = 4 + m
  <2>1. line.is = "section" /\ line.is \notin {"clear", "add"}
    BY <1>1, <1>6, <1>16
  <2>2. router' = router /\ script'.at = k + 1 /\ script'.state = IF k = Len(b) THEN "done" ELSE "running"
    BY <1>3, <2>1
  <2>3. \A f \in Families : ChildrenOf(f) => ChildrenOf(f)'
    BY <2>2 DEF ChildrenOf
  <2>4. k + 1 > 2 => router'.static[4] = first(k + 1) /\ ChildrenOf(4)'
    BY <1>1, <1>5, <1>9, <1>13, <1>16, <2>2, <2>3 DEF Families
  <2>5. ~(k + 1 > 5 + m)
    BY <1>16
  <2> QED
    BY <1>15, <2>2, <2>4, <2>5
<1>17. CASE k = 2 \/ k = 3
  <2>1. line.is = "clear" /\ family = 4
    BY <1>1, <1>2, <1>6, <1>17
  <2>2. line.of[2] # AllRows \/ \A d \in router.dynamic : d[1] = family => d[2] \notin static[family]
    BY <1>1, <1>6, <1>9, <1>12, <1>17, <2>1
  <2>3. script'.at = k + 1 /\ script'.state = IF k = Len(b) THEN "done" ELSE "running"
    BY <1>3, <2>1, <2>2
  <2>4. router'.static[4] = {} /\ \A d \in router'.dynamic : d[1] # 4
    BY <1>3, <1>4, <2>1 DEF Families
  <2>5. router'.static[4] = first(k + 1) /\ ChildrenOf(4)'
    BY <1>12, <1>17, <2>4 DEF ChildrenOf
  <2>6. ~(k + 1 > 5 + m)
    BY <1>17
  <2> QED
    BY <1>15, <2>3, <2>5, <2>6
<1>18. CASE k \in 4 .. 3 + m
  <2>1. line.is = "add" /\ family = 4
    BY <1>1, <1>2, <1>7, <1>18
  <2>2. line.entry \notin static[4]
    <3>1. static[4] = first(k)
      BY <1>9, <1>18
    <3>2. \A j \in 4 .. 3 + m : j < k => b[j].entry # b[k].entry
      BY <1>8, <1>18
    <3> QED
      BY <1>1, <3>1, <3>2
  <2>3. script'.at = k + 1 /\ script'.state = IF k = Len(b) THEN "done" ELSE "running"
    BY <1>3, <2>1, <2>2
  <2>4. router'.static[4] = static[4] \cup {line.entry} /\ router'.dynamic = router.dynamic
    BY <1>3, <1>4, <2>1 DEF Families
  <2>5. first(k + 1) = first(k) \cup {line.entry}
    <3>1. \A j \in 4 .. 3 + m : j < k + 1 <=> j < k \/ j = k
      BY <1>5
    <3>2. ASSUME NEW e PROVE e \in first(k + 1) <=> e \in first(k) \cup {line.entry}
      BY <1>1, <1>18, <3>1
    <3> HIDE DEF first
    <3> QED
      BY <3>2
  <2>6. ChildrenOf(4)'
    BY <1>1, <1>9, <1>18, <2>4 DEF ChildrenOf
  <2>7. router'.static[4] = first(k + 1)
    BY <1>9, <1>18, <2>4, <2>5
  <2>8. ~(k + 1 > 5 + m)
    BY <1>18
  <2> QED
    BY <1>15, <2>3, <2>6, <2>7, <2>8
<1>19. CASE k = 5 + m \/ k = 6 + m
  <2>1. line.is = "clear" /\ family = 6
    BY <1>1, <1>2, <1>6, <1>19
  <2>2. line.of[2] # AllRows \/ \A d \in router.dynamic : d[1] = family => d[2] \notin static[family]
    BY <1>1, <1>6, <1>10, <1>12, <1>19, <2>1
  <2>3. script'.at = k + 1 /\ script'.state = IF k = Len(b) THEN "done" ELSE "running"
    BY <1>3, <2>1, <2>2
  <2>4. router'.static[6] = {} /\ router'.static[4] = static[4] /\ router'.dynamic \subseteq router.dynamic
        /\ \A d \in router'.dynamic : d[1] # 6
    BY <1>3, <1>4, <2>1 DEF Families
  <2>5. router'.static[6] = second(k + 1) /\ ChildrenOf(6)'
    BY <1>12, <1>19, <2>4 DEF ChildrenOf
  <2>6. k > 2 /\ k > 3 + m
    BY <1>19
  <2>7. router'.static[4] = first(k + 1)
    BY <1>9, <1>13, <2>4, <2>6
  <2>8. ChildrenOf(4)'
    BY <1>1, <1>9, <2>4, <2>6 DEF ChildrenOf
  <2> QED
    BY <1>15, <2>3, <2>5, <2>7, <2>8
<1>20. CASE k \in 7 + m .. 6 + m + n
  <2>1. line.is = "add" /\ family = 6
    BY <1>1, <1>2, <1>7, <1>20
  <2>0. k > 2 /\ k > 3 + m /\ k > 5 + m
    BY <1>20
  <2>2. line.entry \notin static[6]
    <3>1. static[6] = second(k)
      BY <1>10, <2>0
    <3>2. \A j \in 7 + m .. 6 + m + n : j < k => b[j].entry # b[k].entry
      BY <1>8, <1>20
    <3> QED
      BY <1>1, <3>1, <3>2
  <2>3. script'.at = k + 1 /\ script'.state = IF k = Len(b) THEN "done" ELSE "running"
    BY <1>3, <2>1, <2>2
  <2>4. router'.static[6] = static[6] \cup {line.entry} /\ router'.static[4] = static[4] /\ router'.dynamic = router.dynamic
    BY <1>3, <1>4, <2>1 DEF Families
  <2>5. second(k + 1) = second(k) \cup {line.entry}
    <3>1. \A j \in 7 + m .. 6 + m + n : j < k + 1 <=> j < k \/ j = k
      BY <1>5
    <3>2. ASSUME NEW e PROVE e \in second(k + 1) <=> e \in second(k) \cup {line.entry}
      BY <1>1, <1>20, <3>1
    <3> HIDE DEF second
    <3> QED
      BY <3>2
  <2>6. ChildrenOf(6)' /\ ChildrenOf(4)'
    BY <1>1, <1>9, <1>10, <2>0, <2>4 DEF ChildrenOf
  <2>7. router'.static[6] = second(k + 1)
    BY <1>10, <2>0, <2>4, <2>5
  <2>8. router'.static[4] = first(k + 1)
    BY <1>9, <1>13, <2>0, <2>4
  <2> QED
    BY <1>15, <2>3, <2>6, <2>7, <2>8
<1> QED
  BY <1>11, <1>16, <1>17, <1>18, <1>19, <1>20

LEMMA NextKeepsImport ==
  ASSUME FileInv, ImportInv, [Next]_vars
  PROVE  ImportInv'
<1>1. CASE StartImport
  BY <1>1, StartKeepsImport
<1>2. CASE Disconnect
  BY <1>2, EndKeepsImport
<1>3. CASE \E family \in Families : Resolve(family)
  BY <1>3, ResolveKeepsImport
<1>4. CASE ImportLine
  <2>1. RouterShape' /\ ScriptShape' /\ script'.body = script.body /\ script.state = "running"
    BY <1>4, LineDoes
  <2>2. ASSUME NEW m \in Nat, NEW n \in Nat, Replacing(script'.body, ScriptOf(script'.body), m, n)
        PROVE  ImportIsOn(m, n)'
    <3>1. Replacing(script.body, ScriptOf(script.body), m, n)
      BY <2>1, <2>2
    <3>2. ImportIsOn(m, n)
      BY <2>1, <3>1 DEF ImportInv
    <3> QED
      BY <1>4, <3>1, <3>2, LineKeepsImport
  <2> QED
    BY <2>1, <2>2 DEF ImportInv
<1>5. CASE UNCHANGED routerVars
  <2>1. router' = router /\ script' = script
    BY <1>5 DEF routerVars
  <2>2. RouterShape' /\ ScriptShape'
    BY <2>1 DEF ImportInv, RouterShape, ScriptShape
  <2>3. \A m, n : ImportIsOn(m, n) => ImportIsOn(m, n)'
    BY <2>1 DEF ImportIsOn, ChildrenOf
  <2> QED
    BY <2>1, <2>2, <2>3 DEF ImportInv
<1>6. CASE Replan \/ Publish \/ PublishedBefore
  BY <1>5, <1>6 DEF Replan, Publish, PublishedBefore
<1>7. CASE \E p \in Paths \ Relative, content \in Foreign : OperatorWrites(p, content)
  BY <1>5, <1>7 DEF OperatorWrites
<1>8. CASE \E config \in SUBSET Paths : Probe(config)
  BY <1>5, <1>8 DEF Probe, LocalStep
<1>9. CASE Cancel \/ Backup \/ Deploy \/ Verify \/ Rollback \/ Crash
  BY <1>5, <1>9 DEF Cancel, Backup, Deploy, Verify, Rollback, Crash, LocalStep
<1>10. CASE CreateTemporary \/ WriteTemporary \/ Rename
  BY <1>5, <1>10 DEF CreateTemporary, WriteTemporary, Rename, WriteFails, LocalStep
<1>11. CASE UNCHANGED vars
  BY <1>5, <1>11 DEF vars
<1> QED
  BY <1>1, <1>2, <1>3, <1>4, <1>6, <1>7, <1>8, <1>9, <1>10, <1>11 DEF Next

\* While a script of the present form runs, a list holds what the lines past its
\* emptying have added, and no resolved row is in the way of the next line.
THEOREM ImportInvariance == Spec => [](FileInv /\ ImportInv)
<1>1. Init => ImportInv
  <2> SUFFICES ASSUME Init PROVE ImportInv
    OBVIOUS
  <2>1. router = [static |-> [family \in Families |-> {}], dynamic |-> {}]
        /\ script = [body |-> Absent, at |-> 0, state |-> "none"]
    BY DEF Init, NoImport
  <2>2. IsSequence(Absent)
    BY NoLine DEF Absent, HasLines
  <2> QED
    BY <2>1, <2>2 DEF ImportInv, RouterShape, ScriptShape
<1>2. FileInv /\ ImportInv /\ [Next]_vars => ImportInv'
  BY NextKeepsImport
<1> QED
  BY <1>1, <1>2, FileInvariance, PTL DEF Spec

\* An import replaces what was there: it never stops at a row that went with its
\* name, and once it is through both lists hold the entries of the script.
THEOREM ImportsReplace == Spec => []ImportReplaces
<1>1. FileInv /\ ImportInv => ImportReplaces
  <2> SUFFICES ASSUME ImportInv, script.state \in {"stopped", "done"},
                      script.body = RenderScript(ScriptOf(script.body), FALSE)
               PROVE  /\ script.state = "done"
                      /\ router.static = ScriptOf(script.body)
                      /\ \A d \in router.dynamic : d[2] \in ScriptOf(script.body)[d[1]]
    BY DEF ImportReplaces
  <2>1. PICK b, lists : b = script.body /\ lists = ScriptOf(script.body)
    OBVIOUS
  <2>2. \E m, n \in Nat : Replacing(b, lists, m, n)
    BY <2>1, ReplacingIs DEF ImportInv, ScriptShape
  <2>3. PICK m \in Nat, n \in Nat : Replacing(b, lists, m, n)
    BY <2>2
  <2>4. ImportIsOn(m, n)
    BY <2>1, <2>3 DEF ImportInv
  <2>5. script.state = "done" /\ script.at = 7 + m + n
    BY <2>4 DEF ImportIsOn
  <2>6. {k \in 4 .. 3 + m : k < script.at} = 4 .. 3 + m
        /\ {k \in 7 + m .. 6 + m + n : k < script.at} = 7 + m .. 6 + m + n
    BY <2>5
  <2>7. script.at > 2 /\ script.at > 5 + m
    BY <2>5
  <2>8. router.static[4] = {b[j].entry : j \in 4 .. 3 + m} /\ ChildrenOf(4)
        /\ router.static[6] = {b[j].entry : j \in 7 + m .. 6 + m + n} /\ ChildrenOf(6)
    BY <2>1, <2>4, <2>6, <2>7 DEF ImportIsOn
  <2>9. router.static[4] = lists[4] /\ router.static[6] = lists[6]
    BY <2>3, <2>8 DEF Replacing
  <2>10. lists = [family \in Families |-> lists[family]]
         /\ router.static = [family \in Families |-> router.static[family]]
         /\ \A d \in router.dynamic : d[1] \in Families
    BY <2>3 DEF Replacing, ImportInv, RouterShape
  <2>11. \A family \in Families : router.static[family] = lists[family] /\ ChildrenOf(family)
    BY <2>8, <2>9 DEF Families
  <2>12. router.static = lists
    BY <2>10, <2>11
  <2>13. \A d \in router.dynamic : d[2] \in lists[d[1]]
    BY <2>10, <2>11 DEF ChildrenOf
  <2> QED
    BY <2>1, <2>5, <2>12, <2>13
<1> QED
  BY <1>1, ImportInvariance, PTL

-----------------------------------------------------------------------------
(* What is accepted, and what says the same.                                 *)

LEMMA WithoutIs ==
  ASSUME NEW T, NEW s \in Seq(T), NEW i \in 1 .. Len(s)
  PROVE  Without(s, i) \in Seq(T) /\ Len(Without(s, i)) = Len(s) - 1
<1>1. Len(s) \in Nat /\ \A j \in 1 .. Len(s) : s[j] \in T
  BY LenProperties, ElementOfSeq
<1>2. PICK a : a = SubSeq(s, 1, i - 1)
  OBVIOUS
<1>3. PICK z : z = SubSeq(s, i + 1, Len(s))
  OBVIOUS
<1>4. a \in Seq(T) /\ Len(a) = i - 1
  <2>1. 1 \in Int /\ i - 1 \in Int /\ \A j \in 1 .. i - 1 : s[j] \in T
    BY <1>1
  <2>2. SubSeq(s, 1, i - 1) \in Seq(T) /\ Len(SubSeq(s, 1, i - 1)) = IF 1 <= i - 1 THEN i - 1 - 1 + 1 ELSE 0
    BY <2>1, SubSeqProperties
  <2>3. (IF 1 <= i - 1 THEN i - 1 - 1 + 1 ELSE 0) = i - 1
    BY <1>1
  <2> QED
    BY <1>2, <2>2, <2>3
<1>5. z \in Seq(T) /\ Len(z) = Len(s) - i
  <2>1. i + 1 \in Int /\ Len(s) \in Int /\ \A j \in i + 1 .. Len(s) : s[j] \in T
    BY <1>1
  <2>2. SubSeq(s, i + 1, Len(s)) \in Seq(T)
        /\ Len(SubSeq(s, i + 1, Len(s))) = IF i + 1 <= Len(s) THEN Len(s) - (i + 1) + 1 ELSE 0
    BY <2>1, SubSeqProperties
  <2>3. (IF i + 1 <= Len(s) THEN Len(s) - (i + 1) + 1 ELSE 0) = Len(s) - i
    BY <1>1
  <2> QED
    BY <1>3, <2>2, <2>3
<1>6. a \o z \in Seq(T) /\ Len(a \o z) = Len(a) + Len(z)
  BY <1>4, <1>5, ConcatProperties
<1>7. Len(a) + Len(z) = Len(s) - 1
  BY <1>1, <1>4, <1>5
<1> QED
  BY <1>2, <1>3, <1>6, <1>7 DEF Without

LEMMA WithIs ==
  ASSUME NEW T, NEW s \in Seq(T), NEW i \in 0 .. Len(s), NEW x \in T
  PROVE  With(s, i, x) \in Seq(T) /\ Len(With(s, i, x)) = Len(s) + 1
<1>1. Len(s) \in Nat /\ \A j \in 1 .. Len(s) : s[j] \in T
  BY LenProperties, ElementOfSeq
<1>2. PICK a : a = SubSeq(s, 1, i)
  OBVIOUS
<1>3. PICK z : z = SubSeq(s, i + 1, Len(s))
  OBVIOUS
<1>4. a \in Seq(T) /\ Len(a) = i
  <2>1. 1 \in Int /\ i \in Int /\ \A j \in 1 .. i : s[j] \in T
    BY <1>1
  <2>2. SubSeq(s, 1, i) \in Seq(T) /\ Len(SubSeq(s, 1, i)) = IF 1 <= i THEN i - 1 + 1 ELSE 0
    BY <2>1, SubSeqProperties
  <2>3. (IF 1 <= i THEN i - 1 + 1 ELSE 0) = i
    BY <1>1
  <2> QED
    BY <1>2, <2>2, <2>3
<1>5. z \in Seq(T) /\ Len(z) = Len(s) - i
  <2>1. i + 1 \in Int /\ Len(s) \in Int /\ \A j \in i + 1 .. Len(s) : s[j] \in T
    BY <1>1
  <2>2. SubSeq(s, i + 1, Len(s)) \in Seq(T)
        /\ Len(SubSeq(s, i + 1, Len(s))) = IF i + 1 <= Len(s) THEN Len(s) - (i + 1) + 1 ELSE 0
    BY <2>1, SubSeqProperties
  <2>3. (IF i + 1 <= Len(s) THEN Len(s) - (i + 1) + 1 ELSE 0) = Len(s) - i
    BY <1>1
  <2> QED
    BY <1>3, <2>2, <2>3
<1>6. PICK l : l = <<x>>
  OBVIOUS
<1>7. l \in Seq(T) /\ Len(l) = 1
  BY <1>6
<1>8. PICK al : al = a \o l
  OBVIOUS
<1>9. a \o l \in Seq(T) /\ Len(a \o l) = Len(a) + Len(l)
  BY <1>4, <1>7, ConcatProperties
<1>10. al \in Seq(T) /\ Len(al) = Len(a) + Len(l)
  BY <1>8, <1>9
<1>11. al \o z \in Seq(T) /\ Len(al \o z) = Len(al) + Len(z)
  BY <1>5, <1>10, ConcatProperties
<1>12. Len(al) + Len(z) = Len(s) + 1
  BY <1>1, <1>4, <1>5, <1>7, <1>10
<1> QED
  BY <1>2, <1>3, <1>6, <1>8, <1>11, <1>12 DEF With

LEMMA EditsAre ==
  ASSUME NEW s, IsSequence(s), NEW other \in Edits(s)
  PROVE  IsSequence(other) /\ ToSet(other) \subseteq ToSet(s) /\ Len(other) \in Len(s) - 1 .. Len(s) + 1
<1>1. PICK T : T = ToSet(s)
  OBVIOUS
<1>2. s \in Seq(T) /\ Len(s) \in Nat /\ \A i \in 1 .. Len(s) : s[i] \in T
  BY <1>1, SequenceIs DEF IsSequence, ToSet
<1>3. PICK i \in 1 .. Len(s) :
        other \in {Without(s, i), With(s, i, s[i])} \cup {With(Without(s, i), j, s[i]) : j \in 0 .. Len(s) - 1}
  BY DEF Edits
<1>4. Without(s, i) \in Seq(T) /\ Len(Without(s, i)) = Len(s) - 1
  BY <1>2, WithoutIs
<1>5. other \in Seq(T) /\ Len(other) \in Len(s) - 1 .. Len(s) + 1
  <2>1. CASE other = Without(s, i)
    BY <1>2, <1>4, <2>1
  <2>2. CASE other = With(s, i, s[i])
    <3>1. i \in 0 .. Len(s) /\ s[i] \in T
      BY <1>2
    <3>2. With(s, i, s[i]) \in Seq(T) /\ Len(With(s, i, s[i])) = Len(s) + 1
      BY <1>2, <3>1, WithIs
    <3> QED
      BY <1>2, <2>2, <3>2
  <2>3. CASE \E j \in 0 .. Len(s) - 1 : other = With(Without(s, i), j, s[i])
    <3>1. PICK j \in 0 .. Len(s) - 1 : other = With(Without(s, i), j, s[i])
      BY <2>3
    <3>2. PICK w : w = Without(s, i)
      OBVIOUS
    <3>3. w \in Seq(T) /\ j \in 0 .. Len(w) /\ s[i] \in T
      BY <1>2, <1>4, <3>2
    <3>4. With(w, j, s[i]) \in Seq(T) /\ Len(With(w, j, s[i])) = Len(w) + 1
      BY <3>3, WithIs
    <3> QED
      BY <1>2, <1>4, <3>1, <3>2, <3>4
  <2> QED
    BY <1>3, <2>1, <2>2, <2>3
<1>6. IsSequence(other)
  BY <1>5, IsSequenceIn
<1>7. ToSet(other) \subseteq T
  <2>1. \A j \in DOMAIN other : other[j] \in T
    BY <1>5, ElementOfSeq, LenProperties
  <2> QED
    BY <2>1 DEF ToSet
<1> QED
  BY <1>1, <1>5, <1>6, <1>7

\* An accepted script tells its lists by its lines alone.
LEMMA ListsByLines ==
  ASSUME NEW b, IsSequence(b), ParseScript(b)
  PROVE  /\ ScriptOf(b) = [family \in Families |-> {l.entry : l \in {k \in ToSet(b) : k.is = "add" /\ k.of[1] = family}}]
         /\ \A l \in ToSet(b) : l.is \in {"section", "clear", "add"}
<1>1. ToSet(b) = {b[i] : i \in 1 .. Len(b)}
  BY SequenceIs
<1>2. ASSUME NEW i \in 1 .. Len(b)
      PROVE  b[i].is \in {"section", "clear", "add"} /\ (b[i].is = "add" => SectionAt(b, i) = b[i].of[1])
  <2>1. CASE b[i].is = "section"
    BY <2>1
  <2>2. CASE b[i].is # "section"
    BY <2>2 DEF ParseScript
  <2> QED
    BY <2>1, <2>2
<1>3. ASSUME NEW family \in Families
      PROVE  {b[i].entry : i \in {j \in 1 .. Len(b) : b[j].is = "add" /\ SectionAt(b, j) = family}}
               = {l.entry : l \in {k \in ToSet(b) : k.is = "add" /\ k.of[1] = family}}
  <2>1. ASSUME NEW i \in 1 .. Len(b), b[i].is = "add", SectionAt(b, i) = family
        PROVE  b[i].entry \in {l.entry : l \in {k \in ToSet(b) : k.is = "add" /\ k.of[1] = family}}
    BY <1>1, <1>2, <2>1
  <2>2. ASSUME NEW k \in ToSet(b), k.is = "add", k.of[1] = family
        PROVE  k.entry \in {b[i].entry : i \in {j \in 1 .. Len(b) : b[j].is = "add" /\ SectionAt(b, j) = family}}
    BY <1>1, <1>2, <2>2
  <2> QED
    BY <2>1, <2>2
<1>4. \A l \in ToSet(b) : l.is \in {"section", "clear", "add"}
  BY <1>1, <1>2
<1> QED
  BY <1>3, <1>4 DEF ScriptOf

\* The two forms of a script are of different lengths, by two lines at least.
LEMMA FormsDiffer ==
  ASSUME NEW lists, IsFiniteSet(lists[4]), IsFiniteSet(lists[6])
  PROVE  \E m, n \in Nat : HasLines(RenderScript(lists, FALSE), m) /\ HasLines(RenderScript(lists, TRUE), n) /\ n + 2 <= m
<1>1. PICK m, n : m = Cardinality(lists[4]) /\ n = Cardinality(lists[6])
  OBVIOUS
<1>2. m \in Nat /\ n \in Nat /\ (lists[4] = {} => m = 0) /\ (lists[6] = {} => n = 0)
  BY <1>1, FS_CardinalityType, FS_EmptySet
<1>3. HasLines(RenderScript(lists, FALSE), 6 + m + n)
  BY <1>1, ScriptIs DEF ScriptLines
<1>4. PICK s, t : s = Section(lists[4], TRUE, 4) /\ t = Section(lists[6], TRUE, 6)
  OBVIOUS
<1>5. PICK k, l : k = (IF lists[4] = {} THEN 0 ELSE 2 + m) /\ l = IF lists[6] = {} THEN 0 ELSE 2 + n
  OBVIOUS
<1>6. HasLines(s, k) /\ HasLines(t, l)
  BY <1>1, <1>4, <1>5, OldSectionIs
<1>7. HasLines(Joined(s, t), k + l)
  BY <1>6, JoinIs
<1>8. HasLines(RenderScript(lists, TRUE), k + l)
  BY <1>4, <1>7, ScriptIsSections
<1>9. k + l \in Nat /\ 6 + m + n \in Nat /\ (k + l) + 2 <= 6 + m + n
  BY <1>2, <1>5
<1> QED
  BY <1>3, <1>8, <1>9

LEMMA LinesDecide ==
  ASSUME NEW f \in Formats \ {"script"}, NEW a, NEW b, IsSequence(a), IsSequence(b), ToSet(a) = ToSet(b),
         Parse(f, a), Parse(f, b)
  PROVE  a = b
<1>1. CASE f = "bat"
  BY <1>1 DEF Parse, ParseBat
<1>2. CASE f = "groups"
  <2>1. GroupsOf(a) = GroupsOf(b)
    BY DEF GroupsOf
  <2> QED
    BY <1>2, <2>1 DEF Parse, ParseGroups
<1>3. CASE f = "nftset"
  BY <1>3 DEF Parse, ParseNftset
<1>4. CASE f = "sites"
  BY <1>4 DEF Parse, ParseSites
<1>5. CASE f = "ruleset"
  <2>1. RuleSetOf(a) = RuleSetOf(b)
    BY DEF RuleSetOf
  <2> QED
    BY <1>5, <2>1 DEF Parse, ParseRuleSet
<1> QED
  BY <1>1, <1>2, <1>3, <1>4, <1>5 DEF Formats

LEMMA LinesOfEntries ==
  ASSUME NEW f \in Formats \ {"script"}, NEW a, IsSequence(a), Parse(f, a)
  PROVE  \A l \in ToSet(a) : l.is \notin {"section", "clear"}
<1>0. ToSet(a) = {a[i] : i \in 1 .. Len(a)}
  BY SequenceIs
<1>1. CASE f = "bat"
  BY <1>0, <1>1 DEF Parse, ParseBat
<1>2. CASE f = "groups"
  BY <1>2 DEF Parse, ParseGroups
<1>3. CASE f = "nftset"
  BY <1>3 DEF Parse, ParseNftset
<1>4. CASE f = "sites"
  BY <1>4 DEF Parse, ParseSites
<1>5. CASE f = "ruleset"
  BY <1>5 DEF Parse, ParseRuleSet
<1> QED
  BY <1>1, <1>2, <1>3, <1>4, <1>5 DEF Formats

\* Two scripts with the same entries are the same, or of the two forms.
LEMMA ScriptsDecide ==
  ASSUME NEW a, NEW b, IsSequence(a), IsSequence(b), ParseScript(a), ParseScript(b), ToSet(b) \subseteq ToSet(a),
         Len(b) \in Len(a) - 1 .. Len(a) + 1, \A l \in ToSet(a) \ ToSet(b) : l.is \in {"section", "clear"}
  PROVE  a = b
<1>1. ScriptOf(a) = ScriptOf(b)
  <2>1. \A family \in Families :
          {l.entry : l \in {k \in ToSet(a) : k.is = "add" /\ k.of[1] = family}}
            = {l.entry : l \in {k \in ToSet(b) : k.is = "add" /\ k.of[1] = family}}
    <3>1. \A k : k.is = "add" => (k \in ToSet(a) <=> k \in ToSet(b))
      OBVIOUS
    <3> QED
      BY <3>1
  <2> QED
    BY <2>1, ListsByLines
<1>2. PICK lists : lists = ScriptOf(a)
  OBVIOUS
<1>3. IsFiniteSet(lists[4]) /\ IsFiniteSet(lists[6])
  BY <1>2, ListsAreFinite DEF Families
<1>4. a \in {RenderScript(lists, TRUE), RenderScript(lists, FALSE)} /\ b \in {RenderScript(lists, TRUE), RenderScript(lists, FALSE)}
  <2>1. a \in {RenderScript(lists, TRUE), RenderScript(lists, FALSE)}
    <3>1. PICK legacy \in BOOLEAN : a = RenderScript(ScriptOf(a), legacy)
      BY DEF ParseScript
    <3> QED
      BY <1>2, <3>1
  <2>2. b \in {RenderScript(lists, TRUE), RenderScript(lists, FALSE)}
    <3>1. PICK legacy \in BOOLEAN : b = RenderScript(ScriptOf(b), legacy)
      BY DEF ParseScript
    <3> QED
      BY <1>1, <1>2, <3>1
  <2> QED
    BY <2>1, <2>2
<1>5. PICK m \in Nat, n \in Nat : HasLines(RenderScript(lists, FALSE), m) /\ HasLines(RenderScript(lists, TRUE), n) /\ n + 2 <= m
  BY <1>3, FormsDiffer
<1>6. Len(RenderScript(lists, FALSE)) = m /\ Len(RenderScript(lists, TRUE)) = n
  BY <1>5 DEF HasLines
<1>7. Len(a) \in Nat /\ Len(b) \in Nat
  BY SequenceIs
<1>8. PICK first, present : first = RenderScript(lists, TRUE) /\ present = RenderScript(lists, FALSE)
  OBVIOUS
<1>9. a \in {first, present} /\ b \in {first, present} /\ Len(first) = n /\ Len(present) = m
  BY <1>4, <1>6, <1>8
<1>10. Len(b) >= Len(a) - 1 /\ Len(b) <= Len(a) + 1
  BY <1>7
<1>11. ~(a = first /\ b = present) /\ ~(a = present /\ b = first)
  BY <1>5, <1>9, <1>10
<1> QED
  BY <1>9, <1>11

\* Whoever accepts a file of the same meaning has the same bytes.
THEOREM FilesAreTheirMeaning == Spec => []OneFileForOneMeaning
<1>1. FileInv => OneFileForOneMeaning
  <2> SUFFICES ASSUME FileInv, NEW other \in Edits(file) \ {file}, Parse(target, other)
               PROVE  ToSet(other) \subseteq ToSet(file)
                      /\ \E l \in ToSet(file) \ ToSet(other) : l.is \notin {"section", "clear"}
    BY DEF OneFileForOneMeaning
  <2>1. IsSequence(file) /\ target \in Formats
    BY DEF FileInv
  <2>2. IsSequence(other) /\ ToSet(other) \subseteq ToSet(file) /\ Len(other) \in Len(file) - 1 .. Len(file) + 1
    BY <2>1, EditsAre
  <2>3. Parse(target, file)
    <3>1. CASE file = Absent
      <4>1. Len(file) = 0
        BY <3>1 DEF Absent
      <4>2. Edits(file) = {}
        BY <4>1 DEF Edits
      <4> QED
        BY <4>2
    <3> QED
      BY <3>1 DEF FileInv
  <2>4. ASSUME \A l \in ToSet(file) \ ToSet(other) : l.is \in {"section", "clear"} PROVE FALSE
    <3>1. CASE target = "script"
      <4>1. ParseScript(file) /\ ParseScript(other)
        BY <2>3, <3>1 DEF Parse
      <4>2. file = other
        BY <2>1, <2>2, <2>4, <4>1, ScriptsDecide
      <4> QED
        BY <4>2
    <3>2. CASE target # "script"
      <4>1. ToSet(file) = ToSet(other)
        BY <2>1, <2>2, <2>3, <2>4, <3>2, LinesOfEntries
      <4>2. file = other
        BY <2>1, <2>2, <2>3, <3>2, <4>1, LinesDecide
      <4> QED
        BY <4>2
    <3> QED
      BY <3>1, <3>2
  <2> QED
    BY <2>2, <2>4
<1> QED
  BY <1>1, FileInvariance, PTL

-----------------------------------------------------------------------------
(* The order of the entries: every number up to theirs is the rank of one.   *)

LEMMA LeastNumber ==
  ASSUME NEW S, S \subseteq Nat, S # {}
  PROVE  \E m \in S : \A n \in S : m <= n
<1>1. PICK m \in S : \A n \in S : ~ (<<n, m>> \in OpToRel(<, Nat))
  BY WFMin, NatLessThanWellFounded, Zenon
<1>2. ASSUME NEW n \in S PROVE m <= n
  <2>1. m \in Nat /\ n \in Nat
    OBVIOUS
  <2>2. ~ (n < m)
    BY <1>1, <2>1 DEF OpToRel
  <2> QED
    BY <2>1, <2>2
<1> QED
  BY <1>2

Tuples(n) == {s \in Seq(Int) : Len(s) = n}

LEMMA TupleIs ==
  ASSUME NEW n \in Nat, NEW s \in Tuples(n)
  PROVE  /\ Len(s) = n /\ s = [i \in 1 .. n |-> s[i]] /\ \A i \in 1 .. n : s[i] \in Int
BY LenProperties, ElementOfSeq DEF Tuples

LEMMA PrecedesIsStrict ==
  ASSUME NEW n \in Nat, NEW s \in Tuples(n)
  PROVE  ~Precedes(s, s)
BY TupleIs DEF Precedes

LEMMA PrecedesIsTotal ==
  ASSUME NEW n \in Nat, NEW s \in Tuples(n), NEW t \in Tuples(n), s # t
  PROVE  Precedes(s, t) \/ Precedes(t, s)
<1> DEFINE differ == {i \in 1 .. n : s[i] # t[i]}
<1>1. Len(s) = n /\ Len(t) = n /\ (\A i \in 1 .. n : s[i] \in Int /\ t[i] \in Int)
  BY TupleIs
<1>2. differ # {}
  <2> SUFFICES ASSUME \A i \in 1 .. n : s[i] = t[i] PROVE FALSE
    OBVIOUS
  <2>1. s = [i \in 1 .. n |-> s[i]] /\ t = [i \in 1 .. n |-> t[i]]
    BY TupleIs
  <2> QED
    BY <2>1
<1>3. PICK i \in differ : \A j \in differ : i <= j
  <2>1. differ \subseteq Nat
    OBVIOUS
  <2> HIDE DEF differ
  <2> QED
    BY <1>2, <2>1, LeastNumber
<1>4. i \in 1 .. n /\ s[i] # t[i] /\ \A j \in 1 .. i - 1 : s[j] = t[j]
  BY <1>3
<1>5. s[i] < t[i] \/ t[i] < s[i]
  BY <1>1, <1>4
<1> QED
  BY <1>1, <1>4, <1>5 DEF Precedes

LEMMA PrecedesIsTransitive ==
  ASSUME NEW n \in Nat, NEW s \in Tuples(n), NEW t \in Tuples(n), NEW u \in Tuples(n), Precedes(s, t), Precedes(t, u)
  PROVE  Precedes(s, u)
<1>1. Len(s) = n /\ Len(t) = n /\ (\A i \in 1 .. n : s[i] \in Int /\ t[i] \in Int /\ u[i] \in Int)
  BY TupleIs
<1>2. PICK i \in 1 .. n : s[i] < t[i] /\ \A j \in 1 .. i - 1 : s[j] = t[j]
  BY <1>1 DEF Precedes
<1>3. PICK k \in 1 .. n : t[k] < u[k] /\ \A j \in 1 .. k - 1 : t[j] = u[j]
  BY <1>1 DEF Precedes
<1>4. CASE i <= k
  <2>1. s[i] < u[i]
    <3>1. CASE i = k
      BY <1>1, <1>2, <1>3, <3>1
    <3>2. CASE i < k
      <4>1. t[i] = u[i]
        BY <1>3, <3>2
      <4> QED
        BY <1>1, <1>2, <4>1
    <3> QED
      BY <1>4, <3>1, <3>2
  <2>2. \A j \in 1 .. i - 1 : s[j] = u[j]
    BY <1>2, <1>3, <1>4
  <2> QED
    BY <1>1, <2>1, <2>2 DEF Precedes
<1>5. CASE k < i
  <2>1. s[k] = t[k]
    BY <1>2, <1>5
  <2>2. \A j \in 1 .. k - 1 : s[j] = u[j]
    BY <1>2, <1>3, <1>5
  <2> QED
    BY <1>1, <1>3, <2>1, <2>2 DEF Precedes
<1> QED
  BY <1>4, <1>5

\* A strict total order on a finite set, by the sets of what comes before.
LEMMA RanksAreAll ==
  ASSUME NEW S, IsFiniteSet(S), NEW before, DOMAIN before = S,
         \A s \in S : before[s] \subseteq S /\ s \notin before[s],
         \A s, t \in S : s # t => s \in before[t] \/ t \in before[s],
         \A s, t \in S : s \in before[t] => before[s] \subseteq before[t]
  PROVE  /\ \A s, t \in S : Cardinality(before[s]) = Cardinality(before[t]) => s = t
         /\ \A s \in S : Cardinality(before[s]) \in 0 .. Cardinality(S) - 1
         /\ \A i \in 0 .. Cardinality(S) - 1 : \E s \in S : Cardinality(before[s]) = i
<1>1. PICK n : n = Cardinality(S)
  OBVIOUS
<1>2. n \in Nat
  BY <1>1, FS_CardinalityType
<1>3. ASSUME NEW s \in S PROVE IsFiniteSet(before[s]) /\ Cardinality(before[s]) \in 0 .. n - 1
  <2>1. IsFiniteSet(before[s]) /\ Cardinality(before[s]) <= n /\ (n = Cardinality(before[s]) => S = before[s])
    BY <1>1, FS_Subset
  <2>2. Cardinality(before[s]) \in Nat
    BY <2>1, FS_CardinalityType
  <2>3. Cardinality(before[s]) # n
    BY <2>1
  <2> QED
    BY <1>2, <2>1, <2>2, <2>3
<1>4. ASSUME NEW s \in S, NEW t \in S, s \in before[t] PROVE Cardinality(before[s]) # Cardinality(before[t])
  <2>1. before[s] \subseteq before[t] /\ before[s] # before[t]
    BY <1>4
  <2>2. IsFiniteSet(before[t])
    BY <1>3
  <2> QED
    BY <2>1, <2>2, FS_Subset
<1>5. ASSUME NEW s \in S, NEW t \in S, Cardinality(before[s]) = Cardinality(before[t]) PROVE s = t
  BY <1>4, <1>5
<1>6. PICK rank : rank = [s \in S |-> Cardinality(before[s])]
  OBVIOUS
<1>7. rank \in [S -> 0 .. n - 1] /\ \A s, t \in S : rank[s] = rank[t] => s = t
  BY <1>3, <1>5, <1>6
<1>8. rank \in Injection(S, 0 .. n - 1)
  BY <1>7 DEF Injection, IsInjective
<1>9. IsFiniteSet(0 .. n - 1) /\ Cardinality(0 .. n - 1) = n
  <2>1. 0 \in Int /\ n - 1 \in Int
    BY <1>2
  <2>2. IsFiniteSet(0 .. n - 1) /\ Cardinality(0 .. n - 1) = IF 0 > n - 1 THEN 0 ELSE (n - 1) - 0 + 1
    BY <2>1, FS_Interval
  <2> QED
    BY <1>2, <2>2
<1>10. rank \in Surjection(S, 0 .. n - 1)
  BY <1>1, <1>8, <1>9, FS_Injection
<1>11. \A i \in 0 .. n - 1 : \E s \in S : Cardinality(before[s]) = i
  BY <1>6, <1>10 DEF Surjection
<1> QED
  BY <1>1, <1>3, <1>5, <1>11

LEMMA SortedIs ==
  ASSUME NEW S, IsFiniteSet(S), NEW n \in Nat, S \subseteq Tuples(n)
  PROVE  /\ \A i \in 1 .. Cardinality(S) : Sorted(S)[i] \in S
         /\ \A s \in S : \E i \in 1 .. Cardinality(S) : Sorted(S)[i] = s
         /\ \A i, j \in 1 .. Cardinality(S) : Sorted(S)[i] = Sorted(S)[j] => i = j
<1>1. PICK before : before = [s \in S |-> {t \in S : Precedes(t, s)}]
  OBVIOUS
<1>2. DOMAIN before = S
  BY <1>1
<1>3. \A s \in S : before[s] \subseteq S /\ s \notin before[s]
  BY <1>1, PrecedesIsStrict
<1>4. \A s, t \in S : s # t => s \in before[t] \/ t \in before[s]
  BY <1>1, PrecedesIsTotal
<1>5. \A s, t \in S : s \in before[t] => before[s] \subseteq before[t]
  BY <1>1, PrecedesIsTransitive
<1>6. PICK m : m = Cardinality(S)
  OBVIOUS
<1>7. m \in Nat
  BY <1>6, FS_CardinalityType
<1>8. /\ \A s, t \in S : Cardinality(before[s]) = Cardinality(before[t]) => s = t
      /\ \A s \in S : Cardinality(before[s]) \in 0 .. m - 1
      /\ \A i \in 0 .. m - 1 : \E s \in S : Cardinality(before[s]) = i
  BY <1>2, <1>3, <1>4, <1>5, <1>6, RanksAreAll
<1>9. ASSUME NEW i \in 1 .. m PROVE Sorted(S)[i] \in S /\ Cardinality(before[Sorted(S)[i]]) = i - 1
  <2>1. i - 1 \in 0 .. m - 1
    BY <1>7
  <2>2. \E s \in S : Cardinality({t \in S : Precedes(t, s)}) = i - 1
    BY <1>1, <1>8, <2>1
  <2>3. Sorted(S)[i] = CHOOSE s \in S : Cardinality({t \in S : Precedes(t, s)}) = i - 1
    BY <1>6 DEF Sorted
  <2>4. Sorted(S)[i] \in S /\ Cardinality({t \in S : Precedes(t, Sorted(S)[i])}) = i - 1
    BY <2>2, <2>3
  <2> QED
    BY <1>1, <2>4
<1>10. ASSUME NEW s \in S PROVE \E i \in 1 .. m : Sorted(S)[i] = s
  <2>1. PICK i : i = Cardinality(before[s]) + 1
    OBVIOUS
  <2>2. Cardinality(before[s]) \in 0 .. m - 1
    BY <1>8
  <2>3. i \in 1 .. m /\ Cardinality(before[s]) = i - 1
    BY <1>7, <2>1, <2>2
  <2>4. Sorted(S)[i] \in S /\ Cardinality(before[Sorted(S)[i]]) = Cardinality(before[s])
    BY <1>9, <2>3
  <2>5. Sorted(S)[i] = s
    BY <1>8, <2>4
  <2> QED
    BY <2>3, <2>5
<1>11. ASSUME NEW i \in 1 .. m, NEW j \in 1 .. m, Sorted(S)[i] = Sorted(S)[j] PROVE i = j
  <2>1. i - 1 = j - 1
    BY <1>9, <1>11
  <2> QED
    BY <2>1
<1> QED
  BY <1>6, <1>9, <1>10, <1>11

-----------------------------------------------------------------------------
(* A file writes some lines: each of them once.                              *)

Writes(b, lines) ==
  /\ IsSequence(b) /\ ToSet(b) = lines
  /\ \A i, j \in 1 .. Len(b) : b[i] = b[j] => i = j

Saying(lines) == {l \in lines : l.is \notin Commands}

LEMMA EntryLinesAre ==
  ASSUME NEW b, NEW lines, Writes(b, lines)
  PROVE  IsFiniteSet(Saying(lines)) /\ EntryLines(b) = Cardinality(Saying(lines))
<1>1. PICK n : n = Len(b)
  OBVIOUS
<1>2. n \in Nat /\ lines = {b[i] : i \in 1 .. n} /\ \A i, j \in 1 .. n : b[i] = b[j] => i = j
  BY <1>1, SequenceIs DEF Writes
<1>3. PICK I : I = {i \in 1 .. n : b[i].is \notin Commands}
  OBVIOUS
<1>4. IsFiniteSet(I)
  <2>1. IsFiniteSet(1 .. n)
    BY <1>2, FS_Interval
  <2> QED
    BY <1>3, <2>1, FS_Subset
<1>5. PICK f : f = [i \in I |-> b[i]]
  OBVIOUS
<1>6. f \in Bijection(I, Saying(lines))
  <2>1. ASSUME NEW i \in I PROVE b[i] \in Saying(lines)
    BY <1>2, <1>3 DEF Saying
  <2>2. f \in [I -> Saying(lines)]
    BY <1>5, <2>1
  <2>3. \A i, j \in I : f[i] = f[j] => i = j
    BY <1>2, <1>3, <1>5
  <2>4. ASSUME NEW l \in Saying(lines) PROVE \E i \in I : f[i] = l
    BY <1>2, <1>3, <1>5 DEF Saying
  <2> QED
    BY <2>2, <2>3, <2>4 DEF Bijection, Injection, Surjection, IsInjective
<1>7. IsFiniteSet(Saying(lines)) /\ Cardinality(Saying(lines)) = Cardinality(I)
  BY <1>4, <1>6, FS_Bijection DEF ExistsBijection
<1> QED
  BY <1>1, <1>3, <1>7 DEF EntryLines

LEMMA SteeredAre ==
  ASSUME NEW b, NEW lines, Writes(b, lines), NEW f
  PROVE  Steered(f, b) = UNION {Steers(l.entry, f \in {"groups", "nftset"} \/ l.is = "suffix") : l \in Saying(lines)}
<1>1. ToSet(b) = lines
  BY DEF Writes
<1> QED
  BY <1>1 DEF Steered, Saying, Commands

LEMMA NothingWritten == Writes(<<>>, {})
<1>1. IsSequence(<<>>) /\ Len(<<>>) = 0
  BY NoLine DEF HasLines
<1>2. ToSet(<<>>) = {}
  BY <1>1, SequenceIs
<1> QED
  BY <1>1, <1>2 DEF Writes

LEMMA OneWritten ==
  ASSUME NEW x
  PROVE  Writes(Single(x), {x})
<1>1. PICK s : s = Single(x)
  OBVIOUS
<1>2. IsSequence(s) /\ Len(s) = 1 /\ s[1] = x
  BY <1>1, OneLine DEF HasLines
<1>3. ToSet(s) = {s[i] : i \in 1 .. 1}
  BY <1>2, SequenceIs
<1>4. 1 .. 1 = {1}
  OBVIOUS
<1>5. ToSet(s) = {x}
  BY <1>2, <1>3, <1>4
<1> QED
  BY <1>1, <1>2, <1>4, <1>5 DEF Writes

LEMMA BothWritten ==
  ASSUME NEW s, NEW t, NEW K, NEW L, Writes(s, K), Writes(t, L), K \cap L = {}
  PROVE  Writes(Joined(s, t), K \cup L)
<1>1. PICK m : m = Len(s)
  OBVIOUS
<1>2. PICK n : n = Len(t)
  OBVIOUS
<1>3. /\ m \in Nat /\ K = {s[i] : i \in 1 .. m} /\ (\A i, j \in 1 .. m : s[i] = s[j] => i = j)
      /\ n \in Nat /\ L = {t[i] : i \in 1 .. n} /\ (\A i, j \in 1 .. n : t[i] = t[j] => i = j)
      /\ IsSequence(s) /\ IsSequence(t)
  BY <1>1, <1>2, SequenceIs DEF Writes
<1>4. PICK b : b = Joined(s, t)
  OBVIOUS
<1>5. HasLines(s, m) /\ HasLines(t, n)
  BY <1>1, <1>2, <1>3 DEF HasLines
<1>6. /\ HasLines(b, m + n)
      /\ \A i \in 1 .. m : b[i] = s[i]
      /\ \A i \in 1 .. n : b[m + i] = t[i]
  BY <1>4, <1>5, JoinIs
<1>7. IsSequence(b) /\ Len(b) = m + n /\ ToSet(b) = {b[i] : i \in 1 .. m + n}
  BY <1>6, SequenceIs DEF HasLines
<1>8. ASSUME NEW i \in 1 .. m + n PROVE (i \in 1 .. m /\ b[i] = s[i]) \/ (i - m \in 1 .. n /\ b[i] = t[i - m])
  <2>1. CASE i <= m
    BY <1>3, <1>6, <2>1
  <2>2. CASE i > m
    <3>1. i - m \in 1 .. n /\ m + (i - m) = i
      BY <1>3, <2>2
    <3> QED
      BY <1>6, <3>1
  <2> QED
    BY <1>3, <2>1, <2>2
<1>9. ToSet(b) = K \cup L
  <2>1. ASSUME NEW x \in K PROVE x \in ToSet(b)
    <3>1. PICK i \in 1 .. m : x = s[i]
      BY <1>3
    <3> QED
      BY <1>3, <1>6, <1>7, <3>1
  <2>2. ASSUME NEW x \in L PROVE x \in ToSet(b)
    <3>1. PICK i \in 1 .. n : x = t[i]
      BY <1>3
    <3>2. m + i \in 1 .. m + n
      BY <1>3
    <3> QED
      BY <1>6, <1>7, <3>1, <3>2
  <2>3. ASSUME NEW x \in ToSet(b) PROVE x \in K \cup L
    BY <1>3, <1>7, <1>8
  <2> QED
    BY <2>1, <2>2, <2>3
<1>10. ASSUME NEW i \in 1 .. m + n, NEW j \in 1 .. m + n, b[i] = b[j] PROVE i = j
  <2>1. CASE i \in 1 .. m /\ b[i] = s[i]
    <3>1. CASE j \in 1 .. m /\ b[j] = s[j]
      BY <1>3, <1>10, <2>1, <3>1
    <3>2. CASE j - m \in 1 .. n /\ b[j] = t[j - m]
      <4>1. s[i] \in K /\ t[j - m] \in L
        BY <1>3, <2>1, <3>2
      <4> QED
        BY <1>10, <2>1, <3>2, <4>1
    <3> QED
      BY <1>8, <3>1, <3>2
  <2>2. CASE i - m \in 1 .. n /\ b[i] = t[i - m]
    <3>1. CASE j \in 1 .. m /\ b[j] = s[j]
      <4>1. s[j] \in K /\ t[i - m] \in L
        BY <1>3, <2>2, <3>1
      <4> QED
        BY <1>10, <2>2, <3>1, <4>1
    <3>2. CASE j - m \in 1 .. n /\ b[j] = t[j - m]
      <4>1. i - m = j - m
        BY <1>3, <1>10, <2>2, <3>2
      <4> QED
        BY <1>3, <4>1
    <3> QED
      BY <1>8, <3>1, <3>2
  <2> QED
    BY <1>8, <2>1, <2>2
<1> QED
  BY <1>4, <1>7, <1>9, <1>10 DEF Writes

OfKind(is, of, S) == {Line(is, of, e) : e \in S}

LEMMA LinesWritten ==
  ASSUME NEW is, NEW of, NEW S, IsFiniteSet(S), S \subseteq Tuples(3)
  PROVE  Writes(Lines(is, of, S), OfKind(is, of, S))
<1>1. PICK b : b = Lines(is, of, S)
  OBVIOUS
<1>2. PICK n : n = Cardinality(S)
  OBVIOUS
<1>3. IsSequence(b) /\ Len(b) = n /\ n \in Nat /\ \A i \in 1 .. n : b[i] = Line(is, of, Sorted(S)[i])
  BY <1>1, <1>2, LinesAre DEF HasLines
<1>4. ToSet(b) = {b[i] : i \in 1 .. n}
  BY <1>3, SequenceIs
<1>5. 3 \in Nat
  OBVIOUS
<1>6. /\ \A i \in 1 .. n : Sorted(S)[i] \in S
      /\ \A s \in S : \E i \in 1 .. n : Sorted(S)[i] = s
      /\ \A i, j \in 1 .. n : Sorted(S)[i] = Sorted(S)[j] => i = j
  BY <1>2, <1>5, SortedIs
<1>7. ToSet(b) = OfKind(is, of, S)
  BY <1>3, <1>4, <1>6 DEF OfKind
<1>8. ASSUME NEW i \in 1 .. n, NEW j \in 1 .. n, b[i] = b[j] PROVE i = j
  <2>1. Line(is, of, Sorted(S)[i]).entry = Line(is, of, Sorted(S)[j]).entry
    BY <1>3, <1>8
  <2>2. Sorted(S)[i] = Sorted(S)[j]
    BY <2>1, LineHas
  <2> QED
    BY <1>6, <2>2
<1> QED
  BY <1>1, <1>3, <1>7, <1>8 DEF Writes

\* Lines of one kind about one thing are as many as their entries.
LEMMA LinesCounted ==
  ASSUME NEW is, NEW of, NEW S, IsFiniteSet(S)
  PROVE  IsFiniteSet(OfKind(is, of, S)) /\ Cardinality(OfKind(is, of, S)) = Cardinality(S)
<1> DEFINE T == OfKind(is, of, S)
<1>1. PICK f : f = [e \in S |-> Line(is, of, e)]
  OBVIOUS
<1>2. f \in [S -> T] /\ \A t \in T : \E e \in S : f[e] = t
  BY <1>1 DEF OfKind
<1>3. ASSUME NEW d \in S, NEW e \in S, f[d] = f[e] PROVE d = e
  <2>1. Line(is, of, d).entry = Line(is, of, e).entry
    BY <1>1, <1>3
  <2> QED
    BY <2>1, LineHas
<1> HIDE DEF T
<1>4. f \in Bijection(S, T)
  BY <1>2, <1>3 DEF Bijection, Injection, Surjection, IsInjective
<1>5. IsFiniteSet(T) /\ Cardinality(T) = Cardinality(S)
  BY <1>4, FS_Bijection DEF ExistsBijection
<1> QED
  BY <1>5 DEF T

-----------------------------------------------------------------------------
(* What the entries of a plan steer, in the formats of one kind of line.     *)

Below(f) == f \in {"groups", "nftset"}
LineSteers(f, l) == Steers(l.entry, Below(f) \/ l.is = "suffix")

Traffic(p) == UNION {RuleSteers(r) : r \in p}

Says(f, p, b) ==
  /\ Steered(f, b) = Traffic(p)
  /\ EntryLines(b) = ProjectedRuleCount(f, p, Output)

LEMMA SameTraffic ==
  ASSUME NEW f, NEW p, NEW lines, NEW b, Writes(b, lines),
         \A r \in p : \E l \in Saying(lines) : LineSteers(f, l) = RuleSteers(r),
         \A l \in Saying(lines) : \E r \in p : LineSteers(f, l) = RuleSteers(r)
  PROVE  Steered(f, b) = Traffic(p)
<1>1. Steered(f, b) = UNION {LineSteers(f, l) : l \in Saying(lines)}
  BY SteeredAre DEF LineSteers, Below
<1>2. {LineSteers(f, l) : l \in Saying(lines)} = {RuleSteers(r) : r \in p}
  OBVIOUS
<1> QED
  BY <1>1, <1>2 DEF Traffic

LEMMA RulesAre ==
  ASSUME NEW f \in Formats, NEW p \in Plans[f], Expressible(f, p)
  PROVE  /\ IsFiniteSet(p)
         /\ \A r \in p : r \in Rules /\ <<r.kind, r.family>> \in SupportedRuleKinds[f]
BY PlansAreRules, PlansAreFinite DEF Expressible

LEMMA NameIs ==
  ASSUME NEW n \in Int
  PROVE  NameEntry(n) \in Tuples(3) /\ IsNamed(NameEntry(n))
BY DEF NameEntry, Named, IsNamed, Tuples

LEMMA MaskedIs ==
  ASSUME NEW r \in Rules
  PROVE  /\ Masked(r) \in Tuples(3) /\ Masked(r)[1] = r.family
         /\ Masked(r)[3] \in 0 .. Width
<1>1. r.family \in Int /\ r.at \in Nat /\ r.bits \in 0 .. Width /\ Width \in Nat
  BY AddressesAreNumbers DEF Rules, Families
<1>2. Width - r.bits \in 0 .. Width
  BY <1>1
<1>3. PICK w : w = 2^(Width - r.bits)
  OBVIOUS
<1>4. w \in Nat \ {0}
  BY <1>2, <1>3, AddressesAreNumbers
<1>5. r.at - (r.at % w) \in Int
  BY <1>1, <1>4
<1>6. Masked(r) \in {<<r.family, r.at, Width>>, <<r.family, r.at - (r.at % w), r.bits>>}
  BY <1>3 DEF Masked
<1>7. CASE Masked(r) = <<r.family, r.at, Width>>
  BY <1>1, <1>7 DEF Tuples
<1>8. CASE Masked(r) = <<r.family, r.at - (r.at % w), r.bits>>
  BY <1>1, <1>5, <1>8 DEF Tuples
<1> QED
  BY <1>6, <1>7, <1>8

\* A name steers what its kind says, a block itself, whatever is said of names.
LEMMA NameSteers ==
  ASSUME NEW r \in Rules, r.kind \in {"exact", "suffix"}
  PROVE  RuleSteers(r) = Steers(NameEntry(r.at), r.kind = "suffix")
BY DEF RuleSteers

LEMMA BlockSteers ==
  ASSUME NEW r \in Rules, r.kind \in {"ip", "prefix"}, r.family \in Families, NEW below
  PROVE  /\ RuleSteers(r) = Steers(Masked(r), below)
         /\ ~IsNamed(Masked(r)) /\ Masked(r)[3] # NoMask
<1>1. ~IsNamed(Masked(r)) /\ Masked(r)[3] # NoMask
  BY MaskedIs, AddressesAreNumbers DEF IsNamed, Named, Families, NoMask
<1>2. RuleSteers(r) = Steers(Masked(r), FALSE)
  BY DEF RuleSteers
<1> QED
  BY <1>1, <1>2 DEF Steers

\* Entries and rules that steer the same, each the same as one of the others.
Alike(f, S, p) ==
  /\ \A r \in p : \E e \in S : Steers(e, Below(f)) = RuleSteers(r)
  /\ \A e \in S : \E r \in p : Steers(e, Below(f)) = RuleSteers(r)

LEMMA OneKindSays ==
  ASSUME NEW f, NEW p, NEW is \in {"route", "nftset", "site"}, NEW S, IsFiniteSet(S), S \subseteq Tuples(3), Alike(f, S, p)
  PROVE  /\ Steered(f, Lines(is, <<>>, S)) = Traffic(p)
         /\ EntryLines(Lines(is, <<>>, S)) = Cardinality(S)
<1>1. PICK lines : lines = OfKind(is, <<>>, S)
  OBVIOUS
<1>2. PICK b : b = Lines(is, <<>>, S)
  OBVIOUS
<1>3. Writes(b, lines) /\ Cardinality(lines) = Cardinality(S)
  BY <1>1, <1>2, LinesWritten, LinesCounted
<1>4. Saying(lines) = lines
  BY <1>1, LineHas DEF Saying, OfKind, Commands
<1>5. ASSUME NEW e \in S PROVE Line(is, <<>>, e) \in lines /\ LineSteers(f, Line(is, <<>>, e)) = Steers(e, Below(f))
  <2>1. Line(is, <<>>, e) \in lines
    BY <1>1 DEF OfKind
  <2>2. Line(is, <<>>, e).is # "suffix" /\ Line(is, <<>>, e).entry = e
    BY LineHas
  <2>3. Below(f) \in BOOLEAN
    BY DEF Below
  <2> QED
    BY <2>1, <2>2, <2>3 DEF LineSteers
<1>6. \A r \in p : \E l \in lines : LineSteers(f, l) = RuleSteers(r)
  BY <1>5 DEF Alike
<1>7. \A l \in lines : \E r \in p : LineSteers(f, l) = RuleSteers(r)
  BY <1>1, <1>5 DEF OfKind, Alike
<1>8. Steered(f, b) = Traffic(p)
  BY <1>3, <1>4, <1>6, <1>7, SameTraffic
<1>9. EntryLines(b) = Cardinality(lines)
  BY <1>3, <1>4, EntryLinesAre
<1> QED
  BY <1>2, <1>3, <1>8, <1>9

LEMMA BatSays ==
  ASSUME NEW p \in Plans["bat"], Expressible("bat", p)
  PROVE  Says("bat", p, RenderBat(ProjectBat(p)))
<1>1. IsFiniteSet(p) /\ \A r \in p : r \in Rules /\ r.kind \in {"ip", "prefix"} /\ r.family \in Families
  <2>1. IsFiniteSet(p) /\ \A r \in p : r \in Rules /\ <<r.kind, r.family>> \in SupportedRuleKinds["bat"]
    BY RulesAre DEF Formats
  <2> QED
    BY <2>1 DEF SupportedRuleKinds, BatKinds, Families
<1>2. PICK S : S = ProjectBat(p)
  OBVIOUS
<1>3. PICK fn : fn = [r \in p |-> Masked(r)]
  OBVIOUS
<1>4. IsFiniteSet(S)
  <2>1. fn = [r \in p |-> fn[r]] /\ \A t \in S : \E r \in p : t = fn[r]
    BY <1>2, <1>3 DEF ProjectBat
  <2> QED
    BY <1>1, <2>1, ImageOfPlan
<1>5. S \subseteq Tuples(3)
  BY <1>1, <1>2, MaskedIs DEF ProjectBat
<1>6. /\ \A r \in p : \E e \in S : Steers(e, FALSE) = RuleSteers(r)
      /\ \A e \in S : \E r \in p : Steers(e, FALSE) = RuleSteers(r)
  BY <1>1, <1>2, BlockSteers DEF ProjectBat
<1>7. Steered("bat", RenderBat(S)) = Traffic(p) /\ EntryLines(RenderBat(S)) = Cardinality(S)
  <2>1. Below("bat") = FALSE
    BY DEF Below
  <2>2. RenderBat(S) = Lines("route", <<>>, S)
    BY DEF RenderBat
  <2>3. Alike("bat", S, p)
    BY <1>6, <2>1 DEF Alike
  <2> QED
    BY <1>4, <1>5, <2>2, <2>3, OneKindSays
<1> QED
  BY <1>2, <1>7 DEF Says, ProjectedRuleCount

LEMMA NftsetSays ==
  ASSUME NEW p \in Plans["nftset"], Expressible("nftset", p)
  PROVE  Says("nftset", p, RenderNftset(ProjectNftset(p)))
<1>1. IsFiniteSet(p) /\ \A r \in p : r \in Rules /\ r.kind = "suffix"
  <2>1. IsFiniteSet(p) /\ \A r \in p : r \in Rules /\ <<r.kind, r.family>> \in SupportedRuleKinds["nftset"]
    BY RulesAre DEF Formats
  <2> QED
    BY <2>1 DEF SupportedRuleKinds, NftsetKinds
<1>2. PICK S : S = ProjectNftset(p)
  OBVIOUS
<1>3. PICK fn : fn = [r \in p |-> NameEntry(r.at)]
  OBVIOUS
<1>4. IsFiniteSet(S)
  <2>1. fn = [r \in p |-> fn[r]] /\ \A t \in S : \E r \in p : t = fn[r]
    BY <1>2, <1>3 DEF ProjectNftset
  <2> QED
    BY <1>1, <2>1, ImageOfPlan
<1>5. S \subseteq Tuples(3)
  <2>1. \A r \in p : r.at \in Int
    BY <1>1 DEF Rules
  <2> QED
    BY <1>2, <2>1, NameIs DEF ProjectNftset
<1>6. /\ \A r \in p : \E e \in S : Steers(e, TRUE) = RuleSteers(r)
      /\ \A e \in S : \E r \in p : Steers(e, TRUE) = RuleSteers(r)
  <2>1. \A r \in p : RuleSteers(r) = Steers(NameEntry(r.at), TRUE)
    BY <1>1, NameSteers
  <2> QED
    BY <1>2, <2>1 DEF ProjectNftset
<1>7. Steered("nftset", RenderNftset(S)) = Traffic(p) /\ EntryLines(RenderNftset(S)) = Cardinality(S)
  <2>1. Below("nftset") = TRUE
    BY DEF Below
  <2>2. RenderNftset(S) = Lines("nftset", <<>>, S)
    BY DEF RenderNftset
  <2>3. Alike("nftset", S, p)
    BY <1>6, <2>1 DEF Alike
  <2> QED
    BY <1>4, <1>5, <2>2, <2>3, OneKindSays
<1> QED
  BY <1>2, <1>7 DEF Says, ProjectedRuleCount

LEMMA SitesSay ==
  ASSUME NEW p \in Plans["sites"], Expressible("sites", p)
  PROVE  Says("sites", p, RenderSites(ProjectSites(p)))
<1>1. /\ IsFiniteSet(p)
      /\ \A r \in p : r \in Rules /\ (r.kind = "exact" \/ (r.kind \in {"ip", "prefix"} /\ r.family \in Families))
  <2>1. IsFiniteSet(p) /\ \A r \in p : r \in Rules /\ <<r.kind, r.family>> \in SupportedRuleKinds["sites"]
    BY RulesAre DEF Formats
  <2> QED
    BY <2>1 DEF SupportedRuleKinds, SitesKinds, Families
<1>2. PICK S : S = ProjectSites(p)
  OBVIOUS
<1>3. PICK fn : fn = [r \in p |-> IF r.kind = "exact" THEN NameEntry(r.at) ELSE Masked(r)]
  OBVIOUS
<1>4. fn = [r \in p |-> fn[r]] /\ S = {fn[r] : r \in p}
  BY <1>2, <1>3 DEF ProjectSites
<1>5. ASSUME NEW r \in p PROVE fn[r] \in Tuples(3) /\ Steers(fn[r], FALSE) = RuleSteers(r)
  <2>1. r.at \in Int
    BY <1>1 DEF Rules
  <2>2. CASE r.kind = "exact"
    BY <1>1, <1>3, <2>1, <2>2, NameIs, NameSteers
  <2>3. CASE r.kind # "exact"
    BY <1>1, <1>3, <2>3, MaskedIs, BlockSteers
  <2> QED
    BY <2>2, <2>3
<1>6. IsFiniteSet(S)
  BY <1>1, <1>4, ImageOfPlan
<1>7. Steered("sites", RenderSites(S)) = Traffic(p) /\ EntryLines(RenderSites(S)) = Cardinality(S)
  <2>1. Below("sites") = FALSE
    BY DEF Below
  <2>2. RenderSites(S) = Lines("site", <<>>, S)
    BY DEF RenderSites
  <2>3. S \subseteq Tuples(3) /\ Alike("sites", S, p)
    BY <1>4, <1>5, <2>1 DEF Alike
  <2> QED
    BY <1>6, <2>2, <2>3, OneKindSays
<1> QED
  BY <1>2, <1>7 DEF Says, ProjectedRuleCount

-----------------------------------------------------------------------------
(* Rule sets, and scripts of either form.                                    *)

LEMMA ImageOfSome ==
  ASSUME NEW p, IsFiniteSet(p), NEW f, f = [r \in p |-> f[r]], NEW S, S \subseteq {f[r] : r \in p}
  PROVE  IsFiniteSet(S)
BY ImageOfPlan

LEMMA RuleSetSays ==
  ASSUME NEW p \in Plans["ruleset"], Expressible("ruleset", p)
  PROVE  Says("ruleset", p, RenderRuleSet(ProjectRuleSet(p)))
<1>1. /\ IsFiniteSet(p)
      /\ \A r \in p : r \in Rules /\ (r.kind \in {"exact", "suffix"} \/ (r.kind \in {"ip", "prefix"} /\ r.family \in Families))
  <2>1. IsFiniteSet(p) /\ \A r \in p : r \in Rules /\ <<r.kind, r.family>> \in SupportedRuleKinds["ruleset"]
    BY RulesAre DEF Formats
  <2> QED
    BY <2>1 DEF SupportedRuleKinds, RuleSetKinds
<1>2. PICK D : D = {NameEntry(r.at) : r \in {q \in p : q.kind = "exact"}}
  OBVIOUS
<1>3. PICK S : S = {NameEntry(r.at) : r \in {q \in p : q.kind = "suffix"}}
  OBVIOUS
<1>4. PICK C : C = {Masked(r) : r \in {q \in p : q.kind \in {"ip", "prefix"}}}
  OBVIOUS
<1>5. IsFiniteSet(D) /\ IsFiniteSet(S) /\ IsFiniteSet(C)
  <2>1. PICK f : f = [r \in p |-> NameEntry(r.at)]
    OBVIOUS
  <2>2. PICK g : g = [r \in p |-> Masked(r)]
    OBVIOUS
  <2>3. f = [r \in p |-> f[r]] /\ g = [r \in p |-> g[r]]
    BY <2>1, <2>2
  <2>4. D \subseteq {f[r] : r \in p} /\ S \subseteq {f[r] : r \in p} /\ C \subseteq {g[r] : r \in p}
    BY <1>2, <1>3, <1>4, <2>1, <2>2
  <2> QED
    BY <1>1, <2>3, <2>4, ImageOfSome
<1>6. D \subseteq Tuples(3) /\ S \subseteq Tuples(3) /\ C \subseteq Tuples(3)
  <2>1. \A r \in p : r.at \in Int
    BY <1>1 DEF Rules
  <2> QED
    BY <1>1, <1>2, <1>3, <1>4, <2>1, NameIs, MaskedIs
<1>7. PICK a : a = Lines("domain", <<>>, D)
  OBVIOUS
<1>8. PICK b : b = Lines("suffix", <<>>, S)
  OBVIOUS
<1>9. PICK c : c = Lines("cidr", <<>>, C)
  OBVIOUS
<1>10. PICK ab : ab = Joined(a, b)
  OBVIOUS
<1>11. PICK body : body = Joined(ab, c)
  OBVIOUS
<1>12. RenderRuleSet(ProjectRuleSet(p)) = body
  BY <1>2, <1>3, <1>4, <1>7, <1>8, <1>9, <1>10, <1>11 DEF RenderRuleSet, ProjectRuleSet, Joined
<1>13. PICK K : K = OfKind("domain", <<>>, D)
  OBVIOUS
<1>14. PICK L : L = OfKind("suffix", <<>>, S)
  OBVIOUS
<1>15. PICK M : M = OfKind("cidr", <<>>, C)
  OBVIOUS
<1>16. Writes(a, K) /\ Writes(b, L) /\ Writes(c, M)
  BY <1>5, <1>6, <1>7, <1>8, <1>9, <1>13, <1>14, <1>15, LinesWritten
<1>17. /\ \A l \in K : l.is = "domain" /\ l.entry \in D
       /\ \A l \in L : l.is = "suffix" /\ l.entry \in S
       /\ \A l \in M : l.is = "cidr" /\ l.entry \in C
  BY <1>13, <1>14, <1>15, LineHas DEF OfKind
<1>18. Writes(ab, K \cup L)
  <2>1. K \cap L = {}
    BY <1>17
  <2> QED
    BY <1>10, <1>16, <2>1, BothWritten
<1>19. PICK lines : lines = (K \cup L) \cup M
  OBVIOUS
<1>20. Writes(body, lines)
  <2>1. (K \cup L) \cap M = {}
    BY <1>17
  <2> QED
    BY <1>11, <1>16, <1>18, <1>19, <2>1, BothWritten
<1>21. Saying(lines) = lines
  BY <1>17, <1>19 DEF Saying, Commands
<1>22. ASSUME NEW r \in p PROVE \E l \in lines : LineSteers("ruleset", l) = RuleSteers(r)
  <2>1. ~Below("ruleset")
    BY DEF Below
  <2>2. CASE r.kind = "exact"
    <3>1. PICK l : l = Line("domain", <<>>, NameEntry(r.at))
      OBVIOUS
    <3>2. l \in lines /\ l.is = "domain" /\ l.entry = NameEntry(r.at)
      BY <1>2, <1>13, <1>19, <2>2, <3>1, LineHas DEF OfKind
    <3>3. LineSteers("ruleset", l) = Steers(NameEntry(r.at), FALSE)
      BY <2>1, <3>2 DEF LineSteers
    <3>4. RuleSteers(r) = Steers(NameEntry(r.at), FALSE)
      BY <1>1, <2>2, NameSteers
    <3> QED
      BY <3>2, <3>3, <3>4
  <2>3. CASE r.kind = "suffix"
    <3>1. PICK l : l = Line("suffix", <<>>, NameEntry(r.at))
      OBVIOUS
    <3>2. l \in lines /\ l.is = "suffix" /\ l.entry = NameEntry(r.at)
      BY <1>3, <1>14, <1>19, <2>3, <3>1, LineHas DEF OfKind
    <3>3. LineSteers("ruleset", l) = Steers(NameEntry(r.at), TRUE)
      BY <3>2 DEF LineSteers
    <3>4. RuleSteers(r) = Steers(NameEntry(r.at), TRUE)
      BY <1>1, <2>3, NameSteers
    <3> QED
      BY <3>2, <3>3, <3>4
  <2>4. CASE r.kind \in {"ip", "prefix"} /\ r.family \in Families
    <3>1. PICK l : l = Line("cidr", <<>>, Masked(r))
      OBVIOUS
    <3>2. l \in lines /\ l.is = "cidr" /\ l.entry = Masked(r)
      BY <1>4, <1>15, <1>19, <2>4, <3>1, LineHas DEF OfKind
    <3>3. LineSteers("ruleset", l) = Steers(Masked(r), FALSE)
      BY <2>1, <3>2 DEF LineSteers
    <3>4. RuleSteers(r) = Steers(Masked(r), FALSE)
      BY <1>1, <2>4, BlockSteers
    <3> QED
      BY <3>2, <3>3, <3>4
  <2> QED
    BY <1>1, <2>2, <2>3, <2>4
<1>23. ASSUME NEW l \in lines PROVE \E r \in p : LineSteers("ruleset", l) = RuleSteers(r)
  <2>1. ~Below("ruleset")
    BY DEF Below
  <2>2. CASE l \in K
    <3>1. PICK r \in p : r.kind = "exact" /\ l.entry = NameEntry(r.at)
      BY <1>2, <1>17, <2>2
    <3>2. LineSteers("ruleset", l) = Steers(NameEntry(r.at), FALSE)
      BY <1>17, <2>1, <2>2, <3>1 DEF LineSteers
    <3>3. RuleSteers(r) = Steers(NameEntry(r.at), FALSE)
      BY <1>1, <3>1, NameSteers
    <3> QED
      BY <3>2, <3>3
  <2>3. CASE l \in L
    <3>1. PICK r \in p : r.kind = "suffix" /\ l.entry = NameEntry(r.at)
      BY <1>3, <1>17, <2>3
    <3>2. LineSteers("ruleset", l) = Steers(NameEntry(r.at), TRUE)
      BY <1>17, <2>3, <3>1 DEF LineSteers
    <3>3. RuleSteers(r) = Steers(NameEntry(r.at), TRUE)
      BY <1>1, <3>1, NameSteers
    <3> QED
      BY <3>2, <3>3
  <2>4. CASE l \in M
    <3>1. PICK r \in p : r.kind \in {"ip", "prefix"} /\ l.entry = Masked(r)
      BY <1>4, <1>17, <2>4
    <3>2. LineSteers("ruleset", l) = Steers(Masked(r), FALSE)
      BY <1>17, <2>1, <2>4, <3>1 DEF LineSteers
    <3>3. RuleSteers(r) = Steers(Masked(r), FALSE)
      BY <1>1, <3>1, BlockSteers
    <3> QED
      BY <3>2, <3>3
  <2> QED
    BY <1>19, <2>2, <2>3, <2>4
<1>24. Steered("ruleset", body) = Traffic(p)
  BY <1>20, <1>21, <1>22, <1>23, SameTraffic
<1>25. EntryLines(body) = Len(body)
  <2>1. PICK n : n = Len(body)
    OBVIOUS
  <2>2. n \in Nat /\ lines = {body[i] : i \in 1 .. n}
    BY <1>20, <2>1, SequenceIs DEF Writes
  <2>3. {i \in 1 .. n : body[i].is \notin Commands} = 1 .. n
    BY <1>21, <2>2 DEF Saying
  <2>4. Cardinality(1 .. n) = n
    BY <2>2, FS_Interval
  <2> QED
    BY <2>1, <2>3, <2>4 DEF EntryLines
<1> QED
  BY <1>12, <1>24, <1>25 DEF Says, ProjectedRuleCount

SectionWrites(b, S, family) ==
  \E L : /\ Writes(b, L) /\ Saying(L) = OfKind("add", <<family>>, S)
         /\ \A l \in L : l.of[1] = family

LEMMA HeadThenEntries ==
  ASSUME NEW head, NEW H, Writes(head, H), NEW family, \A l \in H : l.is \in Commands /\ l.of[1] = family,
         NEW S, IsFiniteSet(S), S \subseteq Tuples(3)
  PROVE  SectionWrites(Joined(head, Lines("add", <<family>>, S)), S, family)
<1>1. PICK rest : rest = Lines("add", <<family>>, S)
  OBVIOUS
<1>2. PICK K : K = OfKind("add", <<family>>, S)
  OBVIOUS
<1>3. Writes(rest, K)
  BY <1>1, <1>2, LinesWritten
<1>4. \A l \in K : l.is = "add" /\ l.of[1] = family
  BY <1>2, LineHas DEF OfKind
<1>5. H \cap K = {}
  BY <1>4 DEF Commands
<1>6. Writes(Joined(head, rest), H \cup K)
  BY <1>3, <1>5, BothWritten
<1>7. Saying(H \cup K) = K
  BY <1>4 DEF Saying, Commands
<1>8. \A l \in H \cup K : l.of[1] = family
  BY <1>4
<1> QED
  BY <1>1, <1>2, <1>6, <1>7, <1>8 DEF SectionWrites

LEMMA SectionSays ==
  ASSUME NEW S, IsFiniteSet(S), S \subseteq Tuples(3), NEW legacy \in BOOLEAN, NEW family
  PROVE  SectionWrites(Section(S, legacy, family), S, family)
<1>1. PICK x : x = Line("section", <<family>>, Nothing)
  OBVIOUS
<1>2. PICK y : y = Clear(family, StaticRows)
  OBVIOUS
<1>3. PICK z : z = Clear(family, AllRows)
  OBVIOUS
<1>4. PICK a : a = Single(x)
  OBVIOUS
<1>5. PICK b : b = Single(y)
  OBVIOUS
<1>6. PICK c : c = Single(z)
  OBVIOUS
<1>7. PICK rest : rest = Lines("add", <<family>>, S)
  OBVIOUS
<1>8. Writes(a, {x}) /\ Writes(b, {y}) /\ Writes(c, {z})
  BY <1>4, <1>5, <1>6, OneWritten
<1>9. /\ x.is = "section" /\ y.is = "clear" /\ z.is = "clear"
      /\ x.of[1] = family /\ y.of[1] = family /\ z.of[1] = family /\ y # z
  BY <1>1, <1>2, <1>3 DEF Line, Clear, StaticRows, AllRows
<1>10. CASE legacy /\ S = {}
  <2>1. Section(S, legacy, family) = <<>>
    BY <1>10 DEF Section
  <2>2. OfKind("add", <<family>>, S) = {} /\ Saying({}) = {}
    BY <1>10 DEF OfKind, Saying
  <2> QED
    BY <2>1, <2>2, NothingWritten DEF SectionWrites
<1>11. CASE legacy /\ S # {}
  <2>1. Section(S, TRUE, family) = Joined(Joined(a, c), rest)
    <3>1. a \o <<>> = a
      BY <1>4 DEF Single
    <3> QED
      BY <1>1, <1>3, <1>4, <1>6, <1>7, <1>11, <3>1 DEF Section, Joined, Single
  <2>2. PICK H : H = {x} \cup {z}
    OBVIOUS
  <2>3. Writes(Joined(a, c), H)
    <3>1. {x} \cap {z} = {}
      BY <1>9
    <3> QED
      BY <1>8, <2>2, <3>1, BothWritten
  <2>4. \A l \in H : l.is \in Commands /\ l.of[1] = family
    BY <1>9, <2>2 DEF Commands
  <2>5. SectionWrites(Joined(Joined(a, c), rest), S, family)
    BY <1>7, <2>3, <2>4, HeadThenEntries
  <2> QED
    BY <1>11, <2>1, <2>5
<1>12. CASE ~legacy
  <2>1. Section(S, FALSE, family) = Joined(Joined(Joined(a, b), c), rest)
    BY <1>1, <1>2, <1>3, <1>4, <1>5, <1>6, <1>7 DEF Section, Joined, Single
  <2>2. PICK G : G = {x} \cup {y}
    OBVIOUS
  <2>3. Writes(Joined(a, b), G)
    <3>1. {x} \cap {y} = {}
      BY <1>9
    <3> QED
      BY <1>8, <2>2, <3>1, BothWritten
  <2>4. PICK H : H = G \cup {z}
    OBVIOUS
  <2>5. Writes(Joined(Joined(a, b), c), H)
    <3>1. G \cap {z} = {}
      BY <1>9, <2>2
    <3> QED
      BY <1>8, <2>3, <2>4, <3>1, BothWritten
  <2>6. \A l \in H : l.is \in Commands /\ l.of[1] = family
    BY <1>9, <2>2, <2>4 DEF Commands
  <2>7. SectionWrites(Joined(Joined(Joined(a, b), c), rest), S, family)
    BY <1>7, <2>5, <2>6, HeadThenEntries
  <2> QED
    BY <1>12, <2>1, <2>7
<1> QED
  BY <1>10, <1>11, <1>12

LEMMA ScriptSays ==
  ASSUME NEW p \in Plans["script"], Expressible("script", p), NEW legacy \in BOOLEAN
  PROVE  Says("script", p, RenderScript(ProjectScript(p), legacy))
<1>1. /\ IsFiniteSet(p)
      /\ \A r \in p : r \in Rules /\ ((r.kind = "exact" /\ r.family = 0) \/ (r.kind \in {"ip", "prefix"} /\ r.family \in Families))
  <2>1. IsFiniteSet(p) /\ \A r \in p : r \in Rules /\ <<r.kind, r.family>> \in SupportedRuleKinds["script"]
    BY RulesAre DEF Formats
  <2> QED
    BY <2>1 DEF SupportedRuleKinds, ScriptKinds
<1>2. PICK lists : lists = ProjectScript(p)
  OBVIOUS
<1>3. ASSUME NEW family \in Families PROVE IsFiniteSet(lists[family]) /\ lists[family] \subseteq Tuples(3)
  <2>1. IsFiniteSet(lists[family])
    BY <1>1, <1>2, <1>3, ScriptIsFinite
  <2>2. \A r \in p : r.at \in Int
    BY <1>1 DEF Rules
  <2>3. lists[family] \subseteq Tuples(3)
    BY <1>1, <1>2, <2>2, NameIs, MaskedIs DEF ProjectScript
  <2> QED
    BY <2>1, <2>3
<1>4. PICK A : A = lists[4]
  OBVIOUS
<1>5. PICK B : B = lists[6]
  OBVIOUS
<1>6. IsFiniteSet(A) /\ A \subseteq Tuples(3) /\ IsFiniteSet(B) /\ B \subseteq Tuples(3)
  BY <1>3, <1>4, <1>5 DEF Families
<1>7. PICK K : /\ Writes(Section(A, legacy, 4), K) /\ Saying(K) = OfKind("add", <<4>>, A)
               /\ \A l \in K : l.of[1] = 4
  BY <1>6, SectionSays DEF SectionWrites
<1>8. PICK L : /\ Writes(Section(B, legacy, 6), L) /\ Saying(L) = OfKind("add", <<6>>, B)
               /\ \A l \in L : l.of[1] = 6
  BY <1>6, SectionSays DEF SectionWrites
<1>9. K \cap L = {}
  BY <1>7, <1>8
<1>10. PICK body : body = RenderScript(lists, legacy)
  OBVIOUS
<1>11. PICK lines : lines = K \cup L
  OBVIOUS
<1>12. Writes(body, lines)
  BY <1>4, <1>5, <1>7, <1>8, <1>9, <1>10, <1>11, ScriptIsSections, BothWritten
<1>13. Saying(lines) = Saying(K) \cup Saying(L) /\ Saying(K) \cap Saying(L) = {}
  BY <1>9, <1>11 DEF Saying
<1>14. EntryLines(body) = Cardinality(A) + Cardinality(B)
  <2>1. IsFiniteSet(Saying(K)) /\ Cardinality(Saying(K)) = Cardinality(A)
    BY <1>6, <1>7, LinesCounted
  <2>2. IsFiniteSet(Saying(L)) /\ Cardinality(Saying(L)) = Cardinality(B)
    BY <1>6, <1>8, LinesCounted
  <2>3. Cardinality({}) = 0
    BY FS_EmptySet
  <2>4. Cardinality(A) \in Nat /\ Cardinality(B) \in Nat
    BY <1>6, FS_CardinalityType
  <2>5. Cardinality(Saying(lines)) = Cardinality(Saying(K)) + Cardinality(Saying(L)) - Cardinality(Saying(K) \cap Saying(L))
    BY <1>13, <2>1, <2>2, FS_Union
  <2>6. EntryLines(body) = Cardinality(Saying(lines))
    BY <1>12, EntryLinesAre
  <2>7. Cardinality(Saying(K) \cap Saying(L)) = 0
    BY <1>13, <2>3
  <2>8. Cardinality(Saying(lines)) = Cardinality(A) + Cardinality(B) - 0
    BY <2>1, <2>2, <2>5, <2>7
  <2> QED
    BY <2>4, <2>6, <2>8
<1>15. ASSUME NEW family \in Families, NEW e \in lists[family]
       PROVE  /\ Line("add", <<family>>, e) \in Saying(lines)
              /\ LineSteers("script", Line("add", <<family>>, e)) = Steers(e, FALSE)
  <2>1. PICK l : l = Line("add", <<family>>, e)
    OBVIOUS
  <2>2. l \in OfKind("add", <<family>>, lists[family])
    BY <1>15, <2>1 DEF OfKind
  <2>3. family = 4 => l \in Saying(lines)
    BY <1>4, <1>7, <1>13, <2>2
  <2>4. family = 6 => l \in Saying(lines)
    BY <1>5, <1>8, <1>13, <2>2
  <2>5. l.is = "add" /\ l.entry = e
    BY <2>1, LineHas
  <2>6. ~Below("script")
    BY DEF Below
  <2>7. LineSteers("script", l) = Steers(e, FALSE)
    BY <2>5, <2>6 DEF LineSteers
  <2> QED
    BY <2>1, <2>3, <2>4, <2>7 DEF Families
<1>16. ASSUME NEW l \in Saying(lines)
       PROVE  \E family \in Families : \E e \in lists[family] : l = Line("add", <<family>>, e)
  <2>1. CASE l \in Saying(K)
    BY <1>4, <1>7, <2>1 DEF OfKind, Families
  <2>2. CASE l \in Saying(L)
    BY <1>5, <1>8, <2>2 DEF OfKind, Families
  <2> QED
    BY <1>13, <2>1, <2>2
<1>17. ASSUME NEW r \in p PROVE \E l \in Saying(lines) : LineSteers("script", l) = RuleSteers(r)
  <2>1. CASE r.kind = "exact"
    <3>1. 4 \in Families /\ NameEntry(r.at) \in lists[4]
      BY <1>2, <2>1 DEF ProjectScript, Families
    <3>2. RuleSteers(r) = Steers(NameEntry(r.at), FALSE)
      BY <1>1, <2>1, NameSteers
    <3> QED
      BY <1>15, <3>1, <3>2
  <2>2. CASE r.kind \in {"ip", "prefix"} /\ r.family \in Families
    <3>1. Masked(r) \in lists[r.family]
      BY <1>2, <2>2 DEF ProjectScript
    <3>2. RuleSteers(r) = Steers(Masked(r), FALSE)
      BY <1>1, <2>2, BlockSteers
    <3> QED
      BY <1>15, <2>2, <3>1, <3>2
  <2> QED
    BY <1>1, <2>1, <2>2
<1>18. ASSUME NEW l \in Saying(lines) PROVE \E r \in p : LineSteers("script", l) = RuleSteers(r)
  <2>1. PICK family, e : family \in Families /\ e \in lists[family] /\ l = Line("add", <<family>>, e)
    BY <1>16
  <2>2. LineSteers("script", l) = Steers(e, FALSE)
    BY <1>15, <2>1
  <2>3. CASE e \in {NameEntry(r.at) : r \in {q \in p : q.kind = "exact"}}
    <3>1. PICK r \in p : r.kind = "exact" /\ e = NameEntry(r.at)
      BY <2>3
    <3>2. RuleSteers(r) = Steers(e, FALSE)
      BY <1>1, <3>1, NameSteers
    <3> QED
      BY <2>2, <3>2
  <2>4. CASE e \in {Masked(r) : r \in {q \in p : q.family = family}}
    <3>1. PICK r \in p : r.family = family /\ e = Masked(r)
      BY <2>4
    <3>2. r \in Rules /\ r.kind \in {"ip", "prefix"} /\ r.family \in Families
      BY <1>1, <2>1, <3>1 DEF Families
    <3>3. RuleSteers(r) = Steers(e, FALSE)
      BY <3>1, <3>2, BlockSteers
    <3> QED
      BY <2>2, <3>3
  <2> QED
    BY <1>2, <2>1, <2>3, <2>4 DEF ProjectScript
<1>19. Steered("script", body) = Traffic(p)
  BY <1>12, <1>17, <1>18, SameTraffic
<1> QED
  BY <1>2, <1>4, <1>5, <1>10, <1>14, <1>19 DEF Says, ProjectedRuleCount

-----------------------------------------------------------------------------
(* Object groups: the shards of a list hold its entries, and the lines of    *)
(* all groups have keys of their own.                                        *)

LEMMA ShardsCover ==
  ASSUME NEW S, IsFiniteSet(S), S \subseteq Tuples(3)
  PROVE  /\ \A e \in S : \E shard \in 1 .. Shards(S) : e \in ShardEntries(S, shard)
         /\ \A shard \in 1 .. Shards(S) : ShardEntries(S, shard) \subseteq S
<1>1. PICK M : M = MaxEntriesPerGroup
  OBVIOUS
<1>2. PICK n : n = Cardinality(S)
  OBVIOUS
<1>3. PICK K : K = Shards(S)
  OBVIOUS
<1>4. M \in Nat \ {0} /\ n \in Nat /\ K = (n + M - 1) \div M
  BY <1>1, <1>2, <1>3, BoundsAreReal, FS_CardinalityType DEF Shards
<1>5. K \in Int
  BY <1>4
<1>6. n <= K * M
  BY <1>4, <1>5
<1>7. (K - 1) * M < n
  BY <1>4, <1>5
<1>8. 3 \in Nat
  OBVIOUS
<1>9. (\A i \in 1 .. n : Sorted(S)[i] \in S) /\ (\A e \in S : \E i \in 1 .. n : Sorted(S)[i] = e)
  BY <1>2, <1>8, SortedIs
<1>10. \A shard : ShardEntries(S, shard) =
         {Sorted(S)[i] : i \in (shard - 1) * M + 1 .. (IF shard < K THEN shard * M ELSE n)}
  BY <1>1, <1>2, <1>3 DEF ShardEntries
<1>11. ASSUME NEW e \in S PROVE \E shard \in 1 .. K : e \in ShardEntries(S, shard)
  <2>1. PICK i \in 1 .. n : Sorted(S)[i] = e
    BY <1>9
  <2>2. PICK k : k = i - 1
    OBVIOUS
  <2>3. k \in Nat /\ k < n
    BY <1>4, <2>1, <2>2
  <2>4. PICK q : q = k \div M
    OBVIOUS
  <2>5. q \in Nat /\ M * q <= k /\ k < M * q + M
    BY <1>4, <2>3, <2>4
  <2>6. q < K
    <3> SUFFICES ASSUME K <= q PROVE FALSE
      BY <1>5, <2>5
    <3>1. K * M <= M * q
      BY <1>4, <1>5, <2>5
    <3> QED
      BY <1>4, <1>5, <1>6, <2>3, <2>5, <3>1
  <2>7. PICK shard : shard = q + 1
    OBVIOUS
  <2>8. shard \in 1 .. K /\ (shard - 1) * M = M * q /\ shard * M = M * q + M
    BY <1>4, <1>5, <2>5, <2>6, <2>7
  <2>9. PICK low : low = (shard - 1) * M + 1
    OBVIOUS
  <2>10. PICK high : high = IF shard < K THEN shard * M ELSE n
    OBVIOUS
  <2>11. M * q \in Int
    BY <1>4, <2>5
  <2>12. low \in Int /\ high \in Int /\ low <= i /\ i <= high
    <3>1. low = M * q + 1 /\ high \in {M * q + M, n}
      BY <2>8, <2>9, <2>10
    <3> QED
      BY <1>4, <2>2, <2>3, <2>5, <2>11, <3>1
  <2>13. ShardEntries(S, shard) = {Sorted(S)[j] : j \in low .. high}
    BY <1>10, <2>9, <2>10
  <2>14. i \in low .. high
    BY <2>12
  <2>15. e \in ShardEntries(S, shard)
    BY <2>1, <2>13, <2>14
  <2> QED
    BY <2>8, <2>15
<1>12. ASSUME NEW shard \in 1 .. K, NEW e \in ShardEntries(S, shard) PROVE e \in S
  <2>1. PICK low : low = (shard - 1) * M + 1
    OBVIOUS
  <2>2. PICK high : high = IF shard < K THEN shard * M ELSE n
    OBVIOUS
  <2>3. PICK i \in low .. high : e = Sorted(S)[i]
    BY <1>10, <2>1, <2>2
  <2>4. PICK j : j = shard - 1
    OBVIOUS
  <2>5. j \in Nat /\ j * M \in Nat /\ low = j * M + 1
    BY <1>4, <1>5, <2>1, <2>4
  <2>6. high \in Int /\ high <= n
    <3>1. CASE shard < K
      <4>1. shard * M <= (K - 1) * M /\ shard * M \in Int /\ (K - 1) * M \in Int
        BY <1>4, <1>5, <3>1
      <4> QED
        BY <1>4, <1>7, <2>2, <3>1, <4>1
    <3>2. CASE ~(shard < K)
      BY <1>4, <2>2, <3>2
    <3> QED
      BY <3>1, <3>2
  <2>7. i \in 1 .. n
    BY <1>4, <2>3, <2>5, <2>6
  <2> QED
    BY <1>9, <2>3, <2>7
<1> QED
  BY <1>3, <1>11, <1>12

LEMMA EntryValueIs ==
  ASSUME NEW r \in Rules, <<r.kind, r.family>> \in GroupKinds
  PROVE  EntryValue(r) \in Tuples(3) /\ RuleSteers(r) = Steers(EntryValue(r), TRUE)
<1>1. r.at \in Int /\ r.family \in Int /\ Width \in Nat
  BY AddressesAreNumbers DEF Rules, Families
<1>2. CASE r.kind = "suffix"
  <2>1. EntryValue(r) = NameEntry(r.at)
    BY <1>2 DEF EntryValue
  <2> QED
    BY <1>1, <1>2, <2>1, NameIs, NameSteers
<1>3. CASE r.kind = "ip" /\ r.family \in Families
  <2>1. EntryValue(r) = <<r.family, r.at, NoMask>> /\ Masked(r) = <<r.family, r.at, Width>>
    BY <1>3 DEF EntryValue, Masked
  <2>2. EntryValue(r) \in Tuples(3)
    BY <1>1, <2>1 DEF NoMask, Tuples
  <2>3. RuleSteers(r) = Steers(Masked(r), TRUE)
    BY <1>3, BlockSteers
  <2>4. Steers(Masked(r), TRUE) = Span(r.family, r.at, Width)
    BY <1>1, <1>3, <2>1 DEF Steers, IsNamed, Named, Families, NoMask
  <2>5. Steers(EntryValue(r), TRUE) = Span(r.family, r.at, Width)
    BY <1>1, <1>3, <2>1 DEF Steers, IsNamed, Named, Families, NoMask
  <2> QED
    BY <2>2, <2>3, <2>4, <2>5
<1>4. CASE r.kind = "prefix" /\ r.family \in Families
  <2>1. EntryValue(r) = Masked(r)
    BY <1>4 DEF EntryValue
  <2> QED
    BY <1>4, <2>1, MaskedIs, BlockSteers
<1> QED
  BY <1>2, <1>3, <1>4 DEF GroupKinds

Values(p, list) == {EntryValue(r) : r \in {q \in p : q.list = list}}

Group(p, output, list, shard) ==
  [name |-> ListNamePart(list) \o <<output, shard>>, entries |-> ShardEntries(Values(p, list), shard),
   description |-> IF Shards(Values(p, list)) > 1
                   THEN <<ListDescription(list, {q \in p : q.list = list}), shard, Shards(Values(p, list))>>
                   ELSE <<ListDescription(list, {q \in p : q.list = list}), 0, 0>>]

LEMMA GroupsAre ==
  ASSUME NEW p, NEW output
  PROVE  /\ \A r \in p : \A shard \in 1 .. Shards(Values(p, r.list)) :
              Group(p, output, r.list, shard) \in ProjectGroups(p, output)
         /\ \A g \in ProjectGroups(p, output) :
              \E r \in p : \E shard \in 1 .. Shards(Values(p, r.list)) : g = Group(p, output, r.list, shard)
<1> DEFINE ofList(list) == {Group(p, output, list, shard) : shard \in 1 .. Shards(Values(p, list))}
           lists == {r.list : r \in p}
<1>1. ProjectGroups(p, output) = UNION {ofList(list) : list \in lists}
  BY DEF ProjectGroups, Group, Values
<1>2. ASSUME NEW r \in p, NEW shard \in 1 .. Shards(Values(p, r.list))
      PROVE  Group(p, output, r.list, shard) \in ProjectGroups(p, output)
  <2>1. r.list \in lists /\ Group(p, output, r.list, shard) \in ofList(r.list)
    OBVIOUS
  <2> HIDE DEF lists, ofList
  <2> QED
    BY <1>1, <2>1
<1>3. ASSUME NEW g \in ProjectGroups(p, output)
      PROVE  \E r \in p : \E shard \in 1 .. Shards(Values(p, r.list)) : g = Group(p, output, r.list, shard)
  <2>1. PICK list \in lists : g \in ofList(list)
    <3> HIDE DEF lists, ofList
    <3> QED
      BY <1>1
  <2>2. PICK r \in p : list = r.list
    OBVIOUS
  <2> QED
    BY <2>1, <2>2
<1> QED
  BY <1>2, <1>3

LEMMA ListDescriptionIs ==
  ASSUME NEW list \in Nat, NEW rules, rules \subseteq Rules
  PROVE  ListDescription(list, rules) \in Nat
<1>1. PICK titles : titles = UNION {r.titles : r \in rules}
  OBVIOUS
<1>2. titles \subseteq Nat
  <2>1. \A r \in rules : r.titles \subseteq Nat
    BY DEF Rules
  <2> QED
    BY <1>1, <2>1
<1>3. ListDescription(list, rules) = IF titles = {} THEN list ELSE CHOOSE t \in titles : \A u \in titles : t <= u
  BY <1>1 DEF ListDescription
<1>4. CASE titles # {}
  <2>1. \E t \in titles : \A u \in titles : t <= u
    BY <1>2, <1>4, LeastNumber
  <2>2. (CHOOSE t \in titles : \A u \in titles : t <= u) \in titles
    BY <2>1
  <2> QED
    BY <1>2, <1>3, <1>4, <2>2
<1> QED
  BY <1>3, <1>4

LEMMA ValuesAre ==
  ASSUME NEW p \in Plans["groups"], Expressible("groups", p), NEW list
  PROVE  /\ IsFiniteSet(Values(p, list)) /\ Values(p, list) \subseteq Tuples(3)
         /\ Shards(Values(p, list)) \in Int
<1>1. IsFiniteSet(p) /\ \A r \in p : r \in Rules /\ <<r.kind, r.family>> \in GroupKinds
  <2>1. IsFiniteSet(p) /\ \A r \in p : r \in Rules /\ <<r.kind, r.family>> \in SupportedRuleKinds["groups"]
    BY RulesAre DEF Formats
  <2> QED
    BY <2>1 DEF SupportedRuleKinds
<1>2. PICK S : S = Values(p, list)
  OBVIOUS
<1>3. PICK f : f = [r \in p |-> EntryValue(r)]
  OBVIOUS
<1>4. f = [r \in p |-> f[r]] /\ S \subseteq {f[r] : r \in p}
  BY <1>2, <1>3 DEF Values
<1>5. IsFiniteSet(S)
  BY <1>1, <1>4, ImageOfSome
<1>6. S \subseteq Tuples(3)
  BY <1>1, <1>2, EntryValueIs DEF Values
<1>7. 1 \in Int
  OBVIOUS
<1>8. Shards(S) \in Int
  BY <1>5, <1>7, ShardsAreFinite
<1> QED
  BY <1>2, <1>5, <1>6, <1>8, Zenon

LEMMA TuplesJoin ==
  ASSUME NEW m \in Nat, NEW n \in Nat, NEW s \in Tuples(m), NEW t \in Tuples(n)
  PROVE  s \o t \in Tuples(m + n)
BY ConcatProperties DEF Tuples

LEMMA GroupIs ==
  ASSUME NEW p \in Plans["groups"], Expressible("groups", p), NEW r \in p,
         NEW shard \in 1 .. Shards(Values(p, r.list)), NEW g, g = Group(p, Output, r.list, shard)
  PROVE  /\ g.name \in Tuples(4) /\ g.description \in Tuples(3)
         /\ g.entries = ShardEntries(Values(p, r.list), shard) /\ g.entries \subseteq Tuples(3)
<1>1. p \subseteq Rules /\ r.list \in Nat /\ Output \in Int
  <2>1. p \subseteq Rules
    BY PlansAreRules DEF Formats
  <2> QED
    BY <2>1, PlansAreRules DEF Rules
<1>2. PICK K : K = Shards(Values(p, r.list))
  OBVIOUS
<1>3. K \in Int /\ shard \in Int
  BY <1>2, ValuesAre
<1>4. g.name \in Tuples(4)
  <2>1. g.name = ListNamePart(r.list) \o <<Output, shard>>
    BY DEF Group
  <2>2. PICK a, b \in Int : ListNamePart(r.list) = <<a, b>>
    <3>1. CASE r.list \in DOMAIN Long
      BY <1>1, <3>1, HeadsAreNumbers DEF ListNamePart
    <3>2. CASE r.list \notin DOMAIN Long
      BY <1>1, <3>2 DEF ListNamePart
    <3> QED
      BY <3>1, <3>2
  <2>3. PICK m : m = 2
    OBVIOUS
  <2>4. <<a, b>> \in Tuples(m) /\ <<Output, shard>> \in Tuples(m)
    BY <1>1, <1>3, <2>3 DEF Tuples
  <2>5. m \in Nat /\ m + m = 4
    BY <2>3
  <2>6. <<a, b>> \o <<Output, shard>> \in Tuples(m + m)
    BY <2>4, <2>5, TuplesJoin
  <2> QED
    BY <2>1, <2>2, <2>5, <2>6
<1>5. g.description \in Tuples(3)
  <2>1. PICK rules : rules = {q \in p : q.list = r.list}
    OBVIOUS
  <2>2. PICK d : d = ListDescription(r.list, rules)
    OBVIOUS
  <2>3. d \in Int
    BY <1>1, <2>1, <2>2, ListDescriptionIs
  <2>4. g.description \in {<<d, shard, K>>, <<d, 0, 0>>}
    BY <1>2, <2>1, <2>2 DEF Group
  <2>5. CASE g.description = <<d, shard, K>>
    BY <1>3, <2>3, <2>5 DEF Tuples
  <2>6. CASE g.description = <<d, 0, 0>>
    BY <2>3, <2>6 DEF Tuples
  <2> QED
    BY <2>4, <2>5, <2>6
<1>6. g.entries = ShardEntries(Values(p, r.list), shard)
  BY DEF Group
<1>7. ShardEntries(Values(p, r.list), shard) \subseteq Values(p, r.list)
  BY ValuesAre, ShardsCover
<1>8. g.entries \subseteq Tuples(3)
  BY <1>6, <1>7, ValuesAre
<1> QED
  BY <1>4, <1>5, <1>6, <1>8

LEMMA TuplesAreLines ==
  ASSUME NEW n \in Nat, NEW s \in Tuples(n)
  PROVE  HasLines(s, n)
<1>1. s \in Seq(Int) /\ Len(s) = n
  BY DEF Tuples
<1> QED
  BY <1>1, IsSequenceIn DEF HasLines

Key(of, mark, entry) == Joined(Joined(of, Single(mark)), entry)

LEMMA KeyIs ==
  ASSUME NEW of \in Tuples(4), NEW mark \in {0, 1}, NEW entry \in Tuples(3)
  PROVE  /\ Key(of, mark, entry) \in Tuples(8)
         /\ \A i \in 1 .. 4 : Key(of, mark, entry)[i] = of[i]
         /\ Key(of, mark, entry)[5] = mark
         /\ \A i \in 1 .. 3 : Key(of, mark, entry)[5 + i] = entry[i]
<1>1. PICK head : head = Joined(of, Single(mark))
  OBVIOUS
<1>2. PICK k : k = Joined(head, entry)
  OBVIOUS
<1>3. HasLines(of, 4) /\ HasLines(Single(mark), 1) /\ Single(mark)[1] = mark /\ HasLines(entry, 3)
  BY TuplesAreLines, OneLine
<1>4. HasLines(head, 5) /\ (\A i \in 1 .. 4 : head[i] = of[i]) /\ head[5] = mark
  <2>1. PICK m, n : m = 4 /\ n = 1
    OBVIOUS
  <2>2. HasLines(of, m) /\ HasLines(Single(mark), n)
    BY <1>3, <2>1
  <2>3. /\ HasLines(head, m + n)
        /\ \A i \in 1 .. m : head[i] = of[i]
        /\ \A i \in 1 .. n : head[m + i] = Single(mark)[i]
    BY <1>1, <2>2, JoinIs
  <2>4. 1 \in 1 .. n /\ m + n = 5 /\ m + 1 = 5
    BY <2>1
  <2>5. head[m + 1] = Single(mark)[1]
    BY <2>3, <2>4
  <2> QED
    BY <1>3, <2>1, <2>3, <2>4, <2>5
<1>5. HasLines(k, 8) /\ (\A i \in 1 .. 5 : k[i] = head[i]) /\ \A i \in 1 .. 3 : k[5 + i] = entry[i]
  <2>1. PICK m, n : m = 5 /\ n = 3
    OBVIOUS
  <2>2. HasLines(head, m) /\ HasLines(entry, n)
    BY <1>3, <1>4, <2>1
  <2>3. /\ HasLines(k, m + n)
        /\ \A i \in 1 .. m : k[i] = head[i]
        /\ \A i \in 1 .. n : k[m + i] = entry[i]
    BY <1>2, <2>2, JoinIs
  <2>4. m + n = 8
    BY <2>1
  <2> QED
    BY <2>1, <2>3, <2>4
<1>6. (\A i \in 1 .. 4 : k[i] = of[i]) /\ k[5] = mark
  BY <1>4, <1>5
<1>7. \A i \in 1 .. 8 : k[i] \in Int
  <2>1. (\A i \in 1 .. 4 : of[i] \in Int) /\ (\A i \in 1 .. 3 : entry[i] \in Int)
    BY TupleIs
  <2>2. \A i \in 1 .. 4 : k[i] \in Int
    BY <1>6, <2>1
  <2>3. k[5] \in Int
    BY <1>6
  <2>4. ASSUME NEW i \in 6 .. 8 PROVE k[i] \in Int
    <3>1. i - 5 \in 1 .. 3 /\ 5 + (i - 5) = i
      OBVIOUS
    <3> QED
      BY <1>5, <2>1, <3>1
  <2> QED
    BY <2>2, <2>3, <2>4
<1>8. k \in Tuples(8)
  <2>1. IsSequence(k) /\ Len(k) = 8
    BY <1>5 DEF HasLines
  <2>2. DOMAIN k = 1 .. 8 /\ k \in Seq({k[i] : i \in DOMAIN k})
    BY <2>1, SequenceIs DEF IsSequence
  <2>3. {k[i] : i \in DOMAIN k} \subseteq Int
    BY <1>7, <2>2
  <2>4. k \in Seq(Int)
    BY <2>2, <2>3
  <2> QED
    BY <2>1, <2>4 DEF Tuples
<1> QED
  BY <1>1, <1>2, <1>5, <1>6, <1>8 DEF Key

LEMMA KeysDiffer ==
  ASSUME NEW a \in Tuples(4), NEW b \in Tuples(4), NEW x \in {0, 1}, NEW y \in {0, 1},
         NEW d \in Tuples(3), NEW e \in Tuples(3), Key(a, x, d) = Key(b, y, e)
  PROVE  a = b /\ x = y /\ d = e
<1>1. PICK k : k = Key(a, x, d)
  OBVIOUS
<1>2. (\A i \in 1 .. 4 : k[i] = a[i]) /\ k[5] = x /\ \A i \in 1 .. 3 : k[5 + i] = d[i]
  BY <1>1, KeyIs
<1>3. (\A i \in 1 .. 4 : k[i] = b[i]) /\ k[5] = y /\ \A i \in 1 .. 3 : k[5 + i] = e[i]
  BY <1>1, KeyIs
<1>4. a = [i \in 1 .. 4 |-> a[i]] /\ b = [i \in 1 .. 4 |-> b[i]]
  BY TupleIs
<1>5. d = [i \in 1 .. 3 |-> d[i]] /\ e = [i \in 1 .. 3 |-> e[i]]
  BY TupleIs
<1>6. a = b
  BY <1>2, <1>3, <1>4
<1>7. d = e
  <2>1. \A i \in 1 .. 3 : d[i] = e[i]
    BY <1>2, <1>3
  <2> QED
    BY <1>5, <2>1
<1> QED
  BY <1>2, <1>3, <1>6, <1>7

AllLines(groups) == UNION {GroupLines(g) : g \in groups}

LEMMA LinesOfGroups ==
  ASSUME NEW groups
  PROVE  /\ \A g \in groups : \A e \in g.entries : Line("include", g.name, e) \in AllLines(groups)
         /\ \A l \in AllLines(groups) :
              \E g \in groups : \/ l = Line("description", g.name, g.description)
                                \/ \E e \in g.entries : l = Line("include", g.name, e)
<1>1. ASSUME NEW g \in groups, NEW e \in g.entries PROVE Line("include", g.name, e) \in AllLines(groups)
  <2>1. Line("include", g.name, e) \in GroupLines(g)
    BY DEF GroupLines
  <2> QED
    BY <2>1 DEF AllLines
<1>2. ASSUME NEW l \in AllLines(groups)
      PROVE  \E g \in groups : \/ l = Line("description", g.name, g.description)
                               \/ \E e \in g.entries : l = Line("include", g.name, e)
  <2>1. PICK g \in groups : l \in GroupLines(g)
    BY DEF AllLines
  <2>2. CASE l \in {Line("include", g.name, e) : e \in g.entries}
    BY <2>2
  <2>3. CASE l \notin {Line("include", g.name, e) : e \in g.entries}
    BY <2>1, <2>3 DEF GroupLines
  <2> QED
    BY <2>2, <2>3
<1> QED
  BY <1>1, <1>2

LEMMA GroupsWritten ==
  ASSUME NEW groups, IsFiniteSet(groups),
         \A g \in groups : /\ IsFiniteSet(g.entries) /\ g.entries \subseteq Tuples(3)
                           /\ g.name \in Tuples(4) /\ g.description \in Tuples(3)
  PROVE  Writes(RenderGroups(groups), AllLines(groups))
<1>1. PICK lines : lines = AllLines(groups)
  OBVIOUS
<1>2. IsFiniteSet(lines)
  BY <1>1, GroupLinesAreFinite DEF AllLines
<1>3. PICK n : n = Cardinality(lines)
  OBVIOUS
<1>4. n \in Nat
  BY <1>2, <1>3, FS_CardinalityType
<1>5. ASSUME NEW l \in lines
      PROVE  /\ l.of \in Tuples(4) /\ l.entry \in Tuples(3) /\ l.is \in {"description", "include"}
             /\ l = Line(l.is, l.of, l.entry)
  <2>1. PICK g \in groups : \/ l = Line("description", g.name, g.description)
                            \/ \E e \in g.entries : l = Line("include", g.name, e)
    BY <1>1, LinesOfGroups
  <2>2. CASE l = Line("description", g.name, g.description)
    BY <2>2, LineHas
  <2>3. CASE \E e \in g.entries : l = Line("include", g.name, e)
    BY <2>3, LineHas
  <2> QED
    BY <2>1, <2>2, <2>3
<1>6. ASSUME NEW l \in lines
      PROVE  LineKey(l) = Key(l.of, IF l.is = "description" THEN 0 ELSE 1, l.entry) /\ LineKey(l) \in Tuples(8)
  <2>1. PICK mark : mark = IF l.is = "description" THEN 0 ELSE 1
    OBVIOUS
  <2>2. LineKey(l) = Key(l.of, mark, l.entry)
    BY <2>1 DEF LineKey, Key, Joined, Single
  <2>3. mark \in {0, 1}
    BY <2>1
  <2>4. Key(l.of, mark, l.entry) \in Tuples(8)
    BY <1>5, <2>3, KeyIs
  <2> QED
    BY <2>1, <2>2, <2>4
<1>7. ASSUME NEW k \in lines, NEW l \in lines, LineKey(k) = LineKey(l) PROVE k = l
  <2>1. PICK x : x = IF k.is = "description" THEN 0 ELSE 1
    OBVIOUS
  <2>2. PICK y : y = IF l.is = "description" THEN 0 ELSE 1
    OBVIOUS
  <2>3. x \in {0, 1} /\ y \in {0, 1}
    BY <2>1, <2>2
  <2>4. Key(k.of, x, k.entry) = Key(l.of, y, l.entry)
    BY <1>6, <1>7, <2>1, <2>2
  <2>5. k.of = l.of /\ x = y /\ k.entry = l.entry
    BY <1>5, <2>3, <2>4, KeysDiffer
  <2>6. k.is = l.is
    BY <1>5, <2>1, <2>2, <2>5
  <2> QED
    BY <1>5, <2>5, <2>6
<1>8. PICK before : before = [l \in lines |-> {k \in lines : Precedes(LineKey(k), LineKey(l))}]
  OBVIOUS
<1>9. 8 \in Nat
  OBVIOUS
<1>10. \A s \in lines : before[s] \subseteq lines /\ s \notin before[s]
  BY <1>6, <1>8, <1>9, PrecedesIsStrict
<1>11. \A s, t \in lines : s # t => s \in before[t] \/ t \in before[s]
  BY <1>6, <1>7, <1>8, <1>9, PrecedesIsTotal
<1>12. \A s, t \in lines : s \in before[t] => before[s] \subseteq before[t]
  BY <1>6, <1>8, <1>9, PrecedesIsTransitive
<1>13. /\ \A s, t \in lines : Cardinality(before[s]) = Cardinality(before[t]) => s = t
       /\ \A s \in lines : Cardinality(before[s]) \in 0 .. n - 1
       /\ \A i \in 0 .. n - 1 : \E s \in lines : Cardinality(before[s]) = i
  <2>1. DOMAIN before = lines
    BY <1>8
  <2> QED
    BY <1>2, <1>3, <1>10, <1>11, <1>12, <2>1, RanksAreAll
<1>14. PICK b : b = RenderGroups(groups)
  OBVIOUS
<1>15. b = [i \in 1 .. n |-> CHOOSE l \in lines : Cardinality({k \in lines : Precedes(LineKey(k), LineKey(l))}) = i - 1]
  BY <1>1, <1>3, <1>14 DEF RenderGroups, AllLines
<1>16. ASSUME NEW i \in 1 .. n PROVE b[i] \in lines /\ Cardinality(before[b[i]]) = i - 1
  <2>1. i - 1 \in 0 .. n - 1
    BY <1>4
  <2>2. \E l \in lines : Cardinality({k \in lines : Precedes(LineKey(k), LineKey(l))}) = i - 1
    BY <1>8, <1>13, <2>1
  <2>3. b[i] \in lines /\ Cardinality({k \in lines : Precedes(LineKey(k), LineKey(b[i]))}) = i - 1
    BY <1>15, <2>2
  <2> QED
    BY <1>8, <2>3
<1>17. IsSequence(b) /\ Len(b) = n
  <2> DEFINE line(i) == CHOOSE l \in lines : Cardinality({k \in lines : Precedes(LineKey(k), LineKey(l))}) = i - 1
  <2>1. DOMAIN b = 1 .. n /\ b = [i \in 1 .. n |-> b[i]]
    <3>1. b = [i \in 1 .. n |-> line(i)]
      BY <1>15
    <3> HIDE DEF line
    <3> QED
      BY <3>1
  <2> QED
    BY <1>4, <2>1, FunctionIsSequence
<1>18. ASSUME NEW l \in lines PROVE \E i \in 1 .. n : b[i] = l
  <2>1. PICK c : c = Cardinality(before[l])
    OBVIOUS
  <2>2. c \in 0 .. n - 1
    BY <1>13, <2>1
  <2>3. PICK i : i = c + 1
    OBVIOUS
  <2>4. i \in 1 .. n /\ i - 1 = c
    BY <1>4, <2>2, <2>3
  <2>5. b[i] \in lines /\ Cardinality(before[b[i]]) = Cardinality(before[l])
    BY <1>16, <2>1, <2>4
  <2>6. b[i] = l
    BY <1>13, <2>5
  <2> QED
    BY <2>4, <2>6
<1>19. ToSet(b) = lines
  <2>1. ToSet(b) = {b[i] : i \in 1 .. n}
    BY <1>17, SequenceIs
  <2> QED
    BY <1>16, <1>18, <2>1
<1>20. ASSUME NEW i \in 1 .. n, NEW j \in 1 .. n, b[i] = b[j] PROVE i = j
  <2>1. i - 1 = j - 1
    BY <1>16, <1>20
  <2> QED
    BY <1>4, <2>1
<1> QED
  BY <1>1, <1>14, <1>17, <1>19, <1>20 DEF Writes

LEMMA GroupsSay ==
  ASSUME NEW p \in Plans["groups"], Expressible("groups", p)
  PROVE  Says("groups", p, RenderGroups(ProjectGroups(p, Output)))
<1>1. IsFiniteSet(p) /\ \A r \in p : r \in Rules /\ <<r.kind, r.family>> \in GroupKinds
  <2>1. IsFiniteSet(p) /\ \A r \in p : r \in Rules /\ <<r.kind, r.family>> \in SupportedRuleKinds["groups"]
    BY RulesAre DEF Formats
  <2> QED
    BY <2>1 DEF SupportedRuleKinds
<1>2. PICK groups : groups = ProjectGroups(p, Output)
  OBVIOUS
<1>3. IsFiniteSet(groups) /\ \A g \in groups : IsFiniteSet(g.entries)
  BY <1>1, <1>2, GroupsAreFinite
<1>4. ASSUME NEW g \in groups
      PROVE  /\ g.name \in Tuples(4) /\ g.description \in Tuples(3) /\ g.entries \subseteq Tuples(3)
             /\ \A e \in g.entries : \E r \in p : e = EntryValue(r)
  <2>1. PICK r \in p : \E shard \in 1 .. Shards(Values(p, r.list)) : g = Group(p, Output, r.list, shard)
    BY <1>2, GroupsAre
  <2>2. PICK shard \in 1 .. Shards(Values(p, r.list)) : g = Group(p, Output, r.list, shard)
    BY <2>1
  <2>3. /\ g.name \in Tuples(4) /\ g.description \in Tuples(3)
        /\ g.entries = ShardEntries(Values(p, r.list), shard) /\ g.entries \subseteq Tuples(3)
    BY <2>2, GroupIs
  <2>4. g.entries \subseteq Values(p, r.list)
    BY <2>3, ValuesAre, ShardsCover
  <2>5. \A e \in g.entries : \E q \in p : e = EntryValue(q)
    BY <2>4 DEF Values
  <2> QED
    BY <2>3, <2>5
<1>5. ASSUME NEW r \in p PROVE \E g \in groups : EntryValue(r) \in g.entries
  <2>1. PICK S : S = Values(p, r.list)
    OBVIOUS
  <2>2. EntryValue(r) \in S
    BY <2>1 DEF Values
  <2>3. IsFiniteSet(S) /\ S \subseteq Tuples(3)
    BY <2>1, ValuesAre
  <2>4. PICK shard \in 1 .. Shards(S) : EntryValue(r) \in ShardEntries(S, shard)
    BY <2>2, <2>3, ShardsCover
  <2>5. Group(p, Output, r.list, shard) \in groups
    BY <1>2, <2>1, <2>4, GroupsAre
  <2>6. Group(p, Output, r.list, shard).entries = ShardEntries(S, shard)
    BY <2>1 DEF Group
  <2> QED
    BY <2>4, <2>5, <2>6
<1>6. PICK lines : lines = AllLines(groups)
  OBVIOUS
<1>7. PICK b : b = RenderGroups(groups)
  OBVIOUS
<1>8. Writes(b, lines)
  BY <1>3, <1>4, <1>6, <1>7, GroupsWritten
<1>9. ASSUME NEW g \in groups, NEW e \in g.entries
      PROVE  Line("include", g.name, e) \in Saying(lines)
  <2>1. Line("include", g.name, e) \in lines
    BY <1>6, LinesOfGroups
  <2>2. Line("include", g.name, e).is = "include"
    BY LineHas
  <2> QED
    BY <2>1, <2>2 DEF Saying, Commands
<1>10. ASSUME NEW l \in Saying(lines)
       PROVE  \E g \in groups : \E e \in g.entries : l = Line("include", g.name, e)
  <2>1. l \in lines /\ l.is # "description"
    BY DEF Saying, Commands
  <2>2. PICK g \in groups : \/ l = Line("description", g.name, g.description)
                            \/ \E e \in g.entries : l = Line("include", g.name, e)
    BY <1>6, <2>1, LinesOfGroups
  <2> QED
    BY <2>1, <2>2, LineHas
<1>11. \A name, r : r \in p => LineSteers("groups", Line("include", name, EntryValue(r))) = RuleSteers(r)
  <2> SUFFICES ASSUME NEW name, NEW r \in p
               PROVE  LineSteers("groups", Line("include", name, EntryValue(r))) = RuleSteers(r)
    OBVIOUS
  <2>1. Line("include", name, EntryValue(r)).entry = EntryValue(r)
    BY LineHas
  <2>2. Below("groups")
    BY DEF Below
  <2>3. LineSteers("groups", Line("include", name, EntryValue(r))) = Steers(EntryValue(r), TRUE)
    BY <2>1, <2>2 DEF LineSteers
  <2> QED
    BY <1>1, <2>3, EntryValueIs
<1>12. \A r \in p : \E l \in Saying(lines) : LineSteers("groups", l) = RuleSteers(r)
  BY <1>5, <1>9, <1>11
<1>13. ASSUME NEW l \in Saying(lines) PROVE \E r \in p : LineSteers("groups", l) = RuleSteers(r)
  <2>1. PICK g \in groups : \E e \in g.entries : l = Line("include", g.name, e)
    BY <1>10
  <2>2. PICK e \in g.entries : l = Line("include", g.name, e)
    BY <2>1
  <2>3. PICK r \in p : e = EntryValue(r)
    BY <1>4
  <2> QED
    BY <1>11, <2>2, <2>3
<1>14. Steered("groups", b) = Traffic(p)
  BY <1>8, <1>12, <1>13, SameTraffic
<1>15. PICK pairs : pairs = UNION {{g.name} \X g.entries : g \in groups}
  OBVIOUS
<1>16. PICK f : f = [l \in Saying(lines) |-> <<l.of, l.entry>>]
  OBVIOUS
<1>17. f \in Bijection(Saying(lines), pairs)
  <2>1. ASSUME NEW l \in Saying(lines) PROVE f[l] \in pairs
    <3>1. PICK g \in groups : \E e \in g.entries : l = Line("include", g.name, e)
      BY <1>10
    <3>2. PICK e \in g.entries : l = Line("include", g.name, e)
      BY <3>1
    <3>3. f[l] = <<g.name, e>>
      BY <1>16, <3>2, LineHas
    <3> QED
      BY <1>15, <3>3
  <2>2. ASSUME NEW k \in Saying(lines), NEW l \in Saying(lines), f[k] = f[l] PROVE k = l
    <3>1. k.of = l.of /\ k.entry = l.entry
      BY <1>16, <2>2
    <3>2. k = Line("include", k.of, k.entry) /\ l = Line("include", l.of, l.entry)
      BY <1>10, LineHas
    <3> QED
      BY <3>1, <3>2
  <2>3. ASSUME NEW x \in pairs PROVE \E l \in Saying(lines) : f[l] = x
    <3>1. PICK g \in groups : x \in {g.name} \X g.entries
      BY <1>15
    <3>2. PICK e \in g.entries : x = <<g.name, e>>
      BY <3>1
    <3>3. PICK l : l = Line("include", g.name, e)
      OBVIOUS
    <3>4. l \in Saying(lines) /\ l.of = g.name /\ l.entry = e
      BY <1>9, <3>3, LineHas
    <3> QED
      BY <1>16, <3>2, <3>4
  <2>4. f \in [Saying(lines) -> pairs]
    BY <1>16, <2>1
  <2> QED
    BY <2>2, <2>3, <2>4 DEF Bijection, Injection, Surjection, IsInjective
<1>18. EntryLines(b) = Cardinality(pairs)
  <2>1. IsFiniteSet(Saying(lines)) /\ EntryLines(b) = Cardinality(Saying(lines))
    BY <1>8, EntryLinesAre
  <2> QED
    BY <1>17, <2>1, FS_Bijection DEF ExistsBijection
<1> QED
  BY <1>2, <1>7, <1>14, <1>15, <1>18 DEF Says, ProjectedRuleCount

-----------------------------------------------------------------------------
(* A published file is what its plan renders to, in one form or the other.   *)

RenderedFrom(b, p) ==
  \/ b = Render(target, p, Output)
  \/ target = "script" /\ b = RenderScript(ProjectScript(p), TRUE)

FromItsPlan ==
  /\ target \in Formats /\ plan \in Plans[target]
  /\ file # Absent => from \in Plans[target] /\ Preflight(target, from, Output) /\ RenderedFrom(file, from)

LEMMA RenderedSays ==
  ASSUME NEW f \in Formats, NEW p \in Plans[f], Expressible(f, p)
  PROVE  /\ Says(f, p, Render(f, p, Output))
         /\ f = "script" => Says(f, p, RenderScript(ProjectScript(p), TRUE))
<1>1. CASE f = "bat"
  BY <1>1, BatSays DEF Render
<1>2. CASE f = "groups"
  BY <1>2, GroupsSay DEF Render
<1>3. CASE f = "script"
  BY <1>3, ScriptSays DEF Render
<1>4. CASE f = "nftset"
  BY <1>4, NftsetSays DEF Render
<1>5. CASE f = "sites"
  BY <1>5, SitesSay DEF Render
<1>6. CASE f = "ruleset"
  BY <1>6, RuleSetSays DEF Render
<1> QED
  BY <1>1, <1>2, <1>3, <1>4, <1>5, <1>6 DEF Formats

\* What is published is what the plan of its build renders to, and a build that
\* its target could not take was refused.
THEOREM PlanInvariance == Spec => []FromItsPlan
<1>1. Init => FromItsPlan
  BY DEF Init, FromItsPlan
<1>2. FromItsPlan /\ [Next]_vars => FromItsPlan'
  <2> SUFFICES ASSUME FromItsPlan, [Next]_vars PROVE FromItsPlan'
    OBVIOUS
  <2>1. CASE Replan
    BY <2>1 DEF Replan, FromItsPlan, RenderedFrom
  <2>2. CASE Publish
    BY <2>2 DEF Publish, FromItsPlan, RenderedFrom
  <2>3. CASE PublishedBefore
    BY <2>3 DEF PublishedBefore, FromItsPlan, RenderedFrom
  <2>4. CASE UNCHANGED fileVars
    BY <2>4 DEF fileVars, FromItsPlan, RenderedFrom
  <2> QED
    BY <2>1, <2>2, <2>3, <2>4, BuildsOrNot
<1> QED
  BY <1>1, <1>2, PTL DEF Spec

\* A published file steers what its plan steers, by as many entries as were held
\* against the bound of its target: in every format, whatever the rules are.
THEOREM FilesSteerTheirPlans == Spec => []FilesSteerThePlan
<1>1. FromItsPlan => FilesSteerThePlan
  <2> SUFFICES ASSUME FromItsPlan, file # Absent
               PROVE  /\ Steered(target, file) = Traffic(from)
                      /\ EntryLines(file) = ProjectedRuleCount(target, from, Output)
                      /\ MaxRules > 0 => EntryLines(file) <= MaxRules
    BY DEF FilesSteerThePlan, Traffic
  <2>1. target \in Formats /\ from \in Plans[target] /\ Preflight(target, from, Output) /\ RenderedFrom(file, from)
    BY DEF FromItsPlan
  <2>2. Says(target, from, file)
    BY <2>1, RenderedSays DEF RenderedFrom, Preflight
  <2>3. EntryLines(file) = ProjectedRuleCount(target, from, Output)
    BY <2>2 DEF Says
  <2>4. MaxRules > 0 => EntryLines(file) <= MaxRules
    BY <2>1, <2>3 DEF Preflight
  <2> QED
    BY <2>2, <2>3, <2>4 DEF Says
<1> QED
  BY <1>1, PlanInvariance, PTL
=============================================================================
