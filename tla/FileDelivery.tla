---------------------------- MODULE FileDelivery ----------------------------
(***************************************************************************)
(* What becomes of a published file: an operator imports a script into a   *)
(* RouterOS router, or a run installs a rule set for the sing-box of this  *)
(* machine.  One output, of any format; its plan changes and is published  *)
(* again, also while a file is on its way.                                 *)
(***************************************************************************)
EXTENDS Formats

CONSTANTS Plans,               \* what a build may plan for each format
          Output,              \* the output the files are of
          Paths, Relative,     \* where a configuration may want its rule set; without a directory
          Foreign              \* what somebody else may write there

ASSUME PlansAreRules == Output \in Nat /\ \A f \in Formats : Plans[f] \subseteq SUBSET Rules
ASSUME PlansAreFinite == \A f \in Formats : \A p \in Plans[f] : IsFiniteSet(p)

VARIABLES target,              \* the format of the output
          plan,                \* what the next build plans
          file, from,          \* the published file, and the plan it came from
          router,              \* external: the address lists of a RouterOS router
          script,              \* external: the import that runs there
          disk,                \* the files a sing-box configuration may point to
          op                   \* the local run
fileVars == <<target, plan, file, from>>
routerVars == <<router, script>>
localVars == <<disk, op>>
vars == <<fileVars, routerVars, localVars>>

Absent == <<>>
Torn == <<Line("torn", <<>>, Nothing)>>

Idle == [phase |-> "idle", path |-> 0, artifact |-> Absent, backup |-> Absent, temporary |-> Absent, restoring |-> FALSE,
         cancelled |-> FALSE, result |-> "none", found |-> disk, touched |-> FALSE]
NoImport == [body |-> Absent, at |-> 0, state |-> "none"]

Init ==
  /\ target \in Formats /\ plan \in Plans[target] /\ file = Absent /\ from = {}
  /\ router = [static |-> [family \in Families |-> {}], dynamic |-> {}] /\ script = NoImport
  /\ disk = [p \in Paths |-> Absent] /\ op = Idle

-----------------------------------------------------------------------------
(* Builds.                                                                   *)

Replan ==
  /\ plan' \in Plans[target] \ {plan}
  /\ UNCHANGED <<target, file, from, routerVars, localVars>>

\* A build keeps the file of the last one when it has none, or not a valid one.
Publish ==
  /\ Preflight(target, plan, Output) /\ Renders(target, plan, Output)
  /\ Parse(target, Render(target, plan, Output))
  /\ file' = Render(target, plan, Output) /\ from' = plan
  /\ UNCHANGED <<target, plan, routerVars, localVars>>

\* The file of a release that wrote scripts in their first form.
PublishedBefore ==
  /\ target = "script" /\ Preflight(target, plan, Output) /\ Renders(target, plan, Output)
  /\ Parse(target, RenderScript(ProjectScript(plan), TRUE))
  /\ file' = RenderScript(ProjectScript(plan), TRUE) /\ from' = plan
  /\ UNCHANGED <<target, plan, routerVars, localVars>>

-----------------------------------------------------------------------------
(* The router, as the renderer counts on it: an address list holds rows of   *)
(* its own and rows for what their names resolve to, which go with them.     *)

StartImport ==
  /\ target = "script" /\ file # Absent /\ script.state # "running"
  /\ script' = [body |-> file, at |-> 1, state |-> "running"]
  /\ UNCHANGED <<fileVars, router, localVars>>

Resolve(family) ==
  /\ target = "script"
  /\ \E e \in {s \in router.static[family] : IsNamed(s)} :
       router' = [router EXCEPT !.dynamic = @ \cup {<<family, e>>}]
  /\ UNCHANGED <<fileVars, script, localVars>>

Advance(line) ==
  script' = [script EXCEPT !.at = @ + 1, !.state = IF script.at = Len(script.body) THEN "done" ELSE @]

\* A row cannot be removed once its name was, so a removal of all rows stops at
\* the first row that went with its name.
ImportLine ==
  LET line == script.body[script.at]
      family == line.of[1]
      children == {d \in router.dynamic : d[1] = family}
      stops == \/ line.is = "clear" /\ line.of[2] = AllRows /\ \E d \in children : d[2] \in router.static[family]
               \/ line.is = "add" /\ line.entry \in router.static[family]
  IN  /\ script.state = "running"
      /\ IF stops THEN script' = [script EXCEPT !.state = "stopped"] ELSE Advance(line)
      /\ router' =
           CASE line.is = "clear" -> [static |-> [router.static EXCEPT ![family] = {}], dynamic |-> router.dynamic \ children]
             [] line.is = "add" -> [router EXCEPT !.static[family] = @ \cup {line.entry}]
             [] OTHER -> router
      /\ UNCHANGED <<fileVars, localVars>>

Disconnect ==
  /\ script.state = "running" /\ script' = NoImport
  /\ UNCHANGED <<fileVars, router, localVars>>

-----------------------------------------------------------------------------
(* The local run.                                                            *)

Local == target = "ruleset"

LocalStep(next) ==
  /\ op' = next
  /\ UNCHANGED <<fileVars, routerVars>>

\* Another writer replaces or removes a file, at any moment.
OperatorWrites(p, content) ==
  /\ Local /\ disk[p] # content
  /\ disk' = [disk EXCEPT ![p] = content] /\ op' = [op EXCEPT !.touched = TRUE]
  /\ UNCHANGED <<fileVars, routerVars>>

\* The one absolute path the configuration declares, or no run.
Probe(config) ==
  /\ Local /\ op.phase = "idle" /\ file # Absent
  /\ Cardinality(config) = 1 /\ config \cap Relative = {}
  /\ LocalStep([Idle EXCEPT !.phase = "backup", !.path = CHOOSE p \in config : TRUE, !.artifact = file, !.result = "running"])
  /\ UNCHANGED disk

Cancel ==
  /\ op.phase # "idle" /\ ~op.cancelled
  /\ LocalStep([op EXCEPT !.cancelled = TRUE]) /\ UNCHANGED disk

End(result) == [op EXCEPT !.phase = "idle", !.temporary = Absent, !.result = result]

\* The bytes found, or that there were none, are stored before anything is
\* written; without that the run ends.
Backup ==
  /\ op.phase = "backup"
  /\ \/ ~op.cancelled /\ LocalStep([op EXCEPT !.phase = "deploy", !.backup = disk[op.path]])
     \/ LocalStep(End("failed"))
  /\ UNCHANGED disk

\* Whatever goes wrong from here on is undone, also what never wrote.
Undo(o) == [o EXCEPT !.phase = "rollback", !.temporary = Absent]

Deploy ==
  /\ op.phase = "deploy"
  /\ LocalStep(IF op.cancelled \/ ~Parse("ruleset", op.artifact) THEN Undo(op) ELSE [op EXCEPT !.phase = "create"])
  /\ UNCHANGED disk

Wanted == IF op.restoring THEN op.backup ELSE op.artifact

\* The undoing does not run under the request that was given up.
GivenUp == op.cancelled /\ ~op.restoring

WriteFails == LocalStep(IF op.restoring THEN End("rollback failed") ELSE Undo(op)) /\ UNCHANGED disk

\* Faulty variant: the file is written where it is read.
CreateInPlace ==
  /\ op.phase = "create"
  /\ \/ /\ ~GivenUp /\ disk' = [disk EXCEPT ![op.path] = Torn]
        /\ LocalStep([op EXCEPT !.phase = "write", !.temporary = Torn])
     \/ WriteFails
CreateTemporary ==
  /\ op.phase = "create"
  /\ \/ ~GivenUp /\ LocalStep([op EXCEPT !.phase = "write", !.temporary = Torn]) /\ UNCHANGED disk
     \/ WriteFails

WriteTemporary ==
  /\ op.phase = "write"
  /\ \/ LocalStep([op EXCEPT !.phase = "rename", !.temporary = Wanted]) /\ UNCHANGED disk
     \/ WriteFails

Rename ==
  /\ op.phase = "rename"
  /\ \/ /\ ~GivenUp /\ disk' = [disk EXCEPT ![op.path] = op.temporary]
        /\ LocalStep(IF op.restoring THEN End("rolled back") ELSE [op EXCEPT !.phase = "verify", !.temporary = Absent])
     \/ WriteFails

Verify ==
  /\ op.phase = "verify"
  /\ LocalStep(IF ~op.cancelled /\ disk[op.path] = op.artifact THEN End("applied") ELSE Undo(op))
  /\ UNCHANGED disk

\* A file that was not there is removed again, where that can be done.
Rollback ==
  /\ op.phase = "rollback"
  /\ \/ /\ op.backup = Absent /\ disk' = [disk EXCEPT ![op.path] = Absent]
        /\ LocalStep(End("rolled back"))
     \/ op.backup = Absent /\ UNCHANGED disk /\ LocalStep(End("rollback failed"))
     \/ /\ op.backup # Absent /\ UNCHANGED disk
        /\ LocalStep([op EXCEPT !.phase = "create", !.restoring = TRUE])

Crash ==
  /\ op.phase # "idle"
  /\ LocalStep(End("crashed")) /\ UNCHANGED disk

Next ==
  \/ Replan \/ Publish \/ PublishedBefore
  \/ StartImport \/ ImportLine \/ Disconnect \/ \E family \in Families : Resolve(family)
  \/ \E p \in Paths \ Relative, content \in Foreign : OperatorWrites(p, content)
  \/ \E config \in SUBSET Paths : Probe(config)
  \/ Cancel \/ Backup \/ Deploy \/ CreateTemporary \/ WriteTemporary \/ Rename \/ Verify \/ Rollback \/ Crash

Spec == Init /\ [][Next]_vars

-----------------------------------------------------------------------------
Commands == {"section", "clear", "description"}
EntryLines(body) == Cardinality({i \in 1 .. Len(body) : body[i].is \notin Commands})

\* A file steers what its plan steers, nothing more and nothing less, and has as
\* many entries as were counted against the bound of its target: a name is not
\* widened to what lies below it, a block not to a wider one, and no rule is lost
\* where rules that mean the same are written once.
FilesSteerThePlan ==
  file # Absent =>
    /\ Steered(target, file) = UNION {RuleSteers(r) : r \in from}
    /\ EntryLines(file) = ProjectedRuleCount(target, from, Output)
    /\ MaxRules > 0 => EntryLines(file) <= MaxRules

Without(body, i) == SubSeq(body, 1, i - 1) \o SubSeq(body, i + 1, Len(body))
With(body, i, line) == SubSeq(body, 1, i) \o <<line>> \o SubSeq(body, i + 1, Len(body))
Edits(body) ==
  UNION {{Without(body, i), With(body, i, body[i])} \cup {With(Without(body, i), j, body[i]) : j \in 0 .. Len(body) - 1} :
           i \in 1 .. Len(body)}

\* Two files that are accepted and say the same are the same bytes, so that the
\* hash of a file stands for what it says: no line moved, doubled or left out of a
\* published file gives another file that is accepted, unless an entry or a
\* description went with it.
OneFileForOneMeaning ==
  \A other \in Edits(file) \ {file} :
    Parse(target, other) => ToSet(other) \subseteq ToSet(file) /\ \E l \in ToSet(file) \ ToSet(other) : l.is \notin {"section", "clear"}

\* A script of the present form replaces what any earlier import left, one that
\* was cut off or written in the first form included: it never stops at a row
\* that is gone already, and once it is through both lists hold its entries and
\* what those resolve to.
ImportReplaces ==
  (script.state \in {"stopped", "done"} /\ script.body = RenderScript(ScriptOf(script.body), FALSE)) =>
    /\ script.state = "done"
    /\ router.static = ScriptOf(script.body)
    /\ \A d \in router.dynamic : d[2] \in ScriptOf(script.body)[d[1]]

\* As long as nobody else writes, what a run says of itself is so: the file is
\* the artifact, or what it was and absent if it was; a run that was cut off, or
\* could not undo, leaves one of the two, and never a part.
OutcomeIsTold ==
  ~op.touched =>
    /\ op.result = "applied" => disk = [op.found EXCEPT ![op.path] = op.artifact]
    /\ op.result \in {"failed", "rolled back"} => disk = op.found
    /\ op.result \in {"running", "crashed", "rollback failed"} =>
         \E content \in {op.found[op.path], op.artifact} : disk = [op.found EXCEPT ![op.path] = content]
=============================================================================
