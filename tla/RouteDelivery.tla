---------------------------- MODULE RouteDelivery ----------------------------
(***************************************************************************)
(* Delivering static routes to one router surface: DeployToDevice and      *)
(* RemoveFromDevice with their verified backup, reconciliation, bounded    *)
(* change, read-back, ownership commit and detached rollback, run by       *)
(* several requests that share one delivery gate, against a router that    *)
(* its operator edits, saves and reboots at any moment.                    *)
(*                                                                         *)
(* A router has a running configuration, which commands change and reads   *)
(* show, and a saved one, which a save copies from the running one, a      *)
(* reboot loads and a backup or a restore transfers.  `by' of a route is   *)
(* what no router can tell: who really put it there.                       *)
(***************************************************************************)
EXTENDS ManagedRoutes

CONSTANTS Workers,       \* requests that may be in flight at the same time
          Artifacts,     \* for every output, the route sets its files may want
          OperatorTexts, \* descriptions the operator gives routes by hand
          NoWorker,      \* nobody holds the gate
          MaxUpsets      \* bound: operator edits, saves, reboots and crashes

ASSUME OutputsAssumption == Outputs # {}
ASSUME ArtifactsAssumption == Artifacts \in [Outputs -> SUBSET Wanted]
ASSUME OperatorTextsAssumption == OperatorTexts \subseteq Text
ASSUME NoWorkerAssumption == NoWorker \notin Workers
ASSUME MaxUpsetsAssumption == MaxUpsets \in Nat

VARIABLES running,   \* the router's running configuration
          saved,     \* the router's startup configuration
          ledger,    \* the committed ownership ledger of the surface
          gate,      \* the worker holding the delivery gate
          op,        \* every worker's request and the step it is at
          contested, \* prefixes whose route the operator replaced under us
          stranded,  \* prefixes an interruption left without a record
          upsets     \* how often the operator, a reboot or a crash struck

vars == <<running, saved, ledger, gate, op, contested, stranded, upsets>>

----------------------------------------------------------------------------
(* Configurations of the router.                                           *)

Entry == [text : Text, by : {"nobody", "routevane", "operator"}]
Absent == [text |-> NoText, by |-> "nobody"]
Config == [Prefixes -> Entry]
EmptyConfig == [p \in Prefixes |-> Absent]

Present(config) == { p \in Prefixes : config[p].by # "nobody" }
MadeBy(config, who) == { p \in Prefixes : config[p].by = who }

(* CurrentManagedRoutes: prefixes and descriptions, never who made them.   *)
Observe(config) ==
  [at |-> Present(config), text |-> [p \in Prefixes |-> config[p].text]]

(* A route command rewrites a route that is there and creates one that is  *)
(* not.                                                                    *)
Upserted(config, p, text) ==
  [config EXCEPT ![p] =
     [text |-> text, by |-> IF @.by = "nobody" THEN "routevane" ELSE @.by]]
Removed(config, p) == [config EXCEPT ![p] = Absent]

----------------------------------------------------------------------------
(* Requests.                                                               *)

Kinds == {"send", "remove", "retire"}
BeforeChange == {"probe", "ledger", "backup", "observe"}
Changing == {"apply", "verify", "persist", "restore", "resave", "reread"}
Phases == {"idle", "waiting", "retire"} \cup BeforeChange \cup Changing

Request == [phase : Phases, kind : Kinds, output : Outputs, wanted : Wanted,
            prior : Ledger, backup : Config, seen : Observation, todo : SUBSET Prefixes]

Idle == [phase |-> "idle", kind |-> "send", output |-> CHOOSE o \in Outputs : TRUE,
         wanted |-> Nothing, prior |-> EmptyLedger, backup |-> EmptyConfig,
         seen |-> Observe(EmptyConfig), todo |-> {}]

(* What reconciling the request's private snapshots gives.                 *)
Upserting(r) == Upserts(r.prior, r.output, r.wanted, r.seen)
Removing(r) == Removals(r.prior, r.output, r.wanted, r.seen)
Mutation(r) == Upserting(r) \cup Removing(r)
NextOwnership(r) == NextLedger(r.prior, r.output, r.wanted, r.seen)
UpsertText(r, p) == NextText(r.prior, NextClaims(r.prior, r.output, r.wanted), p)

(* nothingOwned: a removal for an output the ledger does not name.         *)
OwnsNothing(l, o) == \A c \in l.claims : c.output # o

Goto(w, phase) == op' = [op EXCEPT ![w].phase = phase]

(* A request answers, drops what it remembered and frees the gate.         *)
Finish(w) ==
  /\ op' = [op EXCEPT ![w] = Idle]
  /\ gate' = NoWorker

(* Faulty variants: a delivery that only adds counts as harmless; a        *)
(* delivery without commands counts as a change.                           *)
OnlyRemovalsChange(r) == Removing(r) # {}
AlwaysChanged(r) == TRUE

(* deviceMayHaveChanged decides what a failure does: recover when commands *)
(* were submitted, answer at once when none were.                          *)
DeviceMayHaveChanged(r) == Mutation(r) # {}
Fail(w) ==
  /\ \/ /\ DeviceMayHaveChanged(op[w])
        /\ Goto(w, "restore")
        /\ UNCHANGED gate
     \/ ~ DeviceMayHaveChanged(op[w]) /\ Finish(w)
  /\ UNCHANGED <<running, saved, ledger, contested, stranded, upsets>>

----------------------------------------------------------------------------
Init ==
  /\ running \in [Prefixes -> {Absent} \cup [text : OperatorTexts, by : {"operator"}]]
  /\ saved = running
  /\ ledger = EmptyLedger
  /\ gate = NoWorker
  /\ op = [w \in Workers |-> Idle]
  /\ contested = {} /\ stranded = {} /\ upsets = 0

(* A request arrives and waits for the gate.                               *)
Receive(w, kind, o, wanted) ==
  /\ op[w].phase = "idle"
  /\ op' = [op EXCEPT ![w] = [Idle EXCEPT !.phase = "waiting", !.kind = kind,
                                          !.output = o, !.wanted = wanted]]
  /\ UNCHANGED <<running, saved, ledger, gate, contested, stranded, upsets>>

ReceiveAny(w) ==
  \/ \E o \in Outputs : \E wanted \in Artifacts[o] : Receive(w, "send", o, wanted)
  \/ \E o \in Outputs : Receive(w, "remove", o, Nothing)
  \/ Receive(w, "retire", Idle.output, Nothing)

(* The context ends while the request waits.                               *)
GiveUp(w) ==
  /\ op[w].phase = "waiting"
  /\ op' = [op EXCEPT ![w] = Idle]
  /\ UNCHANGED <<running, saved, ledger, gate, contested, stranded, upsets>>

(* Faulty variant: nobody waits for the gate.                              *)
GateIgnored == TRUE
GateOpen == gate = NoWorker

FirstPhase(kind) ==
  CASE kind = "send" -> "probe" [] kind = "remove" -> "ledger" [] kind = "retire" -> "retire"

Acquire(w) ==
  /\ op[w].phase = "waiting" /\ GateOpen
  /\ gate' = w
  /\ Goto(w, FirstPhase(op[w].kind))
  /\ UNCHANGED <<running, saved, ledger, contested, stranded, upsets>>

(* Steps before the change.  Each may also fail: an unreachable or         *)
(* incompatible router, an unreadable ledger, a backup that cannot be      *)
(* stored and verified, a route table that cannot be read.                 *)
Probe(w) ==
  /\ op[w].phase = "probe"
  /\ Goto(w, IF op[w].kind = "send" THEN "ledger" ELSE "backup")
  /\ UNCHANGED <<running, saved, ledger, gate, contested, stranded, upsets>>

ReadLedger(w) ==
  /\ op[w].phase = "ledger" /\ ValidLedger(ledger)
  /\ \/ /\ op[w].kind = "remove" /\ OwnsNothing(ledger, op[w].output)
        /\ Finish(w)
     \/ /\ ~ (op[w].kind = "remove" /\ OwnsNothing(ledger, op[w].output))
        /\ op' = [op EXCEPT ![w].prior = ledger,
                            ![w].phase = IF op[w].kind = "send" THEN "backup" ELSE "probe"]
        /\ UNCHANGED gate
  /\ UNCHANGED <<running, saved, ledger, contested, stranded, upsets>>

TakeBackup(w) ==
  /\ op[w].phase = "backup"
  /\ op' = [op EXCEPT ![w].backup = saved, ![w].phase = "observe"]
  /\ UNCHANGED <<running, saved, ledger, gate, contested, stranded, upsets>>

Reconciled(r, seen) == [r EXCEPT !.seen = seen, !.todo = Mutation([r EXCEPT !.seen = seen])]
Reconcile(w) ==
  LET r == Reconciled(op[w], Observe(running))
  IN  /\ op[w].phase = "observe" /\ ValidLedger(NextOwnership(r))
      /\ op' = [op EXCEPT ![w] =
                  [r EXCEPT !.phase = IF r.todo = {} THEN "verify" ELSE "apply"]]
      /\ UNCHANGED <<running, saved, ledger, gate, contested, stranded, upsets>>

(* Faulty variant: an early return without the deferred release.           *)
RefuseWithoutRelease(w) ==
  /\ op[w].phase \in BeforeChange
  /\ op' = [op EXCEPT ![w] = Idle]
  /\ UNCHANGED <<running, saved, ledger, gate, contested, stranded, upsets>>

Refuse(w) ==
  /\ op[w].phase \in BeforeChange
  /\ Finish(w)
  /\ UNCHANGED <<running, saved, ledger, contested, stranded, upsets>>

----------------------------------------------------------------------------
(* The change.  One batch carries every command; a router that refuses one *)
(* may have executed any of the others, and one it accepted may still have *)
(* no effect, which the read-back is there to notice.                      *)
Command(w, p) ==
  /\ op[w].phase = "apply" /\ p \in op[w].todo
  /\ \/ running' = IF p \in Removing(op[w])
                     THEN Removed(running, p)
                     ELSE Upserted(running, p, UpsertText(op[w], p))
     \/ UNCHANGED running
  /\ op' = [op EXCEPT ![w].todo = @ \ {p}]
  /\ UNCHANGED <<saved, ledger, gate, contested, stranded, upsets>>

SaveConfiguration(w) ==
  /\ op[w].phase = "apply" /\ op[w].todo = {}
  /\ saved' = running
  /\ Goto(w, "verify")
  /\ UNCHANGED <<running, ledger, gate, contested, stranded, upsets>>

Verify(w) ==
  /\ op[w].phase = "verify"
  /\ Verified(NextOwnership(op[w]), Removing(op[w]), Observe(running))
  /\ Goto(w, "persist")
  /\ UNCHANGED <<running, saved, ledger, gate, contested, stranded, upsets>>

Persist(w) ==
  /\ op[w].phase = "persist"
  /\ ledger' = NextOwnership(op[w])
  /\ Finish(w)
  /\ UNCHANGED <<running, saved, contested, stranded, upsets>>

(* A command refused, an answer lost, a cancelled request, a read-back     *)
(* that does not match, a ledger that cannot be written.                   *)
StepFails(w) ==
  /\ op[w].phase \in {"apply", "verify", "persist"}
  /\ Fail(w)

----------------------------------------------------------------------------
(* restoreDetached: upload the backup, save it, read it back.  It has its  *)
(* own budget, so no cancellation of the request reaches it.               *)
UploadBackup(w) ==
  /\ op[w].phase = "restore"
  /\ running' = op[w].backup /\ saved' = op[w].backup
  /\ Goto(w, "resave")
  /\ UNCHANGED <<ledger, gate, contested, stranded, upsets>>

SaveRestored(w) ==
  /\ op[w].phase = "resave"
  /\ saved' = running
  /\ Goto(w, "reread")
  /\ UNCHANGED <<running, ledger, gate, contested, stranded, upsets>>

ConfirmRestored(w) ==
  /\ op[w].phase = "reread" /\ Observe(saved) = Observe(op[w].backup)
  /\ Finish(w)
  /\ UNCHANGED <<running, saved, ledger, contested, stranded, upsets>>

(* Faulty variant: a failed restore starts over.                           *)
RestoreAgain(w) ==
  /\ op[w].phase \in {"restore", "resave", "reread"}
  /\ Goto(w, "restore")
  /\ UNCHANGED <<running, saved, ledger, gate, contested, stranded, upsets>>

RestoreFails(w) ==
  /\ op[w].phase \in {"restore", "resave", "reread"}
  /\ Finish(w)
  /\ stranded' = stranded \cup Mutation(op[w])
  /\ UNCHANGED <<running, saved, ledger, contested, upsets>>

(* RetireManagedRoutes, when a connection is edited or forgotten: the      *)
(* ledger stops authorizing anything and the router is not contacted.      *)
RetireSurface(w) ==
  /\ op[w].phase = "retire"
  /\ ledger' = EmptyLedger
  /\ stranded' = stranded \cup CreatedIn(ledger)
  /\ Finish(w)
  /\ UNCHANGED <<running, saved, contested, upsets>>

(* A retirement whose ledger update fails changes nothing.                 *)
RetireFails(w) ==
  /\ op[w].phase = "retire"
  /\ Finish(w)
  /\ UNCHANGED <<running, saved, ledger, contested, stranded, upsets>>

----------------------------------------------------------------------------
(* The world outside.  A change of a route that the ledger calls           *)
(* Routevane's, or of any route once a request has taken its backup, makes *)
(* that prefix contested: docs/usage.md tells operators to avoid it.       *)
Window == \E w \in Workers : op[w].phase \in {"observe"} \cup Changing

Upset == upsets < MaxUpsets /\ upsets' = upsets + 1

OutsideChange(config) ==
  /\ Upset
  /\ running' = config
  /\ contested' = contested \cup
       { p \in Prefixes : config[p] # running[p] /\ (Window \/ p \in CreatedIn(ledger)) }
  /\ UNCHANGED <<ledger, gate, op, stranded>>

OperatorAdds(p) ==
  /\ running[p] = Absent
  /\ \E text \in OperatorTexts :
       OutsideChange([running EXCEPT ![p] = [text |-> text, by |-> "operator"]])
  /\ UNCHANGED saved

OperatorDeletes(p) ==
  /\ running[p] # Absent
  /\ OutsideChange([running EXCEPT ![p] = Absent])
  /\ UNCHANGED saved

OperatorSaves ==
  /\ saved # running /\ Upset
  /\ saved' = running
  /\ UNCHANGED <<running, ledger, gate, op, contested, stranded>>

Reboot ==
  /\ saved # running
  /\ OutsideChange(saved)
  /\ UNCHANGED saved

(* Routevane dies: every request is lost where it stood, a rollback too.   *)
Crash ==
  /\ gate # NoWorker /\ Upset
  /\ gate' = NoWorker
  /\ op' = [w \in Workers |-> Idle]
  /\ stranded' = stranded \cup
       UNION { Mutation(op[w]) : w \in { v \in Workers : op[v].phase \in Changing } }
  /\ UNCHANGED <<running, saved, ledger, contested>>

----------------------------------------------------------------------------
Advance(w) ==
  \/ Acquire(w) \/ Probe(w) \/ ReadLedger(w) \/ TakeBackup(w) \/ Reconcile(w)
  \/ \E p \in Prefixes : Command(w, p)
  \/ SaveConfiguration(w) \/ Verify(w) \/ Persist(w)
  \/ UploadBackup(w) \/ SaveRestored(w) \/ ConfirmRestored(w) \/ RetireSurface(w)
Falter(w) == GiveUp(w) \/ Refuse(w) \/ StepFails(w) \/ RestoreFails(w) \/ RetireFails(w)

Outside ==
  \/ \E p \in Prefixes : OperatorAdds(p) \/ OperatorDeletes(p)
  \/ OperatorSaves \/ Reboot

Next ==
  \/ \E w \in Workers : ReceiveAny(w) \/ Advance(w) \/ Falter(w)
  \/ Outside \/ Crash

(* A request that holds the gate keeps running: every step has a budget,   *)
(* the rollback one of its own, and ends as a success or as an error.      *)
(* The gate is a channel with one token: whoever waits for it is served in *)
(* turn, so a gate that opens again and again is acquired.                 *)
Running(w) == gate = w /\ (Advance(w) \/ Falter(w))
Fairness == \A w \in Workers : WF_vars(Running(w)) /\ SF_vars(Acquire(w))

Spec == Init /\ [][Next]_vars
FairSpec == Spec /\ Fairness

----------------------------------------------------------------------------
(* Properties.                                                             *)

TypeOK ==
  /\ running \in Config /\ saved \in Config
  /\ ledger \in Ledger
  /\ gate \in Workers \cup {NoWorker}
  /\ op \in [Workers -> Request]
  /\ contested \subseteq Prefixes /\ stranded \subseteq Prefixes
  /\ upsets \in Nat

(* No delivery ends in a ledger the validation of the next one refuses:    *)
(* the committed ledger is valid, and whatever the router shows, the       *)
(* reconciliation of a valid ledger is valid too, so a surface never       *)
(* becomes undeliverable (validateManagedRouteOwnership, which reads       *)
(* labels of several outputs, over what reconcileManagedRoutes built).     *)
ReconcileNeverRefuses ==
  /\ ValidLedger(ledger)
  /\ \A w \in Workers :
       op[w].phase = "observe" =>
         ValidLedger(NextOwnership(Reconciled(op[w], Observe(running))))

(* Deletion authority is creation: what the ledger calls created by        *)
(* Routevane is not the operator's route, unless the operator replaced it  *)
(* under an active record or inside a delivery's window (ADR 0032).        *)
AuthorityIsCreation ==
  CreatedIn(ledger) \cap MadeBy(running, "operator") \subseteq contested

(* With nobody at the router, every route Routevane made there is on       *)
(* record as its own, so it can be removed again; only an interruption, a  *)
(* failed rollback, a retired surface or a contest loses that record.      *)
NothingLeftUnrecorded ==
  gate = NoWorker =>
    MadeBy(running, "routevane") \subseteq CreatedIn(ledger) \cup contested \cup stranded

(* And the other way round: every route on record as created is on the     *)
(* router with the description on record.                                  *)
RecordIsHonoured ==
  gate = NoWorker =>
    \A r \in ledger.routes :
      r.created /\ r.prefix \notin contested \cup stranded =>
        running[r.prefix] = [text |-> r.text, by |-> "routevane"]

(* The ledger tells the truth in all three ways.                           *)
LedgerIsTrue == AuthorityIsCreation /\ NothingLeftUnrecorded /\ RecordIsHonoured

(* No command takes a route away that the committed ledger does not call   *)
(* Routevane's, or that another output still claims.                       *)
SharedAndForeignRoutesStay ==
  [][\A w \in Workers, p \in Prefixes :
       Command(w, p) /\ p \in Present(running) /\ p \notin Present(running)' =>
         /\ p \in CreatedIn(ledger)
         /\ \A c \in ledger.claims : c.prefix = p => c.output = op[w].output]_vars

(* A route the operator made is never changed by Routevane outside a       *)
(* contest ("routes Routevane did not create are preserved even on the     *)
(* same interface", docs/usage.md), except by the restore of a delivery    *)
(* that had submitted commands.                                            *)
OperatorRoutesSurvive ==
  [][\A p \in Prefixes \ contested :
       running[p].by = "operator" /\ running'[p] # running[p] =>
         \/ Outside
         \/ \E w \in Workers : UploadBackup(w) /\ Mutation(op[w]) # {}]_vars

(* A delivery that answers success is right about the router as it stands  *)
(* then, although it looked one step earlier and its commands may have     *)
(* been accepted without effect: every wanted route is there, and none is  *)
(* left that only this output had wanted before.                           *)
SuccessIsTrue ==
  [][\A w \in Workers :
       LET r == op[w]
       IN  Persist(w) =>
             /\ DOMAIN r.wanted \subseteq Present(running) \cup contested
             /\ MadeBy(running, "routevane")
                  \subseteq Claimed(ledger'.claims) \cup contested \cup stranded]_vars

(* A request between Acquire and its answer, and one that has read the     *)
(* ledger.                                                                 *)
Holding(w) == op[w].phase \notin {"idle", "waiting"}
HasPrior(w) ==
  \/ op[w].phase \in {"backup", "observe"} \cup Changing
  \/ op[w].phase = "probe" /\ op[w].kind = "remove"

(* The ledger a delivery replaces is still the one it read before it took  *)
(* its backup, through every command and the whole rollback: neither       *)
(* another delivery nor a connection edit comes between (DeliveryGate,     *)
(* there is no revision on the ledger's rows).                             *)
SnapshotIsCurrent ==
  \A w \in Workers : Holding(w) =>
    gate = w /\ (HasPrior(w) => op[w].prior = ledger)

(* What the deliveries mean to the outputs that share the surface.         *)
ClaimsIn(l, o) ==
  LET own == { c \in l.claims : c.output = o }
  IN  [p \in Claimed(own) |-> LabelsOf(own, p)]
Abstract == INSTANCE OutputClaims WITH claimed <- [o \in Outputs |-> ClaimsIn(ledger, o)]

(* No delivery disturbs another output's claims: the surface implements    *)
(* the claim table that has no router and no failures.                     *)
ImplementsOutputClaims == Abstract!Spec

(* A delivery that has begun to change the router does not stop half-way   *)
(* and never retries a restore for ever: it ends applied, rolled back, or  *)
(* reported as a failed rollback (restoreDetached and its own budget).     *)
ChangesEnd ==
  \A w \in Workers : op[w].phase \in Changing ~> op[w].phase = "idle"

(* No path out of a delivery keeps the gate: every request that waits is   *)
(* served or gives up.                                                     *)
WaitingEnds ==
  \A w \in Workers : op[w].phase = "waiting" ~> op[w].phase # "waiting"

(* So every request that came ends.                                        *)
RequestsEnd == ChangesEnd /\ WaitingEnds
=============================================================================
