----------------------- MODULE RouteDelivery_proofs -----------------------
(***************************************************************************)
(* Theorems about RouteDelivery, for any number of requests, outputs,      *)
(* prefixes, labels and operator texts, and any number of upsets.          *)
(***************************************************************************)
EXTENDS RouteDelivery, FiniteSetTheorems, WellFoundedInduction, TLAPS

-----------------------------------------------------------------------------
(* The ledger: reconciling a valid ledger gives a valid ledger.            *)

(* Every nonempty set of labels has a first one, so a compact description  *)
(* is well defined (CompactManagedRouteDescription).                       *)
LEMMA FirstLabelType ==
  ASSUME NEW S, S \subseteq Labels, S # {}
  PROVE  FirstLabel(S) \in S
<1>1. S \subseteq Nat
  BY LabelsAssumption
<1>2. PICK l \in S : \A m \in S : ~ (<<m, l>> \in OpToRel(<, Nat))
  BY <1>1, WFMin, NatLessThanWellFounded, Zenon
<1>3. ASSUME NEW m \in S PROVE l <= m
  <2>1. l \in Nat /\ m \in Nat
    BY <1>1
  <2>2. ~ (m < l)
    BY <1>2, <2>1 DEF OpToRel
  <2> QED
    BY <2>1, <2>2
<1>4. QED
  BY <1>3 DEF FirstLabel

LEMMA CompactType ==
  ASSUME NEW S, S \subseteq Labels
  PROVE  Compact(S) \in Text
<1>1. CASE S = {}
  BY <1>1 DEF Compact, NoText, Text
<1>2. CASE S # {}
  <2>1. IsFiniteSet(S)
    BY LabelsAssumption, FS_Subset
  <2>2. Cardinality(S) \in Nat /\ Cardinality(S) # 0
    BY <1>2, <2>1, FS_CardinalityType, FS_EmptySet
  <2>3. FirstLabel(S) \in Nat
    BY <1>2, FirstLabelType, LabelsAssumption
  <2> QED
    BY <1>2, <2>2, <2>3 DEF Compact, Text
<1> QED
  BY <1>1, <1>2

LEMMA NextClaimsType ==
  ASSUME NEW prior \in Ledger, NEW o \in Outputs, NEW wanted \in Wanted
  PROVE  NextClaims(prior, o, wanted) \subseteq Claim
<1>1. PICK P \in SUBSET Prefixes : wanted \in [P -> SUBSET Labels]
  BY DEF Wanted
<1>2. prior.claims \subseteq Claim
  BY DEF Ledger
<1> QED
  BY <1>1, <1>2 DEF NextClaims, Claim

LEMMA NextTextType ==
  ASSUME NEW prior \in Ledger, NEW claims, claims \subseteq Claim, NEW p
  PROVE  NextText(prior, claims, p) \in Text
<1>1. RecordedTexts(prior, p) \subseteq Text
  BY DEF RecordedTexts, Ledger, Route
<1>2. LabelsOf(claims, p) \subseteq Labels
  BY DEF LabelsOf, Claim
<1> QED
  BY <1>1, <1>2, CompactType DEF NextText

(* The next ledger's parts have the shape the store keeps.                 *)
LEMMA NextLedgerType ==
  ASSUME NEW prior \in Ledger, NEW o \in Outputs, NEW wanted \in Wanted,
         NEW seen \in Observation
  PROVE  NextLedger(prior, o, wanted, seen) \in Ledger
<1> DEFINE claims == NextClaims(prior, o, wanted)
<1>1. claims \subseteq Claim
  BY NextClaimsType
<1>2. NextRoutes(prior, claims, seen) \subseteq Route
  <2> HIDE DEF claims
  <2>1. Claimed(claims) \subseteq Prefixes
    BY <1>1 DEF Claimed, Claim
  <2>2. NoText \in Text
    BY DEF NoText, Text
  <2>3. \A p : NextCreated(prior, seen, p) \in BOOLEAN
    BY DEF NextCreated
  <2>4. \A p : NextText(prior, claims, p) \in Text
    BY <1>1, NextTextType
  <2> QED
    BY <2>1, <2>2, <2>3, <2>4 DEF NextRoutes, Route
<1> QED
  BY <1>1, <1>2 DEF NextLedger, Ledger

(* reconcileManagedRoutes of a valid ledger passes its own validation: the *)
(* error it may return there is unreachable.                               *)
LEMMA NextLedgerIsValid ==
  ASSUME NEW prior \in Ledger, ValidLedger(prior), NEW o \in Outputs,
         NEW wanted \in Wanted, NEW seen \in Observation
  PROVE  ValidLedger(NextLedger(prior, o, wanted, seen))
<1> DEFINE claims == NextClaims(prior, o, wanted)
           next == NextLedger(prior, o, wanted, seen)
<1>1. next.claims = claims /\ next.routes = NextRoutes(prior, claims, seen)
  BY DEF NextLedger
<1>2. OneRoutePerPrefix(next)
  BY <1>1 DEF OneRoutePerPrefix, NextRoutes
<1>3. OneClaimPerOutput(next)
  <2>1. OneClaimPerOutput(prior)
    BY DEF ValidLedger
  <2> QED
    BY <1>1, <2>1 DEF OneClaimPerOutput, NextClaims
<1>4. RoutesAreClaimed(next)
  <2>1. ASSUME NEW p \in Claimed(claims) PROVE p \in Named(next)
    <3> DEFINE r == [prefix |-> p,
                     text |-> IF NextCreated(prior, seen, p)
                                THEN NextText(prior, claims, p)
                                ELSE NoText,
                     created |-> NextCreated(prior, seen, p)]
    <3>1. r \in next.routes
      BY <1>1, <2>1, Zenon DEF NextRoutes
    <3>2. r.prefix = p
      OBVIOUS
    <3> HIDE DEF r
    <3> QED
      BY <3>1, <3>2 DEF Named
  <2>2. ASSUME NEW r \in next.routes PROVE r.prefix \in Claimed(claims)
    BY <1>1, <2>2 DEF NextRoutes
  <2> QED
    BY <1>1, <2>1, <2>2 DEF RoutesAreClaimed, Named
<1>5. ForeignIsUntitled(next)
  BY <1>1 DEF ForeignIsUntitled, NextRoutes
<1>6. TextsFollowClaims(next)
  BY <1>1 DEF TextsFollowClaims, NextRoutes, NextText
<1> QED
  BY <1>2, <1>3, <1>4, <1>5, <1>6 DEF ValidLedger

-----------------------------------------------------------------------------
(* The surface.                                                            *)

LEMMA IdleType == Idle \in Request
<1>1. Idle.output \in Outputs
  BY OutputsAssumption DEF Idle
<1>2. Nothing \in Wanted
  <2>1. Nothing \in [{} -> SUBSET Labels]
    BY DEF Nothing
  <2> QED
    BY <2>1 DEF Wanted
<1>3. EmptyConfig \in Config
  BY DEF EmptyConfig, Config, Absent, Entry, NoText, Text
<1>4. Observe(EmptyConfig) \in Observation
  BY DEF Observe, Observation, EmptyConfig, Absent, NoText, Text, Present
<1>5. EmptyLedger \in Ledger
  BY DEF EmptyLedger, Ledger
<1> QED
  BY <1>1, <1>2, <1>3, <1>4, <1>5, OutputsAssumption
  DEF Idle, Request, Phases, Kinds, BeforeChange, Changing

LEMMA ObserveType ==
  ASSUME NEW config \in Config
  PROVE  Observe(config) \in Observation
BY DEF Config, Entry, Observe, Observation, Present

(* What a request's private snapshots give has the shape of a ledger and   *)
(* of route commands.                                                      *)
LEMMA RequestResults ==
  ASSUME NEW r \in Request
  PROVE  /\ NextOwnership(r) \in Ledger
         /\ Mutation(r) \subseteq Prefixes
         /\ \A p : UpsertText(r, p) \in Text
<1>1. r.prior \in Ledger /\ r.output \in Outputs /\ r.wanted \in Wanted /\ r.seen \in Observation
  BY DEF Request
<1>2. NextOwnership(r) \in Ledger
  BY <1>1, NextLedgerType DEF NextOwnership
<1>3. NextClaims(r.prior, r.output, r.wanted) \subseteq Claim
  BY <1>1, NextClaimsType
<1>4. \A p : UpsertText(r, p) \in Text
  BY <1>1, <1>3, NextTextType DEF UpsertText
<1>5. Mutation(r) \subseteq Prefixes
  <2>1. Upserting(r) \subseteq Prefixes
    BY <1>3 DEF Upserting, Upserts, Claimed, Claim
  <2>2. Removing(r) \subseteq Prefixes
    BY <1>1 DEF Removing, Removals, Observation
  <2> QED
    BY <2>1, <2>2 DEF Mutation
<1> QED
  BY <1>2, <1>4, <1>5

LEMMA EmptyLedgerType == EmptyLedger \in Ledger
BY DEF EmptyLedger, Ledger

(* Every action leaves the types of all variables alone.                   *)
LEMMA TypeStep == TypeOK /\ [Next]_vars => TypeOK'
<1> SUFFICES ASSUME TypeOK, [Next]_vars
             PROVE  TypeOK'
  OBVIOUS
<1> USE DEF TypeOK
<1>0. op \in [Workers -> Request] /\ \A w \in Workers : op[w] \in Request
  OBVIOUS
<1>1. ASSUME NEW w \in Workers, ReceiveAny(w) PROVE TypeOK'
  <2>1. ASSUME NEW kind \in Kinds, NEW o \in Outputs, NEW wanted \in Wanted,
               Receive(w, kind, o, wanted)
        PROVE  TypeOK'
    <3>1. [Idle EXCEPT !.phase = "waiting", !.kind = kind,
                       !.output = o, !.wanted = wanted] \in Request
      BY <2>1, IdleType DEF Request, Phases
    <3> QED
      BY <2>1, <3>1 DEF Receive
  <2>2. \A o \in Outputs : Artifacts[o] \subseteq Wanted
    BY ArtifactsAssumption
  <2>3. Nothing \in Wanted /\ Idle.output \in Outputs
    BY IdleType DEF Idle, Request
  <2> QED
    BY <1>1, <2>1, <2>2, <2>3 DEF ReceiveAny, Kinds
<1>2. ASSUME NEW w \in Workers, Advance(w) PROVE TypeOK'
  <2>1. CASE Acquire(w)
    <3>1. op[w].kind \in Kinds
      BY <1>0 DEF Request
    <3>2. FirstPhase(op[w].kind) \in Phases
      BY <3>1 DEF FirstPhase, Kinds, Phases, BeforeChange
    <3> QED
      BY <2>1, <3>2 DEF Acquire, Goto, Request
  <2>2. CASE Probe(w)
    BY <2>2 DEF Probe, Goto, Request, Phases, BeforeChange
  <2>3. CASE ReadLedger(w)
    BY <2>3, IdleType DEF ReadLedger, Finish, Request, Phases, BeforeChange
  <2>4. CASE TakeBackup(w)
    BY <2>4 DEF TakeBackup, Request, Phases, BeforeChange
  <2>5. CASE Reconcile(w)
    <3> DEFINE r == Reconciled(op[w], Observe(running))
    <3>1. [op[w] EXCEPT !.seen = Observe(running)] \in Request
      BY <1>0, ObserveType DEF Request
    <3>2. r \in Request
      BY <3>1, RequestResults DEF Reconciled, Request
    <3>3. op'[w] \in Request
      BY <2>5, <3>2 DEF Reconcile, Request, Phases, Changing
    <3> QED
      BY <2>5, <3>3 DEF Reconcile
  <2>6. ASSUME NEW p \in Prefixes, Command(w, p) PROVE TypeOK'
    <3>1. running' \in Config
      <4>1. UpsertText(op[w], p) \in Text
        BY <1>0, RequestResults
      <4>2. Upserted(running, p, UpsertText(op[w], p)) \in Config
        BY <4>1 DEF Upserted, Config, Entry
      <4>3. Removed(running, p) \in Config
        BY DEF Removed, Config, Absent, Entry, NoText, Text
      <4> QED
        BY <2>6, <4>2, <4>3 DEF Command
    <3> QED
      BY <2>6, <3>1 DEF Command, Request
  <2>7. CASE SaveConfiguration(w)
    BY <2>7 DEF SaveConfiguration, Goto, Request, Phases, Changing
  <2>8. CASE Verify(w)
    BY <2>8 DEF Verify, Goto, Request, Phases, Changing
  <2>9. CASE Persist(w)
    BY <2>9, <1>0, IdleType, RequestResults DEF Persist, Finish
  <2>10. CASE UploadBackup(w)
    BY <2>10 DEF UploadBackup, Goto, Request, Phases, Changing
  <2>11. CASE SaveRestored(w)
    BY <2>11 DEF SaveRestored, Goto, Request, Phases, Changing
  <2>12. CASE ConfirmRestored(w)
    BY <2>12, IdleType DEF ConfirmRestored, Finish
  <2>13. CASE RetireSurface(w)
    <3>1. CreatedIn(ledger) \subseteq Prefixes
      BY DEF CreatedIn, Ledger, Route
    <3> QED
      BY <2>13, <3>1, IdleType, EmptyLedgerType DEF RetireSurface, Finish
  <2> QED
    BY <1>2, <2>1, <2>2, <2>3, <2>4, <2>5, <2>6, <2>7, <2>8, <2>9, <2>10, <2>11,
       <2>12, <2>13 DEF Advance
<1>3. ASSUME NEW w \in Workers, Falter(w) PROVE TypeOK'
  <2>1. CASE GiveUp(w)
    BY <2>1, IdleType DEF GiveUp
  <2>2. CASE Refuse(w)
    BY <2>2, IdleType DEF Refuse, Finish
  <2>3. CASE StepFails(w)
    BY <2>3, IdleType DEF StepFails, Fail, Finish, Goto, Request, Phases, Changing
  <2>4. CASE RestoreFails(w)
    BY <2>4, <1>0, IdleType, RequestResults DEF RestoreFails, Finish
  <2>5. CASE RetireFails(w)
    BY <2>5, IdleType DEF RetireFails, Finish
  <2> QED
    BY <1>3, <2>1, <2>2, <2>3, <2>4, <2>5 DEF Falter
<1>4. CASE Outside
  <2>1. Absent \in Entry /\ \A t \in OperatorTexts : [text |-> t, by |-> "operator"] \in Entry
    BY OperatorTextsAssumption DEF Absent, Entry, NoText, Text
  <2>2. ASSUME NEW config \in Config, OutsideChange(config), saved' = saved PROVE TypeOK'
    BY <2>2 DEF OutsideChange, Upset
  <2>3. ASSUME NEW p \in Prefixes, OperatorAdds(p) PROVE TypeOK'
    BY <2>1, <2>2, <2>3 DEF OperatorAdds, Config
  <2>4. ASSUME NEW p \in Prefixes, OperatorDeletes(p) PROVE TypeOK'
    BY <2>1, <2>2, <2>4 DEF OperatorDeletes, Config
  <2>5. CASE OperatorSaves
    BY <2>5 DEF OperatorSaves, Upset
  <2>6. CASE Reboot
    BY <2>2, <2>6 DEF Reboot
  <2> QED
    BY <1>4, <2>3, <2>4, <2>5, <2>6 DEF Outside
<1>5. CASE Crash
  <2>1. UNION { Mutation(op[w]) : w \in { v \in Workers : op[v].phase \in Changing } }
          \subseteq Prefixes
    BY <1>0, RequestResults
  <2> QED
    BY <1>5, <2>1, IdleType DEF Crash, Upset
<1>6. CASE UNCHANGED vars
  BY <1>6 DEF vars
<1> QED
  BY <1>1, <1>2, <1>3, <1>4, <1>5, <1>6 DEF Next

----------------------------------------------------------------------------
(* The inductive invariant.  Validity is about every ledger a request still *)
(* holds as well as the committed one, because any of them may be what the  *)
(* next reconciliation starts from; RequestsAreAsked ties what a request    *)
(* wants to its kind, which the refinement needs.                           *)
LedgersAreValid ==
  ValidLedger(ledger) /\ \A w \in Workers : ValidLedger(op[w].prior)

RequestsAreAsked ==
  \A w \in Workers :
    /\ op[w].phase # "idle" /\ op[w].kind = "send" => op[w].wanted \in Artifacts[op[w].output]
    /\ op[w].phase # "idle" /\ op[w].kind = "remove" => op[w].wanted = Nothing
    /\ op[w].phase \in BeforeChange \cup Changing => op[w].kind # "retire"

IInv == TypeOK /\ LedgersAreValid /\ SnapshotIsCurrent /\ RequestsAreAsked

LEMMA EmptyIsValid == ValidLedger(EmptyLedger)
BY DEF ValidLedger, EmptyLedger, OneRoutePerPrefix, OneClaimPerOutput, RoutesAreClaimed,
       Named, Claimed, ForeignIsUntitled, TextsFollowClaims

LEMMA ReconciledIsValid ==
  ASSUME NEW r \in Request, ValidLedger(r.prior)
  PROVE  ValidLedger(NextOwnership(r))
BY NextLedgerIsValid DEF Request, NextOwnership

LEMMA ValidityStep ==
  ASSUME IInv, [Next]_vars
  PROVE  LedgersAreValid'
<1> USE DEF IInv
<1>0. \A w \in Workers : op[w] \in Request
  BY DEF TypeOK
<1>1. ValidLedger(Idle.prior)
  BY EmptyIsValid DEF Idle
<1>2. ASSUME NEW w \in Workers, ReceiveAny(w) PROVE LedgersAreValid'
  <2>1. PICK kind, o, wanted : Receive(w, kind, o, wanted)
    BY <1>2 DEF ReceiveAny, Kinds
  <2>2. op'[w].prior = Idle.prior
    BY <2>1, IdleType DEF Receive, TypeOK, Request
  <2>3. ledger' = ledger /\ \A v \in Workers \ {w} : op'[v] = op[v]
    BY <2>1 DEF Receive, TypeOK
  <2> QED
    BY <1>1, <2>2, <2>3 DEF LedgersAreValid
<1>3. ASSUME NEW w \in Workers, Advance(w) PROVE LedgersAreValid'
  <2>1. CASE Persist(w)
    <3>1. ValidLedger(ledger')
      BY <1>0, <2>1, ReconciledIsValid DEF Persist, LedgersAreValid
    <3> QED
      BY <1>1, <2>1, <3>1 DEF Persist, Finish, LedgersAreValid, TypeOK
  <2>2. CASE RetireSurface(w)
    BY <1>1, <2>2, EmptyIsValid DEF RetireSurface, Finish, LedgersAreValid, TypeOK
  <2>3. CASE ReadLedger(w)
    <3>1. op'[w].prior \in {Idle.prior, ledger}
      BY <1>0, <2>3 DEF ReadLedger, Finish, TypeOK, Request
    <3>2. ledger' = ledger /\ \A v \in Workers \ {w} : op'[v] = op[v]
      BY <2>3 DEF ReadLedger, Finish, TypeOK
    <3> QED
      BY <1>1, <3>1, <3>2 DEF LedgersAreValid
  <2>4. CASE Reconcile(w)
    BY <2>4 DEF Reconcile, Reconciled, LedgersAreValid, TypeOK, Request
  <2>5. CASE ConfirmRestored(w)
    BY <1>1, <2>5 DEF ConfirmRestored, Finish, LedgersAreValid, TypeOK
  <2>6. CASE Acquire(w) \/ Probe(w) \/ TakeBackup(w) \/ SaveConfiguration(w)
             \/ Verify(w) \/ UploadBackup(w) \/ SaveRestored(w)
    BY <2>6 DEF Acquire, Probe, TakeBackup, SaveConfiguration, Verify, UploadBackup,
                SaveRestored, Goto, LedgersAreValid, TypeOK, Request
  <2>7. ASSUME NEW p \in Prefixes, Command(w, p) PROVE LedgersAreValid'
    BY <2>7 DEF Command, LedgersAreValid, TypeOK, Request
  <2> QED
    BY <1>3, <2>1, <2>2, <2>3, <2>4, <2>5, <2>6, <2>7 DEF Advance
<1>4. ASSUME NEW w \in Workers, Falter(w) PROVE LedgersAreValid'
  BY <1>1, <1>4 DEF Falter, GiveUp, Refuse, StepFails, Fail, RestoreFails, RetireFails,
                    Finish, Goto, LedgersAreValid, TypeOK, Request
<1>5. CASE Outside
  BY <1>5 DEF Outside, OperatorAdds, OperatorDeletes, OperatorSaves, Reboot,
              OutsideChange, LedgersAreValid
<1>6. CASE Crash
  BY <1>1, <1>6 DEF Crash, LedgersAreValid
<1>7. CASE UNCHANGED vars
  BY <1>7 DEF vars, LedgersAreValid
<1> QED
  BY <1>2, <1>3, <1>4, <1>5, <1>6, <1>7 DEF Next

(* Only the request that holds the gate writes the ledger, and it answers  *)
(* in the same step.                                                       *)
LEMMA SnapshotStep ==
  ASSUME IInv, [Next]_vars
  PROVE  SnapshotIsCurrent'
<1> USE DEF IInv
<1>0. op \in [Workers -> Request] /\ \A w \in Workers : op[w] \in Request
  BY DEF TypeOK
<1>1. Idle.phase = "idle" /\ NoWorker \notin Workers
  BY NoWorkerAssumption DEF Idle
<1>a. ASSUME NEW w \in Workers, op[w].phase \notin {"idle", "waiting"},
             op' = [op EXCEPT ![w] = Idle], gate' = NoWorker
      PROVE  SnapshotIsCurrent'
  <2>1. \A v \in Workers : op'[v].phase \in {"idle", "waiting"}
    BY <1>0, <1>1, <1>a DEF SnapshotIsCurrent, Holding
  <2> QED
    BY <2>1 DEF SnapshotIsCurrent, Holding
<1>2. ASSUME NEW w \in Workers, ReceiveAny(w) PROVE SnapshotIsCurrent'
  <2>1. PICK kind, o, wanted : Receive(w, kind, o, wanted)
    BY <1>2 DEF ReceiveAny
  <2>2. op'[w].phase = "waiting" /\ gate' = gate /\ ledger' = ledger
    BY <2>1, <1>0, IdleType DEF Receive, Request
  <2>3. \A v \in Workers \ {w} : op'[v] = op[v]
    BY <1>0, <2>1 DEF Receive
  <2> QED
    BY <2>2, <2>3 DEF SnapshotIsCurrent, Holding, HasPrior
<1>3. ASSUME NEW w \in Workers, Advance(w) PROVE SnapshotIsCurrent'
  <2>1. CASE Acquire(w)
    <3>1. op'[w].phase \in {"probe", "ledger", "retire"} /\ op'[w].kind = op[w].kind
      BY <1>0, <2>1 DEF Acquire, GateOpen, Goto, FirstPhase, Request, Kinds
    <3>2. op'[w].phase = "probe" => op'[w].kind = "send"
      BY <1>0, <2>1 DEF Acquire, Goto, FirstPhase, Request, Kinds
    <3>3. gate = NoWorker /\ gate' = w /\ ledger' = ledger
      BY <2>1 DEF Acquire, GateOpen
    <3>4. \A v \in Workers \ {w} : op'[v] = op[v]
      BY <1>0, <2>1 DEF Acquire, Goto
    <3> QED
      BY <1>1, <3>1, <3>2, <3>3, <3>4 DEF SnapshotIsCurrent, Holding, HasPrior, Changing
  <2>2. CASE ReadLedger(w)
    <3>1. CASE op[w].kind = "remove" /\ OwnsNothing(ledger, op[w].output)
      BY <1>a, <2>2, <3>1 DEF ReadLedger, Finish
    <3>2. CASE ~ (op[w].kind = "remove" /\ OwnsNothing(ledger, op[w].output))
      <4>1. op'[w].prior = ledger /\ gate' = gate /\ ledger' = ledger
        BY <1>0, <2>2, <3>2 DEF ReadLedger, Request
      <4>2. \A v \in Workers \ {w} : op'[v] = op[v]
        BY <1>0, <2>2, <3>2 DEF ReadLedger
      <4> QED
        BY <2>2, <4>1, <4>2 DEF ReadLedger, SnapshotIsCurrent, Holding, HasPrior
    <3> QED
      BY <3>1, <3>2
  <2>3. CASE Persist(w)
    BY <1>a, <2>3 DEF Persist, Finish
  <2>4. CASE RetireSurface(w)
    BY <1>a, <2>4 DEF RetireSurface, Finish
  <2>5. CASE ConfirmRestored(w)
    BY <1>a, <2>5 DEF ConfirmRestored, Finish
  <2>6. CASE Probe(w)
    <3>1. op[w].kind \in {"send", "remove"}
      BY <1>0, <2>6 DEF Probe, RequestsAreAsked, BeforeChange, Request, Kinds
    <3>2. op'[w] = [op[w] EXCEPT !.phase = IF op[w].kind = "send" THEN "ledger" ELSE "backup"]
      BY <1>0, <2>6 DEF Probe, Goto
    <3>3. gate' = gate /\ ledger' = ledger /\ \A v \in Workers \ {w} : op'[v] = op[v]
      BY <1>0, <2>6 DEF Probe, Goto
    <3>4. gate = w /\ (op[w].kind = "remove" => op[w].prior = ledger)
      BY <2>6 DEF Probe, SnapshotIsCurrent, Holding, HasPrior
    <3>5. op'[w].prior = op[w].prior /\ op'[w].kind = op[w].kind
      BY <1>0, <3>2 DEF Request
    <3>6. op'[w].phase = IF op[w].kind = "send" THEN "ledger" ELSE "backup"
      BY <1>0, <3>2 DEF Request
    <3> QED
      BY <3>1, <3>3, <3>4, <3>5, <3>6 DEF SnapshotIsCurrent, Holding, HasPrior, Changing
  <2>7. CASE TakeBackup(w) \/ Reconcile(w) \/ SaveConfiguration(w) \/ Verify(w)
             \/ UploadBackup(w) \/ SaveRestored(w)
             \/ \E p \in Prefixes : Command(w, p)
    <3>1. gate' = gate /\ ledger' = ledger /\ \A v \in Workers \ {w} : op'[v] = op[v]
      BY <1>0, <2>7 DEF TakeBackup, Reconcile, SaveConfiguration, Verify, UploadBackup,
                        SaveRestored, Command, Goto
    <3>2. op'[w].prior = op[w].prior /\ Holding(w) /\ HasPrior(w)
      <4>1. op[w].phase \in {"backup", "observe"} \cup Changing
        BY <2>7 DEF TakeBackup, Reconcile, SaveConfiguration, Verify, UploadBackup,
                    SaveRestored, Command, Changing
      <4>2. Holding(w) /\ HasPrior(w)
        BY <4>1 DEF Holding, HasPrior, Changing
      <4>3. CASE Reconcile(w)
        <5>1. op'[w].prior = Reconciled(op[w], Observe(running)).prior
          BY <1>0, <4>3 DEF Reconcile, Request, Reconciled
        <5> QED
          BY <1>0, <4>2, <5>1 DEF Reconciled, Request
      <4>4. CASE ~ Reconcile(w)
        <5>1. op'[w].prior = op[w].prior
          BY <1>0, <2>7, <4>4 DEF TakeBackup, SaveConfiguration, Verify, UploadBackup,
                                  SaveRestored, Command, Goto, Request
        <5> QED
          BY <4>2, <5>1
      <4> QED
        BY <4>3, <4>4
    <3> QED
      BY <3>1, <3>2 DEF SnapshotIsCurrent, Holding, HasPrior
  <2> QED
    BY <1>3, <2>1, <2>2, <2>3, <2>4, <2>5, <2>6, <2>7 DEF Advance
<1>4. ASSUME NEW w \in Workers, Falter(w) PROVE SnapshotIsCurrent'
  <2>1. CASE GiveUp(w)
    <3>1. op'[w].phase = "idle" /\ \A v \in Workers \ {w} : op'[v] = op[v]
      BY <1>0, <1>1, <2>1 DEF GiveUp
    <3> QED
      BY <2>1, <3>1 DEF GiveUp, SnapshotIsCurrent, Holding, HasPrior
  <2>2. CASE Refuse(w)
    BY <1>a, <2>2 DEF Refuse, Finish, BeforeChange
  <2>3. CASE StepFails(w)
    <3>1. CASE Finish(w)
      BY <1>a, <2>3, <3>1 DEF StepFails, Finish
    <3>2. CASE Goto(w, "restore") /\ UNCHANGED <<gate, ledger>>
      BY <1>0, <2>3, <3>2 DEF StepFails, Goto, SnapshotIsCurrent, Holding, HasPrior,
                              Changing, Request
    <3> QED
      BY <2>3, <3>1, <3>2 DEF StepFails, Fail
  <2>4. CASE RestoreFails(w)
    BY <1>a, <2>4 DEF RestoreFails, Finish
  <2>5. CASE RetireFails(w)
    BY <1>a, <2>5 DEF RetireFails, Finish
  <2> QED
    BY <1>4, <2>1, <2>2, <2>3, <2>4, <2>5 DEF Falter
<1>5. CASE Outside
  BY <1>5 DEF Outside, OperatorAdds, OperatorDeletes, OperatorSaves, Reboot,
              OutsideChange, SnapshotIsCurrent, Holding, HasPrior
<1>6. CASE Crash
  BY <1>1, <1>6 DEF Crash, SnapshotIsCurrent, Holding
<1>7. CASE UNCHANGED vars
  BY <1>7 DEF vars, SnapshotIsCurrent, Holding, HasPrior
<1> QED
  BY <1>2, <1>3, <1>4, <1>5, <1>6, <1>7 DEF Next

LEMMA AskedStep ==
  ASSUME IInv, [Next]_vars
  PROVE  RequestsAreAsked'
<1> USE DEF IInv
<1>0. op \in [Workers -> Request] /\ \A w \in Workers : op[w] \in Request
  BY DEF TypeOK
<1>1. Idle \in Request /\ Idle.phase = "idle"
  BY IdleType DEF Idle
<1>a. ASSUME NEW w \in Workers, op'[w] = Idle, \A v \in Workers \ {w} : op'[v] = op[v]
      PROVE  RequestsAreAsked'
  BY <1>1, <1>a DEF RequestsAreAsked, BeforeChange, Changing
<1>b. ASSUME NEW w \in Workers, op[w].phase # "idle",
             op'[w].kind = op[w].kind, op'[w].wanted = op[w].wanted,
             op'[w].output = op[w].output,
             op'[w].phase \in BeforeChange \cup Changing => op[w].kind # "retire",
             \A v \in Workers \ {w} : op'[v] = op[v]
      PROVE  RequestsAreAsked'
  BY <1>b DEF RequestsAreAsked
<1>2. ASSUME NEW w \in Workers, ReceiveAny(w) PROVE RequestsAreAsked'
  <2>1. ASSUME NEW kind \in Kinds, NEW o, NEW wanted, Receive(w, kind, o, wanted),
               kind = "send" => wanted \in Artifacts[o], kind = "remove" => wanted = Nothing
        PROVE  RequestsAreAsked'
    <3>1. /\ op'[w].phase = "waiting" /\ op'[w].kind = kind
          /\ op'[w].output = o /\ op'[w].wanted = wanted
      BY <1>0, <1>1, <2>1 DEF Receive, Request
    <3>2. \A v \in Workers \ {w} : op'[v] = op[v]
      BY <1>0, <2>1 DEF Receive
    <3> QED
      BY <2>1, <3>1, <3>2 DEF RequestsAreAsked, BeforeChange, Changing
  <2> QED
    BY <1>2, <2>1 DEF ReceiveAny, Kinds
<1>3. ASSUME NEW w \in Workers, Advance(w) PROVE RequestsAreAsked'
  <2>1. CASE Acquire(w)
    <3>1. op'[w] = [op[w] EXCEPT !.phase = FirstPhase(op[w].kind)]
      BY <1>0, <2>1 DEF Acquire, Goto
    <3>2. op[w].kind = "retire" => op'[w].phase = "retire"
      BY <1>0, <3>1 DEF FirstPhase, Request
    <3>3. \A v \in Workers \ {w} : op'[v] = op[v]
      BY <1>0, <2>1 DEF Acquire, Goto
    <3>4. op'[w].kind = op[w].kind /\ op'[w].wanted = op[w].wanted /\ op'[w].output = op[w].output
      BY <1>0, <3>1 DEF Request
    <3> QED
      BY <1>b, <2>1, <3>2, <3>3, <3>4 DEF Acquire, BeforeChange, Changing
  <2>2. CASE op' = [op EXCEPT ![w] = Idle]
    BY <1>0, <1>a, <2>2
  <2>3. CASE ReadLedger(w) /\ ~ (op[w].kind = "remove" /\ OwnsNothing(ledger, op[w].output))
    <3>1. op[w].kind # "retire" /\ op[w].phase # "idle"
      BY <2>3 DEF ReadLedger, RequestsAreAsked, BeforeChange
    <3>2. /\ op'[w].kind = op[w].kind /\ op'[w].wanted = op[w].wanted
          /\ op'[w].output = op[w].output /\ \A v \in Workers \ {w} : op'[v] = op[v]
      BY <1>0, <2>3 DEF ReadLedger, Request
    <3> QED
      BY <1>b, <3>1, <3>2
  <2>4. CASE Probe(w) \/ TakeBackup(w) \/ Reconcile(w) \/ SaveConfiguration(w) \/ Verify(w)
             \/ UploadBackup(w) \/ SaveRestored(w)
             \/ \E p \in Prefixes : Command(w, p)
    <3>1. op[w].kind # "retire" /\ op[w].phase # "idle"
      BY <2>4 DEF Probe, TakeBackup, Reconcile, SaveConfiguration, Verify, UploadBackup,
                  SaveRestored, Command, RequestsAreAsked, BeforeChange, Changing
    <3>2. /\ op'[w].kind = op[w].kind /\ op'[w].wanted = op[w].wanted
          /\ op'[w].output = op[w].output
      <4>1. CASE Reconcile(w)
        BY <1>0, <4>1 DEF Reconcile, Reconciled, Request
      <4>2. CASE TakeBackup(w) \/ \E p \in Prefixes : Command(w, p)
        BY <1>0, <4>2 DEF TakeBackup, Command, Request
      <4>3. CASE \E phase \in Phases : Goto(w, phase)
        BY <1>0, <4>3 DEF Goto, Request
      <4> QED
        BY <2>4, <4>1, <4>2, <4>3
        DEF Probe, SaveConfiguration, Verify, UploadBackup, SaveRestored, Phases,
            BeforeChange, Changing
    <3>3. \A v \in Workers \ {w} : op'[v] = op[v]
      BY <1>0, <2>4 DEF Probe, TakeBackup, Reconcile, SaveConfiguration, Verify,
                        UploadBackup, SaveRestored, Command, Goto
    <3> QED
      BY <1>b, <3>1, <3>2, <3>3
  <2> QED
    BY <1>3, <2>1, <2>2, <2>3, <2>4
    DEF Advance, ReadLedger, Persist, ConfirmRestored, RetireSurface, Finish
<1>4. ASSUME NEW w \in Workers, Falter(w) PROVE RequestsAreAsked'
  <2>1. CASE op' = [op EXCEPT ![w] = Idle]
    BY <1>0, <1>a, <2>1
  <2>2. CASE StepFails(w) /\ Goto(w, "restore")
    <3>1. op[w].kind # "retire" /\ op[w].phase # "idle"
      BY <2>2 DEF StepFails, RequestsAreAsked, Changing
    <3>2. /\ op'[w].kind = op[w].kind /\ op'[w].wanted = op[w].wanted
          /\ op'[w].output = op[w].output /\ \A v \in Workers \ {w} : op'[v] = op[v]
      BY <1>0, <2>2 DEF Goto, Request
    <3> QED
      BY <1>b, <3>1, <3>2
  <2> QED
    BY <1>4, <2>1, <2>2
    DEF Falter, GiveUp, Refuse, StepFails, Fail, RestoreFails, RetireFails, Finish
<1>5. CASE Outside
  BY <1>5 DEF Outside, OperatorAdds, OperatorDeletes, OperatorSaves, Reboot,
              OutsideChange, RequestsAreAsked
<1>6. CASE Crash
  BY <1>1, <1>6 DEF Crash, RequestsAreAsked, BeforeChange, Changing
<1>7. CASE UNCHANGED vars
  BY <1>7 DEF vars, RequestsAreAsked
<1> QED
  BY <1>2, <1>3, <1>4, <1>5, <1>6, <1>7 DEF Next

(* The inductive invariant holds in every behaviour.                       *)
THEOREM Invariance == Spec => []IInv
<1>1. Init => IInv
  <2> SUFFICES ASSUME Init PROVE IInv
    OBVIOUS
  <2>1. TypeOK
    <3>1. {Absent} \cup [text : OperatorTexts, by : {"operator"}] \subseteq Entry
      BY OperatorTextsAssumption DEF Absent, Entry, NoText, Text
    <3>2. running \in Config
      BY <3>1 DEF Init, Config
    <3> QED
      BY <3>2, IdleType, EmptyLedgerType DEF Init, TypeOK
  <2>2. LedgersAreValid
    BY EmptyIsValid DEF Init, LedgersAreValid, Idle
  <2>3. SnapshotIsCurrent
    BY DEF Init, SnapshotIsCurrent, Holding, Idle
  <2>4. RequestsAreAsked
    BY DEF Init, RequestsAreAsked, Idle, BeforeChange, Changing
  <2> QED
    BY <2>1, <2>2, <2>3, <2>4 DEF IInv
<1>2. IInv /\ [Next]_vars => IInv'
  BY TypeStep, ValidityStep, SnapshotStep, AskedStep DEF IInv
<1> QED
  BY <1>1, <1>2, PTL DEF Spec

(* Every variable keeps its type in every behaviour.                       *)
THEOREM TypeCorrect == Spec => []TypeOK
BY Invariance, PTL DEF IInv

(* A delivery always replaces the ledger it read.                          *)
THEOREM SnapshotCorrect == Spec => []SnapshotIsCurrent
BY Invariance, PTL DEF IInv

(* No ledger a delivery commits, and nothing the router may show, makes    *)
(* the next reconciliation refuse: the surface stays deliverable.          *)
THEOREM ReconcileCorrect == Spec => []ReconcileNeverRefuses
<1>1. IInv => ReconcileNeverRefuses
  <2> SUFFICES ASSUME IInv PROVE ReconcileNeverRefuses
    OBVIOUS
  <2>1. ASSUME NEW w \in Workers
        PROVE  ValidLedger(NextOwnership(Reconciled(op[w], Observe(running))))
    <3> DEFINE r == Reconciled(op[w], Observe(running))
    <3>1. op[w] \in Request /\ running \in Config /\ ValidLedger(op[w].prior)
      BY DEF IInv, TypeOK, LedgersAreValid
    <3>2. [op[w] EXCEPT !.seen = Observe(running)] \in Request
      BY <3>1, ObserveType DEF Request
    <3>3. r \in Request
      BY <3>2, RequestResults DEF Reconciled, Request
    <3>4. r.prior = op[w].prior
      BY <3>1 DEF Reconciled, Request
    <3> QED
      BY <3>1, <3>3, <3>4, ReconciledIsValid
  <2> QED
    BY <2>1 DEF IInv, LedgersAreValid, ReconcileNeverRefuses
<1> QED
  BY <1>1, Invariance, PTL

----------------------------------------------------------------------------
(* The refinement: to the outputs sharing the surface, every step is one   *)
(* delivery, one withdrawal, the retirement, or nothing.                   *)
LEMMA NextClaimsIn ==
  ASSUME NEW prior \in Ledger, NEW o \in Outputs, NEW wanted \in Wanted,
         NEW next, next.claims = NextClaims(prior, o, wanted)
  PROVE  /\ ClaimsIn(next, o) = wanted
         /\ \A q \in Outputs : q # o => ClaimsIn(next, q) = ClaimsIn(prior, q)
<1>1. PICK P \in SUBSET Prefixes : wanted \in [P -> SUBSET Labels]
  BY DEF Wanted
<1>2. ClaimsIn(next, o) = wanted
  <2> DEFINE own == { c \in next.claims : c.output = o }
             mine == { [output |-> o, prefix |-> p, labels |-> wanted[p]] : p \in P }
  <2>1. own = mine
    BY <1>1 DEF NextClaims
  <2>2. Claimed(mine) = P
    <3>1. ASSUME NEW p \in P PROVE p \in Claimed(mine)
      <4>1. [output |-> o, prefix |-> p, labels |-> wanted[p]] \in mine
        BY <3>1
      <4>2. [output |-> o, prefix |-> p, labels |-> wanted[p]].prefix = p
        OBVIOUS
      <4> HIDE DEF mine
      <4> QED
        BY <4>1, <4>2, Zenon DEF Claimed
    <3>2. Claimed(mine) \subseteq P
      BY DEF Claimed
    <3> QED
      BY <3>1, <3>2
  <2>3. ASSUME NEW p \in P PROVE LabelsOf(mine, p) = wanted[p]
    <3> DEFINE c == [output |-> o, prefix |-> p, labels |-> wanted[p]]
    <3>1. { d \in mine : d.prefix = p } = { c } /\ c.labels = wanted[p]
      OBVIOUS
    <3> HIDE DEF mine, c
    <3>2. { d.labels : d \in { e \in mine : e.prefix = p } } = { wanted[p] }
      BY <3>1
    <3> QED
      BY <3>2 DEF LabelsOf
  <2>4. ClaimsIn(next, o) = [p \in Claimed(own) |-> LabelsOf(own, p)]
    BY DEF ClaimsIn
  <2> HIDE DEF own, mine
  <2>5. ClaimsIn(next, o) = [p \in P |-> wanted[p]]
    BY <2>1, <2>2, <2>3, <2>4
  <2> QED
    BY <1>1, <2>5
<1>3. ASSUME NEW q \in Outputs, q # o PROVE ClaimsIn(next, q) = ClaimsIn(prior, q)
  <2>1. { c \in next.claims : c.output = q } = { c \in prior.claims : c.output = q }
    BY <1>1, <1>3 DEF NextClaims
  <2> QED
    BY <2>1 DEF ClaimsIn
<1> QED
  BY <1>2, <1>3

LEMMA NothingClaimed == \A o : ClaimsIn(EmptyLedger, o) = Nothing
BY DEF ClaimsIn, EmptyLedger, Claimed, Nothing

(* A route surface implements the claim table: no delivery, removal,       *)
(* failure or crash disturbs what another output claims.                   *)
THEOREM Refinement == Spec => ImplementsOutputClaims
<1> DEFINE claimed == [o \in Outputs |-> ClaimsIn(ledger, o)]
<1>1. Init => Abstract!Init
  <2>1. Abstract!Nothing = Nothing
    BY DEF Nothing, Abstract!Nothing
  <2> QED
    BY <2>1, NothingClaimed DEF Init, Abstract!Init
<1>2. IInv /\ [Next]_vars => [Abstract!Next]_claimed
  <2> SUFFICES ASSUME IInv, [Next]_vars
               PROVE  [Abstract!Next]_claimed
    OBVIOUS
  <2>0. Abstract!Nothing = Nothing
    BY DEF Nothing, Abstract!Nothing
  <2>1. CASE ledger' = ledger
    BY <2>1
  <2>2. ASSUME NEW w \in Workers, Persist(w) PROVE Abstract!Next
    <3> DEFINE r == op[w]
    <3>1. r \in Request /\ r.prior = ledger
      BY <2>2 DEF Persist, IInv, TypeOK, SnapshotIsCurrent, Holding, HasPrior, Changing
    <3>2. /\ r.output \in Outputs /\ r.wanted \in Wanted /\ ledger \in Ledger
          /\ ledger'.claims = NextClaims(ledger, r.output, r.wanted)
      BY <2>2, <3>1 DEF Persist, NextOwnership, NextLedger, Request
    <3>3. /\ ClaimsIn(ledger', r.output) = r.wanted
          /\ \A q \in Outputs : q # r.output => ClaimsIn(ledger', q) = ClaimsIn(ledger, q)
      BY <3>2, NextClaimsIn
    <3>4. claimed' = [claimed EXCEPT ![r.output] = r.wanted]
      BY <3>2, <3>3
    <3>5. r.wanted \in Artifacts[r.output] \/ r.wanted = Nothing
      BY <2>2, <3>1 DEF Persist, IInv, RequestsAreAsked, Request, Kinds, BeforeChange, Changing
    <3> HIDE DEF r
    <3>6. CASE r.wanted \in Artifacts[r.output]
      <4>1. Abstract!Deliver(r.output)
        BY <3>4, <3>6 DEF Abstract!Deliver
      <4> QED
        BY <3>2, <4>1 DEF Abstract!Next
    <3>7. CASE r.wanted = Nothing
      <4>1. Abstract!Withdraw(r.output)
        BY <2>0, <3>4, <3>7 DEF Abstract!Withdraw
      <4> QED
        BY <3>2, <4>1 DEF Abstract!Next
    <3> QED
      BY <3>5, <3>6, <3>7
  <2>3. ASSUME NEW w \in Workers, RetireSurface(w) PROVE Abstract!Next
    <3>1. claimed' = [o \in Outputs |-> Nothing]
      BY <2>3, NothingClaimed DEF RetireSurface
    <3> QED
      BY <2>0, <3>1 DEF Abstract!Next, Abstract!Retire
  <2>4. \/ ledger' = ledger
        \/ \E w \in Workers : Persist(w) \/ RetireSurface(w)
    BY DEF Next, vars, ReceiveAny, Receive, Advance, Acquire, Probe, ReadLedger, TakeBackup,
           Reconcile, Command, SaveConfiguration, Verify, UploadBackup, SaveRestored,
           ConfirmRestored, Falter, GiveUp, Refuse, StepFails, Fail, RestoreFails, RetireFails,
           Outside, OperatorAdds, OperatorDeletes, OperatorSaves, Reboot, OutsideChange, Crash
  <2> QED
    BY <2>1, <2>2, <2>3, <2>4
<1> QED
  BY <1>1, <1>2, Invariance, PTL DEF Spec, ImplementsOutputClaims, Abstract!Spec
----------------------------------------------------------------------------
(* What the router shows and what the ledger says.  An entry e at prefix p *)
(* does not contradict the ledger l when a route l calls created is not    *)
(* the operator's, and is recorded by it when everything Routevane made is *)
(* on record and everything on record is there as recorded.                *)
NotOperators(l, e, p) == p \in CreatedIn(l) => e.by # "operator"
Recorded(l, e, p) ==
  /\ e.by = "routevane" => p \in CreatedIn(l)
  /\ \A s \in l.routes :
       s.prefix = p /\ s.created => e = [text |-> s.text, by |-> "routevane"]

(* From its first command to the upload of its backup a request leaves the *)
(* prefixes of its mutation in doubt.                                      *)
InBatch == {"apply", "verify", "persist", "restore"}
Doubt(r) == IF r.phase \in InBatch THEN Mutation(r) ELSE {}

Tells(config, doubt) ==
  \A p \in Prefixes \ contested :
    /\ NotOperators(ledger, config[p], p)
    /\ p \notin stranded \cup doubt => Recorded(ledger, config[p], p)

(* While a batch runs, its view of the table still says which routes were  *)
(* the router's own, and is exact wherever the batch has no command.       *)
SeenAt(r, p) ==
  /\ p \notin r.seen.at => running[p].by # "operator"
  /\ p \notin Mutation(r) =>
       /\ p \in r.seen.at <=> running[p].by # "nobody"
       /\ running[p].text = r.seen.text[p]

(* What the read-back of a batch has established.                          *)
ShownAt(r, p) ==
  /\ p \in Named(NextOwnership(r)) => running[p].by # "nobody"
  /\ \A s \in NextOwnership(r).routes :
       s.created /\ s.prefix = p => running[p].text = s.text
  /\ p \in Removing(r) => running[p].by = "nobody"

(* What is true of the router while request r holds the gate: both         *)
(* configurations and the backup tell the ledger, the batch knows what it  *)
(* started from, its commands are its plan, and what it saved is what runs.*)
Told(r) ==
  /\ Tells(running, Doubt(r)) /\ Tells(saved, Doubt(r))
  /\ r.phase \in {"observe"} \cup Changing => Tells(r.backup, {})
  /\ r.phase \in {"apply", "verify", "persist"} =>
       \A p \in Prefixes \ contested : SeenAt(r, p)
  /\ r.phase \in {"verify", "persist"} /\ Mutation(r) # {} =>
       \A p \in Prefixes \ contested : saved[p] = running[p]
  /\ r.phase = "persist" => \A p \in Prefixes \ contested : ShownAt(r, p)
  /\ r.phase = "apply" => r.todo \subseteq Mutation(r)
  /\ r.phase = "restore" => Mutation(r) # {}

(* The request that holds the gate, or the idle one when nobody does: then *)
(* both configurations tell the ledger outright.                           *)
Current(r) ==
  \/ \E w \in Workers : Holding(w) /\ r = op[w]
  \/ (\A w \in Workers : ~ Holding(w)) /\ r = Idle
RouterTellsLedger == \A r \in Request : Current(r) => Told(r)

TruthInv == IInv /\ RouterTellsLedger

(* The prefixes a reconciled ledger names and calls created.               *)
LEMMA NextCreatedIn ==
  ASSUME NEW r \in Request
  PROVE  /\ Named(NextOwnership(r)) = Claimed(NextClaims(r.prior, r.output, r.wanted))
         /\ CreatedIn(NextOwnership(r)) =
              { p \in Claimed(NextClaims(r.prior, r.output, r.wanted)) :
                  NextCreated(r.prior, r.seen, p) }
<1> DEFINE claims == NextClaims(r.prior, r.output, r.wanted)
           Entered(p) == [prefix |-> p,
                          text |-> IF NextCreated(r.prior, r.seen, p)
                                     THEN NextText(r.prior, claims, p)
                                     ELSE NoText,
                          created |-> NextCreated(r.prior, r.seen, p)]
           routes == NextOwnership(r).routes
<1>1. routes = { Entered(p) : p \in Claimed(claims) }
  BY DEF NextOwnership, NextLedger, NextRoutes
<1>2. \A p : Entered(p).prefix = p /\ Entered(p).created = NextCreated(r.prior, r.seen, p)
  OBVIOUS
<1>3. Named(NextOwnership(r)) = { s.prefix : s \in routes }
  BY DEF Named
<1>4. CreatedIn(NextOwnership(r)) = { s.prefix : s \in { t \in routes : t.created } }
  BY DEF CreatedIn
<1> HIDE DEF Entered, routes, claims
<1>5. Named(NextOwnership(r)) = Claimed(claims)
  BY <1>1, <1>2, <1>3
<1>6. CreatedIn(NextOwnership(r)) = { p \in Claimed(claims) : NextCreated(r.prior, r.seen, p) }
  BY <1>1, <1>2, <1>4
<1> QED
  BY <1>5, <1>6 DEF claims

(* A claimed prefix the router lacked is created; a route on record is     *)
(* removed exactly when it was seen and nobody claims it any more.         *)
LEMMA MutationAt ==
  ASSUME NEW r \in Request, NEW p \in Prefixes
  PROVE  /\ p \in CreatedIn(NextOwnership(r)) /\ p \notin CreatedIn(r.prior) => p \in Mutation(r)
         /\ p \in CreatedIn(NextOwnership(r)) => p \in CreatedIn(r.prior) \/ p \notin r.seen.at
         /\ p \in CreatedIn(NextOwnership(r)) /\ p \notin Mutation(r) => p \in r.seen.at
         /\ p \in CreatedIn(r.prior) /\ p \in r.seen.at =>
              p \in CreatedIn(NextOwnership(r)) \/ p \in Removing(r)
         /\ p \in Mutation(r) => p \in CreatedIn(NextOwnership(r)) \/ p \in Removing(r)
         /\ p \in Removing(r) => p \in CreatedIn(r.prior)
         /\ p \in Mutation(r) => p \in CreatedIn(r.prior) \/ p \notin r.seen.at
BY NextCreatedIn DEF Mutation, Upserting, Removing, Upserts, Removals, NextCreated

LEMMA CreatedHasRoute ==
  ASSUME NEW l, NEW p
  PROVE  p \in CreatedIn(l) <=> \E s \in l.routes : s.prefix = p /\ s.created
BY DEF CreatedIn

(* Two entries that both agree with one ledger at a created prefix are the *)
(* same, and are on the router.                                            *)
LEMMA RecordedAgree ==
  ASSUME NEW l, NEW p, p \in CreatedIn(l), NEW e, NEW f,
         Recorded(l, e, p), Recorded(l, f, p)
  PROVE  e = f /\ e.by = "routevane"
BY CreatedHasRoute DEF Recorded

(* A successful delivery: the entry its read-back found tells the ledger   *)
(* it commits.                                                             *)
LEMMA CommittedEntry ==
  ASSUME NEW r \in Request, NEW p \in Prefixes \ contested, running \in Config,
         ledger = r.prior, SeenAt(r, p), ShownAt(r, p),
         NotOperators(ledger, running[p], p),
         p \notin stranded \cup Mutation(r) => Recorded(ledger, running[p], p)
  PROVE  /\ NotOperators(NextOwnership(r), running[p], p)
         /\ p \notin stranded => Recorded(NextOwnership(r), running[p], p)
<1> DEFINE next == NextOwnership(r)
<1>0. running[p] \in Entry
  BY DEF Config
<1>1. NotOperators(next, running[p], p)
  BY MutationAt DEF NotOperators, SeenAt
<1>2. ASSUME p \notin stranded PROVE Recorded(next, running[p], p)
  <2>1. ASSUME running[p].by = "routevane" PROVE p \in CreatedIn(next)
    <3>1. CASE p \in Mutation(r)
      BY <2>1, <3>1, MutationAt DEF ShownAt
    <3>2. CASE p \notin Mutation(r)
      <4>1. p \in CreatedIn(r.prior) /\ p \in r.seen.at
        BY <1>2, <2>1, <3>2 DEF Recorded, SeenAt
      <4>2. p \notin Removing(r)
        BY <3>2 DEF Mutation
      <4> QED
        BY <4>1, <4>2, MutationAt
    <3> QED
      BY <3>1, <3>2
  <2>2. ASSUME NEW s \in next.routes, s.prefix = p, s.created
        PROVE  running[p] = [text |-> s.text, by |-> "routevane"]
    <3>1. p \in CreatedIn(next) /\ p \in Named(next)
      BY <2>2, CreatedHasRoute DEF Named
    <3>2. running[p].by # "nobody" /\ running[p].text = s.text
      BY <2>2, <3>1 DEF ShownAt
    <3>3. running[p].by # "operator"
      BY <1>1, <3>1 DEF NotOperators
    <3> QED
      BY <1>0, <3>2, <3>3 DEF Entry
  <2> QED
    BY <2>1, <2>2 DEF Recorded
<1> QED
  BY <1>1, <1>2

----------------------------------------------------------------------------
(* Told(r) step by step; r and s are a request before and after the step.  *)
(* Requests that are not in a batch and hold no fresh backup owe nothing   *)
(* beyond the two configurations.                                          *)
Early == {"idle", "waiting", "retire", "probe", "ledger", "backup"}

Quiet == UNCHANGED <<running, saved, ledger, contested, stranded>>

LEMMA EarlyTold ==
  ASSUME NEW r \in Request, r.phase \in Early, Told(r),
         NEW s \in Request, s.phase \in Early, Quiet
  PROVE  Told(s)'
<1>1. r.phase \notin {"observe"} \cup Changing /\ r.phase \notin InBatch
  BY DEF Early, Changing, InBatch
<1>2. s.phase \notin {"observe"} \cup Changing /\ s.phase \notin InBatch
  BY DEF Early, Changing, InBatch
<1>3. Doubt(r) = {} /\ Doubt(s) = {}
  BY <1>1, <1>2 DEF Doubt
<1>4. Tells(running, {}) /\ Tells(saved, {})
  BY <1>3 DEF Told
<1>5. Tells(running, {})' /\ Tells(saved, {})'
  BY <1>4 DEF Tells, Quiet
<1> QED
  BY <1>2, <1>3, <1>5 DEF Told, Changing

(* A backup is the saved configuration, so it tells the ledger too.        *)
LEMMA BackupTold ==
  ASSUME NEW r \in Request, r.phase = "backup", Told(r),
         NEW s \in Request, s.phase = "observe", s.backup = saved, Quiet
  PROVE  Told(s)'
<1>1. Doubt(r) = {} /\ Doubt(s) = {}
  BY DEF Doubt, InBatch
<1>2. Tells(running, {}) /\ Tells(saved, {})
  BY <1>1 DEF Told
<1>3. Tells(running, {})' /\ Tells(saved, {})' /\ Tells(s.backup, {})'
  BY <1>2 DEF Tells, Quiet
<1> QED
  BY <1>1, <1>3 DEF Told

(* Reconciling: the view is the router's, the plan the whole mutation.     *)
LEMMA ReconcileTold ==
  ASSUME NEW r \in Request, r.phase = "observe", Told(r), running \in Config,
         NEW s \in Request, s.phase = IF Mutation(s) = {} THEN "verify" ELSE "apply",
         s.seen = Observe(running), s.todo = Mutation(s), s.backup = r.backup, Quiet
  PROVE  Told(s)'
<1>1. Tells(running, {}) /\ Tells(saved, {}) /\ Tells(r.backup, {})
  BY DEF Told, Doubt, InBatch
<1>2. Tells(running, Doubt(s))' /\ Tells(saved, Doubt(s))' /\ Tells(s.backup, {})'
  BY <1>1 DEF Tells, Quiet
<1>3. \A p \in Prefixes : SeenAt(s, p)'
  BY DEF SeenAt, Observe, Present, Quiet, Config
<1> QED
  BY <1>2, <1>3 DEF Told

(* One command of the batch, executed or not.                              *)
LEMMA CommandTold ==
  ASSUME NEW r \in Request, r.phase = "apply", Told(r), running \in Config, r.prior = ledger,
         NEW q \in r.todo,
         NEW s \in Request, s = [r EXCEPT !.todo = @ \ {q}],
         \/ running' = IF q \in Removing(r) THEN Removed(running, q)
                                            ELSE Upserted(running, q, UpsertText(r, q))
         \/ running' = running,
         UNCHANGED <<saved, ledger, contested, stranded>>
  PROVE  Told(s)'
<1>1. /\ s.phase = "apply" /\ s.prior = r.prior /\ s.output = r.output /\ s.wanted = r.wanted
      /\ s.seen = r.seen /\ s.backup = r.backup /\ s.todo = r.todo \ {q}
  BY DEF Request
<1>2. Mutation(s) = Mutation(r) /\ Removing(s) = Removing(r)
  BY <1>1 DEF Mutation, Removing, Upserting
<1>3. Doubt(s) = Mutation(r) /\ Doubt(r) = Mutation(r)
  BY <1>1, <1>2 DEF Doubt, InBatch
<1>4. q \in Mutation(r) /\ q \in Prefixes
  BY RequestResults DEF Told
<1>5. \A p \in Prefixes : p # q => running'[p] = running[p]
  BY DEF Removed, Upserted, Config
<1>6. \/ running'[q].by = running[q].by
      \/ running'[q].by = "nobody"
      \/ (running[q].by = "nobody" /\ running'[q].by = "routevane")
  BY <1>4 DEF Removed, Upserted, Config, Absent
<1>7. Tells(running, Doubt(s))'
  <2>1. Tells(running, Mutation(r))
    BY <1>3 DEF Told
  <2> QED
    BY <1>3, <1>4, <1>5, <1>6, <2>1 DEF Tells, NotOperators
<1>8. Tells(saved, Doubt(s))' /\ Tells(s.backup, {})'
  <2>1. Tells(saved, Mutation(r)) /\ Tells(r.backup, {})
    BY <1>3 DEF Told, Changing
  <2> QED
    BY <1>1, <1>3, <2>1 DEF Tells
<1>9. \A p \in Prefixes \ contested : SeenAt(s, p)'
  <2>1. \A p \in Prefixes \ contested : SeenAt(r, p)
    BY DEF Told
  <2> QED
    BY <1>1, <1>2, <1>4, <1>5, <1>6, <2>1 DEF SeenAt
<1> QED
  BY <1>1, <1>2, <1>4, <1>7, <1>8, <1>9 DEF Told

(* The configuration is saved when every command is out.                   *)
LEMMA SaveTold ==
  ASSUME NEW r \in Request, r.phase = "apply", Told(r),
         NEW s \in Request, s = [r EXCEPT !.phase = "verify"],
         saved' = running, UNCHANGED <<running, ledger, contested, stranded>>
  PROVE  Told(s)'
<1>1. /\ s.phase = "verify" /\ s.prior = r.prior /\ s.output = r.output /\ s.wanted = r.wanted
      /\ s.seen = r.seen /\ s.backup = r.backup
  BY DEF Request
<1>2. Mutation(s) = Mutation(r)
  BY <1>1 DEF Mutation, Removing, Upserting
<1>3. Doubt(s) = Mutation(r) /\ Doubt(r) = Mutation(r)
  BY <1>1, <1>2 DEF Doubt, InBatch
<1>4. Tells(running, Mutation(r)) /\ Tells(r.backup, {})
  BY <1>3 DEF Told, Changing
<1>5. Tells(running, Doubt(s))' /\ Tells(saved, Doubt(s))' /\ Tells(s.backup, {})'
  BY <1>1, <1>3, <1>4 DEF Tells
<1>6. \A p \in Prefixes \ contested : SeenAt(s, p)'
  <2>1. \A p \in Prefixes \ contested : SeenAt(r, p)
    BY DEF Told
  <2> QED
    BY <1>1, <1>2, <2>1 DEF SeenAt
<1> QED
  BY <1>1, <1>5, <1>6 DEF Told

(* The read-back agrees with the next ledger.                              *)
LEMMA VerifyTold ==
  ASSUME NEW r \in Request, r.phase = "verify", Told(r), running \in Config,
         Verified(NextOwnership(r), Removing(r), Observe(running)),
         NEW s \in Request, s = [r EXCEPT !.phase = "persist"], Quiet
  PROVE  Told(s)'
<1>1. /\ s.phase = "persist" /\ s.prior = r.prior /\ s.output = r.output /\ s.wanted = r.wanted
      /\ s.seen = r.seen /\ s.backup = r.backup
  BY DEF Request
<1>2. Mutation(s) = Mutation(r) /\ Removing(s) = Removing(r) /\ NextOwnership(s) = NextOwnership(r)
  BY <1>1 DEF Mutation, Removing, Upserting, NextOwnership
<1>3. Doubt(s) = Mutation(r) /\ Doubt(r) = Mutation(r)
  BY <1>1, <1>2 DEF Doubt, InBatch
<1>4. Tells(running, Mutation(r)) /\ Tells(saved, Mutation(r)) /\ Tells(r.backup, {})
  BY <1>3 DEF Told, Changing
<1>5. Tells(running, Doubt(s))' /\ Tells(saved, Doubt(s))' /\ Tells(s.backup, {})'
  BY <1>1, <1>3, <1>4 DEF Tells, Quiet
<1>6. \A p \in Prefixes \ contested : SeenAt(s, p)'
  <2>1. \A p \in Prefixes \ contested : SeenAt(r, p)
    BY DEF Told
  <2> QED
    BY <1>1, <1>2, <2>1 DEF SeenAt, Quiet
<1>7. \A p \in Prefixes \ contested : ShownAt(s, p)'
  <2>1. ASSUME NEW p \in Prefixes PROVE ShownAt(r, p)
    BY DEF ShownAt, Verified, Observe, Present
  <2> QED
    BY <1>1, <1>2, <2>1 DEF ShownAt, Quiet
<1>8. Mutation(s) # {} => \A p \in Prefixes \ contested' : saved'[p] = running'[p]
  BY <1>2 DEF Told, Quiet
<1> QED
  BY <1>1, <1>5, <1>6, <1>7, <1>8 DEF Told, Quiet

(* The ledger is replaced: what the batch left is what is recorded.        *)
LEMMA PersistTold ==
  ASSUME NEW r \in Request, r.phase = "persist", Told(r), running \in Config, saved \in Config,
         r.prior = ledger, ledger' = NextOwnership(r),
         UNCHANGED <<running, saved, contested, stranded>>
  PROVE  Tells(running, {})' /\ Tells(saved, {})'
<1>1. Doubt(r) = Mutation(r)
  BY DEF Doubt, InBatch
<1>2. Tells(running, Mutation(r)) /\ Tells(saved, Mutation(r))
  BY <1>1 DEF Told
<1>3. ASSUME NEW p \in Prefixes \ contested
      PROVE  /\ NotOperators(NextOwnership(r), running[p], p)
             /\ p \notin stranded => Recorded(NextOwnership(r), running[p], p)
  <2>1. SeenAt(r, p) /\ ShownAt(r, p)
    BY DEF Told
  <2> QED
    BY <1>2, <2>1, CommittedEntry DEF Tells
<1>4. ASSUME NEW p \in Prefixes \ contested
      PROVE  /\ NotOperators(NextOwnership(r), saved[p], p)
             /\ p \notin stranded => Recorded(NextOwnership(r), saved[p], p)
  <2>1. CASE Mutation(r) # {}
    <3>1. saved[p] = running[p]
      BY <2>1 DEF Told
    <3> QED
      BY <1>3, <3>1
  <2>2. CASE Mutation(r) = {}
    <3>0. SeenAt(r, p)
      BY DEF Told
    <3>1. p \in CreatedIn(NextOwnership(r)) => p \in CreatedIn(ledger)
      BY <2>2, MutationAt
    <3>2. NotOperators(NextOwnership(r), saved[p], p)
      BY <1>2, <3>1 DEF Tells, NotOperators
    <3>3. ASSUME p \notin stranded, p \in CreatedIn(ledger)
          PROVE  saved[p] = running[p] /\ p \in r.seen.at
      <4>1. Recorded(ledger, running[p], p) /\ Recorded(ledger, saved[p], p)
        BY <1>2, <2>2, <3>3 DEF Tells
      <4>2. saved[p] = running[p] /\ running[p].by = "routevane"
        BY <3>3, <4>1, RecordedAgree
      <4> QED
        BY <2>2, <3>0, <4>2 DEF SeenAt
    <3>4. ASSUME p \notin stranded PROVE Recorded(NextOwnership(r), saved[p], p)
      <4>1. ASSUME saved[p].by = "routevane" PROVE p \in CreatedIn(NextOwnership(r))
        <5>1. p \in CreatedIn(ledger)
          BY <1>2, <2>2, <3>4, <4>1 DEF Tells, Recorded
        <5>2. p \in r.seen.at /\ p \notin Removing(r)
          BY <2>2, <3>3, <3>4, <5>1 DEF Mutation
        <5> QED
          BY <5>1, <5>2, MutationAt
      <4>2. ASSUME NEW s \in NextOwnership(r).routes, s.prefix = p, s.created
            PROVE  saved[p] = [text |-> s.text, by |-> "routevane"]
        <5>1. p \in CreatedIn(ledger)
          BY <3>1, <4>2, CreatedHasRoute
        <5>2. saved[p] = running[p]
          BY <3>3, <3>4, <5>1
        <5> QED
          BY <1>3, <3>4, <4>2, <5>2 DEF Recorded
      <4> QED
        BY <4>1, <4>2 DEF Recorded
    <3> QED
      BY <3>2, <3>4
  <2> QED
    BY <2>1, <2>2
<1> QED
  BY <1>3, <1>4 DEF Tells

(* A failed batch is rolled back: the doubt is the same until the backup   *)
(* is on the router, and then it is over.                                  *)
LEMMA FailTold ==
  ASSUME NEW r \in Request, r.phase \in {"apply", "verify", "persist"}, Told(r),
         Mutation(r) # {}, NEW s \in Request, s = [r EXCEPT !.phase = "restore"], Quiet
  PROVE  Told(s)'
<1>1. /\ s.phase = "restore" /\ s.prior = r.prior /\ s.output = r.output /\ s.wanted = r.wanted
      /\ s.seen = r.seen /\ s.backup = r.backup
  BY DEF Request
<1>2. Mutation(s) = Mutation(r)
  BY <1>1 DEF Mutation, Removing, Upserting
<1>3. Doubt(s) = Mutation(r) /\ Doubt(r) = Mutation(r)
  BY <1>1, <1>2 DEF Doubt, InBatch
<1>4. Tells(running, Mutation(r)) /\ Tells(saved, Mutation(r)) /\ Tells(r.backup, {})
  BY <1>3 DEF Told, Changing
<1>5. Tells(running, Doubt(s))' /\ Tells(saved, Doubt(s))' /\ Tells(s.backup, {})'
  BY <1>1, <1>3, <1>4 DEF Tells, Quiet
<1> QED
  BY <1>1, <1>2, <1>5 DEF Told

LEMMA UploadTold ==
  ASSUME NEW r \in Request, r.phase = "restore", Told(r),
         NEW s \in Request, s = [r EXCEPT !.phase = "resave"],
         running' = r.backup, saved' = r.backup, UNCHANGED <<ledger, contested, stranded>>
  PROVE  Told(s)'
<1>1. s.phase = "resave" /\ s.backup = r.backup
  BY DEF Request
<1>2. Tells(r.backup, {}) /\ Doubt(s) = {}
  BY <1>1 DEF Told, Doubt, InBatch, Changing
<1>3. Tells(running, {})' /\ Tells(saved, {})' /\ Tells(s.backup, {})'
  BY <1>1, <1>2 DEF Tells
<1> QED
  BY <1>1, <1>2, <1>3 DEF Told

LEMMA ResaveTold ==
  ASSUME NEW r \in Request, r.phase = "resave", Told(r),
         NEW s \in Request, s = [r EXCEPT !.phase = "reread"],
         saved' = running, UNCHANGED <<running, ledger, contested, stranded>>
  PROVE  Told(s)'
<1>1. s.phase = "reread" /\ s.backup = r.backup
  BY DEF Request
<1>2. Tells(running, {}) /\ Tells(r.backup, {}) /\ Doubt(s) = {}
  BY <1>1 DEF Told, Doubt, InBatch, Changing
<1>3. Tells(running, {})' /\ Tells(saved, {})' /\ Tells(s.backup, {})'
  BY <1>1, <1>2 DEF Tells
<1> QED
  BY <1>1, <1>2, <1>3 DEF Told

(* A request that ends without an answer leaves its doubt as stranded.     *)
LEMMA EndTold ==
  ASSUME NEW r \in Request, Told(r), UNCHANGED <<running, saved, ledger, contested>>,
         stranded \cup Doubt(r) \subseteq stranded'
  PROVE  Tells(running, {})' /\ Tells(saved, {})'
BY DEF Told, Tells

(* The operator or a reboot replaces the running configuration: inside a   *)
(* delivery's window everything that differs is contested.                 *)
LEMMA OutsideTold ==
  ASSUME NEW r \in Request, Told(r), NEW changed, changed \subseteq contested',
         \A p \in Prefixes \ changed : running'[p] = running[p],
         contested \subseteq contested', UNCHANGED <<saved, ledger, stranded>>
  PROVE  Told(r)'
<1>1. Tells(running, Doubt(r))' /\ Tells(saved, Doubt(r))'
  <2>1. Tells(running, Doubt(r)) /\ Tells(saved, Doubt(r))
    BY DEF Told
  <2> QED
    BY <2>1 DEF Tells
<1>2. Tells(r.backup, {}) => Tells(r.backup, {})'
  BY DEF Tells
<1>3. ASSUME NEW p \in Prefixes \ contested' PROVE running'[p] = running[p] /\ p \notin contested
  OBVIOUS
<1>4. \A p \in Prefixes \ contested' : SeenAt(r, p) => SeenAt(r, p)'
  BY <1>3 DEF SeenAt
<1>5. \A p \in Prefixes \ contested' : ShownAt(r, p) => ShownAt(r, p)'
  BY <1>3 DEF ShownAt
<1> QED
  BY <1>1, <1>2, <1>3, <1>4, <1>5 DEF Told

LEMMA OutsideSaveTold ==
  ASSUME NEW r \in Request, Told(r), saved' = running,
         UNCHANGED <<running, ledger, contested, stranded>>
  PROVE  Told(r)'
<1>1. Tells(running, Doubt(r))' /\ Tells(saved, Doubt(r))'
  <2>1. Tells(running, Doubt(r))
    BY DEF Told
  <2> QED
    BY <2>1 DEF Tells
<1>2. Tells(r.backup, {}) => Tells(r.backup, {})'
  BY DEF Tells
<1>4. \A p \in Prefixes \ contested : SeenAt(r, p) => SeenAt(r, p)'
  BY DEF SeenAt
<1>5. \A p \in Prefixes \ contested : ShownAt(r, p) => ShownAt(r, p)'
  BY DEF ShownAt
<1> QED
  BY <1>1, <1>2, <1>4, <1>5 DEF Told

(* Outside any window the operator may change what Routevane has no record *)
(* of without a contest; a reboot brings back what was saved.              *)
LEMMA OutsideEarlyTold ==
  ASSUME NEW r \in Request, r.phase \in Early, Told(r),
         \A p \in Prefixes :
           \/ running'[p] = running[p]
           \/ p \in contested'
           \/ p \notin CreatedIn(ledger) /\ running'[p].by # "routevane"
           \/ running'[p] = saved[p],
         contested \subseteq contested', UNCHANGED <<saved, ledger, stranded>>
  PROVE  Told(r)'
<1>1. r.phase \notin {"observe"} \cup Changing /\ r.phase \notin InBatch
  BY DEF Early, Changing, InBatch
<1>2. Doubt(r) = {}
  BY <1>1 DEF Doubt
<1>3. Tells(running, {}) /\ Tells(saved, {})
  BY <1>2 DEF Told
<1>4. Tells(saved, {})'
  BY <1>3 DEF Tells
<1>5. Tells(running, {})'
  <2> SUFFICES ASSUME NEW p \in Prefixes \ contested'
               PROVE  /\ NotOperators(ledger, running'[p], p)
                      /\ p \notin stranded => Recorded(ledger, running'[p], p)
    BY DEF Tells
  <2>0. /\ NotOperators(ledger, running[p], p) /\ NotOperators(ledger, saved[p], p)
        /\ p \notin stranded => Recorded(ledger, running[p], p) /\ Recorded(ledger, saved[p], p)
    BY <1>3 DEF Tells
  <2>1. CASE running'[p] = running[p]
    BY <2>0, <2>1
  <2>2. CASE running'[p] = saved[p]
    BY <2>0, <2>2
  <2>3. CASE p \notin CreatedIn(ledger) /\ running'[p].by # "routevane"
    BY <2>3, CreatedHasRoute DEF NotOperators, Recorded
  <2> QED
    BY <2>1, <2>2, <2>3
<1> QED
  BY <1>1, <1>2, <1>4, <1>5 DEF Told, Changing

LEMMA Alone ==
  ASSUME IInv, NEW w \in Workers, Holding(w)
  PROVE  \A v \in Workers \ {w} : ~ Holding(v)
BY DEF IInv, SnapshotIsCurrent

(* What carries the invariant over a step of the request that holds the    *)
(* gate: its next state is told, or it has answered and both               *)
(* configurations tell the ledger.                                         *)
LEMMA HolderGoesOn ==
  ASSUME IInv, NEW w \in Workers, Holding(w), NEW s \in Request,
         op' = [op EXCEPT ![w] = s], s.phase \notin {"idle", "waiting"}, Told(s)'
  PROVE  RouterTellsLedger'
<1>1. op \in [Workers -> Request]
  BY DEF IInv, TypeOK
<1>2. op'[w] = s /\ Holding(w)'
  BY <1>1 DEF Holding
<1>3. \A v \in Workers \ {w} : ~ Holding(v)'
  BY <1>1, Alone DEF Holding
<1>4. \A r : Current(r)' => r = s
  BY <1>2, <1>3 DEF Current
<1> QED
  BY <1>4 DEF RouterTellsLedger

LEMMA HolderAnswers ==
  ASSUME IInv, NEW w \in Workers, Holding(w), op' = [op EXCEPT ![w] = Idle],
         Tells(running, {})', Tells(saved, {})'
  PROVE  RouterTellsLedger'
<1>1. op \in [Workers -> Request] /\ Idle.phase = "idle"
  BY DEF IInv, TypeOK, Idle
<1>2. \A v \in Workers : ~ Holding(v)'
  BY <1>1, Alone DEF Holding
<1>3. \A r : Current(r)' => r = Idle
  BY <1>2 DEF Current
<1>4. Told(Idle)'
  BY <1>1 DEF Told, Doubt, InBatch, Changing
<1> QED
  BY <1>3, <1>4 DEF RouterTellsLedger

LEMMA TruthStep ==
  ASSUME TruthInv, [Next]_vars
  PROVE  RouterTellsLedger'
<1> USE DEF TruthInv
<1>0. /\ op \in [Workers -> Request] /\ \A w \in Workers : op[w] \in Request
      /\ running \in Config /\ saved \in Config
  BY DEF IInv, TypeOK
<1>i. Idle \in Request /\ Idle.phase = "idle"
  BY IdleType DEF Idle
<1>t. ASSUME NEW w \in Workers, Holding(w) PROVE Told(op[w])
  BY <1>0, <1>t DEF RouterTellsLedger, Current
<1>c. ASSUME NEW w \in Workers, op[w].phase \in {"idle", "waiting"},
             op'[w].phase \in {"idle", "waiting"}, \A v \in Workers \ {w} : op'[v] = op[v], Quiet
      PROVE  RouterTellsLedger'
  <2>1. \A v \in Workers : Holding(v)' <=> Holding(v)
    BY <1>c DEF Holding
  <2>2. \A r : Current(r)' => Current(r)
    BY <1>c, <2>1 DEF Current, Holding
  <2>3. ASSUME NEW r \in Request, Told(r) PROVE Told(r)'
    BY <1>c, <2>3 DEF Quiet, Told, Tells, SeenAt, ShownAt
  <2> QED
    BY <2>2, <2>3 DEF RouterTellsLedger
<1>1. ASSUME NEW w \in Workers, ReceiveAny(w) PROVE RouterTellsLedger'
  <2>1. PICK kind, o, wanted : Receive(w, kind, o, wanted)
    BY <1>1 DEF ReceiveAny
  <2>2. op'[w].phase = "waiting" /\ \A v \in Workers \ {w} : op'[v] = op[v]
    BY <1>0, <2>1, IdleType DEF Receive, Request
  <2> QED
    BY <1>c, <2>1, <2>2 DEF Receive, Quiet
<1>2. ASSUME NEW w \in Workers, Advance(w) PROVE RouterTellsLedger'
  <2> PICK r \in Request : r = op[w]
    BY <1>0
  <2>h. ASSUME Holding(w) PROVE Told(r)
    BY <1>t, <2>h
  <2>1. CASE Acquire(w)
    <3>1. PICK s \in Request : s = [r EXCEPT !.phase = FirstPhase(r.kind)]
      BY DEF Request, FirstPhase, Kinds, Phases, BeforeChange
    <3>2. s.phase \in {"probe", "ledger", "retire"}
      BY <3>1 DEF Request, FirstPhase, Kinds
    <3>3. \A v \in Workers : ~ Holding(v)
      BY <2>1, NoWorkerAssumption DEF Acquire, GateOpen, IInv, SnapshotIsCurrent
    <3>4. Told(Idle)
      BY <1>i, <3>3 DEF RouterTellsLedger, Current
    <3>5. Told(s)'
      BY <1>i, <2>1, <3>2, <3>4, EarlyTold DEF Acquire, Quiet, Early
    <3>6. op' = [op EXCEPT ![w] = s]
      BY <1>0, <2>1, <3>1 DEF Acquire, Goto
    <3>7. \A q : Current(q)' => q = s
      BY <1>0, <3>2, <3>3, <3>6 DEF Current, Holding
    <3> QED
      BY <3>5, <3>7 DEF RouterTellsLedger
  <2>2. CASE Probe(w)
    <3>1. PICK s \in Request : s = [r EXCEPT !.phase = IF r.kind = "send" THEN "ledger" ELSE "backup"]
      BY DEF Request, Phases, BeforeChange
    <3>2. s.phase \in {"ledger", "backup"}
      BY <3>1 DEF Request
    <3>3. Holding(w) /\ r.phase = "probe"
      BY <2>2 DEF Probe, Holding
    <3>4. Told(s)'
      BY <2>2, <2>h, <3>2, <3>3, EarlyTold DEF Probe, Quiet, Early
    <3>5. op' = [op EXCEPT ![w] = s]
      BY <1>0, <2>2, <3>1 DEF Probe, Goto
    <3> QED
      BY <3>2, <3>3, <3>4, <3>5, HolderGoesOn
  <2>3. CASE ReadLedger(w)
    <3>1. Holding(w) /\ r.phase = "ledger" /\ Quiet
      BY <2>3 DEF ReadLedger, Holding, Quiet
    <3>2. CASE Finish(w)
      <4>1. Tells(running, {})' /\ Tells(saved, {})'
        BY <2>h, <3>1, EndTold DEF Quiet, Doubt, InBatch
      <4> QED
        BY <3>1, <3>2, <4>1, HolderAnswers DEF Finish
    <3>3. CASE ~ Finish(w)
      <4>1. PICK s : s = [r EXCEPT !.prior = ledger,
                                   !.phase = IF r.kind = "send" THEN "backup" ELSE "probe"]
        OBVIOUS
      <4>2. s \in Request /\ s.phase \in {"backup", "probe"}
        BY <4>1 DEF Request, Phases, BeforeChange, IInv, TypeOK
      <4>3. op' = [op EXCEPT ![w] = s]
        BY <1>0, <2>3, <3>3, <4>1 DEF ReadLedger
      <4>4. Told(s)'
        BY <2>h, <3>1, <4>2, EarlyTold DEF Early
      <4> QED
        BY <3>1, <4>2, <4>3, <4>4, HolderGoesOn
    <3> QED
      BY <3>2, <3>3
  <2>4. CASE TakeBackup(w)
    <3>1. PICK s : s = [r EXCEPT !.backup = saved, !.phase = "observe"]
      OBVIOUS
    <3>2. s \in Request /\ s.phase = "observe" /\ s.backup = saved
      BY <1>0, <3>1 DEF Request, Phases, BeforeChange
    <3>3. Holding(w) /\ r.phase = "backup" /\ Quiet
      BY <2>4 DEF TakeBackup, Holding, Quiet
    <3>4. op' = [op EXCEPT ![w] = s]
      BY <1>0, <2>4, <3>1 DEF TakeBackup
    <3>5. Told(s)'
      BY <2>h, <3>2, <3>3, BackupTold
    <3> QED
      BY <3>2, <3>3, <3>4, <3>5, HolderGoesOn
  <2>5. CASE Reconcile(w)
    <3>1. PICK m : m = Reconciled(r, Observe(running))
      OBVIOUS
    <3>2. PICK s : s = [m EXCEPT !.phase = IF m.todo = {} THEN "verify" ELSE "apply"]
      OBVIOUS
    <3>3. [r EXCEPT !.seen = Observe(running)] \in Request
      BY <1>0, ObserveType DEF Request
    <3>4. m \in Request /\ m.seen = Observe(running) /\ m.backup = r.backup
          /\ m.todo = Mutation([r EXCEPT !.seen = Observe(running)])
          /\ m.prior = r.prior /\ m.output = r.output /\ m.wanted = r.wanted
      BY <3>1, <3>3, RequestResults DEF Reconciled, Request
    <3>5. s \in Request /\ s.phase = (IF m.todo = {} THEN "verify" ELSE "apply")
          /\ s.seen = Observe(running) /\ s.backup = r.backup /\ s.todo = m.todo
          /\ s.prior = r.prior /\ s.output = r.output /\ s.wanted = r.wanted
      BY <3>2, <3>4 DEF Request, Phases, Changing
    <3>6. s.todo = Mutation(s)
      BY <3>3, <3>4, <3>5 DEF Mutation, Upserting, Removing, Request
    <3>7. Holding(w) /\ r.phase = "observe" /\ Quiet
      BY <2>5 DEF Reconcile, Holding, Quiet
    <3>8. op' = [op EXCEPT ![w] = s]
      BY <1>0, <2>5, <3>1, <3>2 DEF Reconcile
    <3>9. Told(s)'
      BY <1>0, <2>h, <3>5, <3>6, <3>7, ReconcileTold
    <3> QED
      BY <3>5, <3>7, <3>8, <3>9, HolderGoesOn
  <2>6. ASSUME NEW q \in Prefixes, Command(w, q) PROVE RouterTellsLedger'
    <3>1. PICK s : s = [r EXCEPT !.todo = @ \ {q}]
      OBVIOUS
    <3>2. s \in Request /\ s.phase = r.phase
      BY <3>1 DEF Request
    <3>3. Holding(w) /\ HasPrior(w) /\ r.phase = "apply" /\ q \in r.todo
      BY <2>6 DEF Command, Holding, HasPrior, Changing
    <3>4. r.prior = ledger
      BY <3>3 DEF IInv, SnapshotIsCurrent
    <3>5. op' = [op EXCEPT ![w] = s]
      BY <1>0, <2>6, <3>1 DEF Command
    <3>6. Told(s)'
      BY <1>0, <2>6, <2>h, <3>1, <3>2, <3>3, <3>4, CommandTold DEF Command
    <3> QED
      BY <3>2, <3>3, <3>5, <3>6, HolderGoesOn
  <2>7. CASE SaveConfiguration(w)
    <3>1. PICK s : s = [r EXCEPT !.phase = "verify"]
      OBVIOUS
    <3>2. s \in Request /\ s.phase = "verify"
      BY <3>1 DEF Request, Phases, Changing
    <3>3. Holding(w) /\ r.phase = "apply"
      BY <2>7 DEF SaveConfiguration, Holding
    <3>4. op' = [op EXCEPT ![w] = s]
      BY <1>0, <2>7, <3>1 DEF SaveConfiguration, Goto
    <3>5. Told(s)'
      BY <2>7, <2>h, <3>1, <3>2, <3>3, SaveTold DEF SaveConfiguration
    <3> QED
      BY <3>2, <3>3, <3>4, <3>5, HolderGoesOn
  <2>8. CASE Verify(w)
    <3>1. PICK s : s = [r EXCEPT !.phase = "persist"]
      OBVIOUS
    <3>2. s \in Request /\ s.phase = "persist"
      BY <3>1 DEF Request, Phases, Changing
    <3>3. Holding(w) /\ r.phase = "verify" /\ Quiet
      BY <2>8 DEF Verify, Holding, Quiet
    <3>4. op' = [op EXCEPT ![w] = s]
      BY <1>0, <2>8, <3>1 DEF Verify, Goto
    <3>5. Told(s)'
      BY <1>0, <2>8, <2>h, <3>1, <3>2, <3>3, VerifyTold DEF Verify
    <3> QED
      BY <3>2, <3>3, <3>4, <3>5, HolderGoesOn
  <2>9. CASE Persist(w)
    <3>1. Holding(w) /\ HasPrior(w) /\ r.phase = "persist"
      BY <2>9 DEF Persist, Holding, HasPrior, Changing
    <3>2. r.prior = ledger
      BY <3>1 DEF IInv, SnapshotIsCurrent
    <3>3. Tells(running, {})' /\ Tells(saved, {})'
      BY <1>0, <2>9, <2>h, <3>1, <3>2, PersistTold DEF Persist
    <3> QED
      BY <2>9, <3>1, <3>3, HolderAnswers DEF Persist, Finish
  <2>10. CASE UploadBackup(w)
    <3>1. PICK s : s = [r EXCEPT !.phase = "resave"]
      OBVIOUS
    <3>2. s \in Request /\ s.phase = "resave"
      BY <3>1 DEF Request, Phases, Changing
    <3>3. Holding(w) /\ r.phase = "restore"
      BY <2>10 DEF UploadBackup, Holding
    <3>4. op' = [op EXCEPT ![w] = s]
      BY <1>0, <2>10, <3>1 DEF UploadBackup, Goto
    <3>5. Told(s)'
      BY <2>10, <2>h, <3>1, <3>2, <3>3, UploadTold DEF UploadBackup
    <3> QED
      BY <3>2, <3>3, <3>4, <3>5, HolderGoesOn
  <2>11. CASE SaveRestored(w)
    <3>1. PICK s : s = [r EXCEPT !.phase = "reread"]
      OBVIOUS
    <3>2. s \in Request /\ s.phase = "reread"
      BY <3>1 DEF Request, Phases, Changing
    <3>3. Holding(w) /\ r.phase = "resave"
      BY <2>11 DEF SaveRestored, Holding
    <3>4. op' = [op EXCEPT ![w] = s]
      BY <1>0, <2>11, <3>1 DEF SaveRestored, Goto
    <3>5. Told(s)'
      BY <2>11, <2>h, <3>1, <3>2, <3>3, ResaveTold DEF SaveRestored
    <3> QED
      BY <3>2, <3>3, <3>4, <3>5, HolderGoesOn
  <2>12. CASE ConfirmRestored(w)
    <3>1. Holding(w) /\ Doubt(r) = {}
      BY <2>12 DEF ConfirmRestored, Holding, Doubt, InBatch
    <3>2. Tells(running, {})' /\ Tells(saved, {})'
      BY <2>12, <2>h, <3>1, EndTold DEF ConfirmRestored
    <3> QED
      BY <2>12, <3>1, <3>2, HolderAnswers DEF ConfirmRestored, Finish
  <2>13. CASE RetireSurface(w)
    <3>1. Holding(w) /\ Doubt(r) = {}
      BY <2>13 DEF RetireSurface, Holding, Doubt, InBatch
    <3>2. Tells(running, {}) /\ Tells(saved, {})
      BY <2>h, <3>1 DEF Told
    <3>3. Tells(running, {})' /\ Tells(saved, {})'
      BY <2>13, <3>2
      DEF RetireSurface, Tells, NotOperators, Recorded, EmptyLedger, CreatedIn
    <3> QED
      BY <2>13, <3>1, <3>3, HolderAnswers DEF RetireSurface, Finish
  <2> QED
    BY <1>2, <2>1, <2>2, <2>3, <2>4, <2>5, <2>6, <2>7, <2>8, <2>9, <2>10, <2>11,
       <2>12, <2>13 DEF Advance
<1>3. ASSUME NEW w \in Workers, Falter(w) PROVE RouterTellsLedger'
  <2> PICK r \in Request : r = op[w]
    BY <1>0
  <2>h. ASSUME Holding(w) PROVE Told(r)
    BY <1>t, <2>h
  <2>1. CASE GiveUp(w)
    <3>1. op'[w].phase = "idle" /\ \A v \in Workers \ {w} : op'[v] = op[v]
      BY <1>0, <1>i, <2>1 DEF GiveUp
    <3> QED
      BY <1>c, <2>1, <3>1 DEF GiveUp, Quiet
  <2>2. CASE Refuse(w) \/ RetireFails(w)
    <3>1. Holding(w) /\ Doubt(r) = {} /\ Quiet /\ Finish(w)
      BY <2>2 DEF Refuse, RetireFails, Holding, Doubt, InBatch, BeforeChange, Quiet
    <3>2. Tells(running, {})' /\ Tells(saved, {})'
      BY <2>h, <3>1, EndTold DEF Quiet
    <3> QED
      BY <3>1, <3>2, HolderAnswers DEF Finish
  <2>3. CASE StepFails(w)
    <3>1. Holding(w) /\ r.phase \in {"apply", "verify", "persist"} /\ Quiet
      BY <2>3 DEF StepFails, Fail, Holding, Quiet
    <3>2. CASE DeviceMayHaveChanged(r) /\ Goto(w, "restore")
      <4>1. PICK s : s = [r EXCEPT !.phase = "restore"]
        OBVIOUS
      <4>2. s \in Request /\ s.phase = "restore"
        BY <4>1 DEF Request, Phases, Changing
      <4>3. op' = [op EXCEPT ![w] = s]
        BY <1>0, <3>2, <4>1 DEF Goto
      <4>4. Told(s)'
        BY <2>h, <3>1, <3>2, <4>1, <4>2, FailTold DEF DeviceMayHaveChanged
      <4> QED
        BY <3>1, <4>2, <4>3, <4>4, HolderGoesOn
    <3>3. CASE ~ DeviceMayHaveChanged(r) /\ Finish(w)
      <4>1. Doubt(r) = {}
        BY <3>3 DEF DeviceMayHaveChanged, Doubt
      <4>2. Tells(running, {})' /\ Tells(saved, {})'
        BY <2>h, <3>1, <4>1, EndTold DEF Quiet
      <4> QED
        BY <3>1, <3>3, <4>2, HolderAnswers DEF Finish
    <3> QED
      BY <2>3, <3>2, <3>3 DEF StepFails, Fail
  <2>4. CASE RestoreFails(w)
    <3>1. Holding(w) /\ Doubt(r) \subseteq Mutation(r)
      BY <2>4 DEF RestoreFails, Holding, Doubt
    <3>2. Tells(running, {})' /\ Tells(saved, {})'
      BY <2>4, <2>h, <3>1, EndTold DEF RestoreFails
    <3> QED
      BY <2>4, <3>1, <3>2, HolderAnswers DEF RestoreFails, Finish
  <2> QED
    BY <1>3, <2>1, <2>2, <2>3, <2>4 DEF Falter
<1>4. CASE Outside
  <2>0. op' = op /\ ledger' = ledger /\ stranded' = stranded
    BY <1>4 DEF Outside, OperatorAdds, OperatorDeletes, OperatorSaves, Reboot, OutsideChange
  <2>1. \A r : Current(r)' <=> Current(r)
    BY <2>0 DEF Current, Holding
  <2> SUFFICES ASSUME NEW r \in Request, Current(r), Told(r)
               PROVE  Told(r)'
    BY <2>1 DEF RouterTellsLedger
  <2>2. r.phase \in Early \/ Window
    <3>1. CASE r = Idle
      BY <1>i, <3>1 DEF Early
    <3>2. CASE \E w \in Workers : r = op[w]
      <4>1. r.phase \in Phases
        BY DEF Request
      <4> QED
        BY <3>2, <4>1 DEF Early, Window, Phases, BeforeChange, Changing
    <3> QED
      BY <3>1, <3>2 DEF Current
  <2>3. CASE OperatorSaves
    BY <2>3, OutsideSaveTold DEF OperatorSaves
  <2>4. ASSUME NEW config \in Config, OutsideChange(config), saved' = saved,
               \A p \in Prefixes : config[p] = running[p] \/ config[p].by # "routevane"
                                   \/ config[p] = saved[p]
        PROVE  Told(r)'
    <3>1. contested \subseteq contested' /\ running' = config
      BY <2>4 DEF OutsideChange
    <3>2. CASE Window
      <4>1. PICK changed : changed = { p \in Prefixes : config[p] # running[p] }
        OBVIOUS
      <4>2. changed \subseteq contested' /\ \A p \in Prefixes \ changed : running'[p] = running[p]
        BY <2>4, <3>2, <4>1 DEF OutsideChange
      <4> QED
        BY <2>0, <2>4, <3>1, <4>2, OutsideTold
    <3>3. CASE r.phase \in Early
      <4>1. ASSUME NEW p \in Prefixes
            PROVE  \/ running'[p] = running[p]
                   \/ p \in contested'
                   \/ p \notin CreatedIn(ledger) /\ running'[p].by # "routevane"
                   \/ running'[p] = saved[p]
        BY <2>4, <3>1 DEF OutsideChange
      <4> QED
        BY <2>0, <2>4, <3>1, <3>3, <4>1, OutsideEarlyTold
    <3> QED
      BY <2>2, <3>2, <3>3
  <2>5. ASSUME NEW p \in Prefixes, OperatorAdds(p) PROVE Told(r)'
    <3>1. PICK text \in OperatorTexts :
            OutsideChange([running EXCEPT ![p] = [text |-> text, by |-> "operator"]])
      BY <2>5 DEF OperatorAdds
    <3>2. PICK config : config = [running EXCEPT ![p] = [text |-> text, by |-> "operator"]]
      OBVIOUS
    <3>3. config \in Config
      BY <1>0, <3>2, OperatorTextsAssumption DEF Config, Entry
    <3>4. \A q \in Prefixes : config[q] = running[q] \/ config[q].by # "routevane"
      BY <1>0, <3>2 DEF Config
    <3>5. OutsideChange(config) /\ saved' = saved
      BY <2>5, <3>1, <3>2 DEF OperatorAdds
    <3> QED
      BY <2>4, <3>3, <3>4, <3>5
  <2>6. ASSUME NEW p \in Prefixes, OperatorDeletes(p) PROVE Told(r)'
    <3>1. PICK config : config = [running EXCEPT ![p] = Absent]
      OBVIOUS
    <3>2. config \in Config
      BY <1>0, <3>1 DEF Config, Entry, Absent, NoText, Text
    <3>3. \A q \in Prefixes : config[q] = running[q] \/ config[q].by # "routevane"
      BY <1>0, <3>1 DEF Config, Absent
    <3>4. OutsideChange(config) /\ saved' = saved
      BY <2>6, <3>1 DEF OperatorDeletes
    <3> QED
      BY <2>4, <3>2, <3>3, <3>4
  <2>7. CASE Reboot
    <3>1. PICK config \in Config : config = saved
      BY <1>0
    <3>2. OutsideChange(config) /\ saved' = saved
      BY <2>7, <3>1 DEF Reboot
    <3> QED
      BY <2>4, <3>1, <3>2
  <2> QED
    BY <1>4, <2>3, <2>5, <2>6, <2>7 DEF Outside
<1>5. CASE Crash
  <2>1. \A v \in Workers : op'[v] = Idle
    BY <1>5 DEF Crash
  <2>2. \A q : Current(q)' => q = Idle
    BY <1>i, <2>1 DEF Current, Holding
  <2>3. PICK r \in Request : Current(r)
    BY <1>0, <1>i DEF Current
  <2>4. Doubt(r) \subseteq stranded'
    <3>1. CASE r = Idle
      BY <1>i, <3>1 DEF Doubt, InBatch
    <3>2. CASE \E w \in Workers : r = op[w]
      BY <1>5, <3>2 DEF Crash, Doubt, InBatch, Changing
    <3> QED
      BY <2>3, <3>1, <3>2 DEF Current
  <2>5. Tells(running, {})' /\ Tells(saved, {})'
    BY <1>5, <2>3, <2>4, EndTold DEF Crash, RouterTellsLedger
  <2>6. Told(Idle)'
    BY <1>i, <2>5 DEF Told, Doubt, InBatch, Changing
  <2> QED
    BY <2>2, <2>6 DEF RouterTellsLedger
<1>6. CASE UNCHANGED vars
  <2>1. \A r : Current(r)' <=> Current(r)
    BY <1>6 DEF vars, Current, Holding
  <2>2. ASSUME NEW r \in Request, Told(r) PROVE Told(r)'
    BY <1>6, <2>2 DEF vars, Told, Tells, SeenAt, ShownAt
  <2> QED
    BY <2>1, <2>2 DEF RouterTellsLedger
<1> QED
  BY <1>1, <1>2, <1>3, <1>4, <1>5, <1>6 DEF Next

(* At the start nothing is on record and nothing is Routevane's.           *)
LEMMA TruthStart == Init => RouterTellsLedger
<1> SUFFICES ASSUME Init PROVE RouterTellsLedger
  OBVIOUS
<1>1. \A p \in Prefixes : running[p].by # "routevane"
  BY DEF Init, Absent
<1>2. CreatedIn(ledger) = {} /\ ledger.routes = {} /\ saved = running
  BY DEF Init, EmptyLedger, CreatedIn
<1>3. Tells(running, {}) /\ Tells(saved, {})
  BY <1>1, <1>2 DEF Tells, NotOperators, Recorded
<1>4. Idle.phase = "idle" /\ \A r : Current(r) => r = Idle
  BY DEF Init, Current, Holding, Idle
<1>5. Told(Idle)
  BY <1>3, <1>4 DEF Told, Doubt, InBatch, Changing
<1> QED
  BY <1>4, <1>5 DEF RouterTellsLedger

(* What the router and the ledger say of each other is inductive.          *)
THEOREM TruthInvariance == Spec => []TruthInv
<1>1. Init => RouterTellsLedger
  BY TruthStart
<1>2. IInv /\ RouterTellsLedger /\ [Next]_vars => RouterTellsLedger'
  BY TruthStep DEF TruthInv
<1> QED
  BY <1>1, <1>2, Invariance, PTL DEF Spec, TruthInv

(* What is left when nobody holds the gate, and what is true at any time.  *)
LEMMA TruthAtRest ==
  ASSUME TruthInv
  PROVE  /\ \E r \in Request : Current(r) /\ Told(r)
         /\ gate = NoWorker => Tells(running, {})
<1>0. \A w \in Workers : op[w] \in Request
  BY DEF TruthInv, IInv, TypeOK
<1>1. \E r \in Request : Current(r) /\ Told(r)
  BY <1>0, IdleType DEF TruthInv, RouterTellsLedger, Current
<1>2. ASSUME gate = NoWorker PROVE Tells(running, {})
  <2>1. \A w \in Workers : ~ Holding(w)
    BY <1>2, NoWorkerAssumption DEF TruthInv, IInv, SnapshotIsCurrent
  <2>2. Told(Idle)
    BY <2>1, IdleType DEF TruthInv, RouterTellsLedger, Current
  <2> QED
    BY <2>2 DEF Told, Doubt, InBatch, Idle
<1> QED
  BY <1>1, <1>2

(* The ledger tells the truth: it never claims to have created what the    *)
(* operator made, and when no delivery is under way every route Routevane  *)
(* made is on record and every record is on the router, whatever the       *)
(* operator, a reboot or a crash did in between (reconcileManagedRoutes,   *)
(* restoreDetached, ReplaceManagedRoutes together).                        *)
THEOREM LedgerTruth == Spec => []LedgerIsTrue
<1>1. TruthInv => LedgerIsTrue
  <2> SUFFICES ASSUME TruthInv PROVE LedgerIsTrue
    OBVIOUS
  <2>0. running \in Config /\ ledger \in Ledger
    BY DEF TruthInv, IInv, TypeOK
  <2>1. AuthorityIsCreation
    <3>1. PICK r \in Request : Told(r)
      BY TruthAtRest
    <3>2. \A p \in Prefixes \ contested : NotOperators(ledger, running[p], p)
      BY <3>1 DEF Told, Tells
    <3> QED
      BY <3>2 DEF AuthorityIsCreation, NotOperators, MadeBy
  <2>2. NothingLeftUnrecorded
    BY TruthAtRest DEF NothingLeftUnrecorded, MadeBy, Tells, Recorded
  <2>3. RecordIsHonoured
    <3> SUFFICES ASSUME gate = NoWorker, NEW s \in ledger.routes, s.created,
                        s.prefix \notin contested \cup stranded
                 PROVE  running[s.prefix] = [text |-> s.text, by |-> "routevane"]
      BY DEF RecordIsHonoured
    <3>1. s.prefix \in Prefixes
      BY <2>0 DEF Ledger, Route
    <3>2. Recorded(ledger, running[s.prefix], s.prefix)
      BY <3>1, TruthAtRest DEF Tells
    <3> QED
      BY <3>2 DEF Recorded
  <2> QED
    BY <2>1, <2>2, <2>3 DEF LedgerIsTrue
<1> QED
  BY <1>1, TruthInvariance, PTL

(* No delivery, in any interleaving, takes away a route that another       *)
(* format still claims or that Routevane did not create: a removal is      *)
(* computed from the ledger as it still is.                                *)
THEOREM SharedRoutesStay == Spec => SharedAndForeignRoutesStay
<1>1. TruthInv /\ [Next]_vars =>
        [\A w \in Workers, p \in Prefixes :
           Command(w, p) /\ p \in Present(running) /\ p \notin Present(running)' =>
             /\ p \in CreatedIn(ledger)
             /\ \A c \in ledger.claims : c.prefix = p => c.output = op[w].output]_vars
  <2> SUFFICES ASSUME TruthInv, NEW w \in Workers, NEW p \in Prefixes,
                      Command(w, p), p \in Present(running), p \notin Present(running)'
               PROVE  /\ p \in CreatedIn(ledger)
                      /\ \A c \in ledger.claims : c.prefix = p => c.output = op[w].output
    OBVIOUS
  <2>0. running \in Config
    BY DEF TruthInv, IInv, TypeOK
  <2>1. p \in Removing(op[w])
    <3> SUFFICES ASSUME p \notin Removing(op[w]) PROVE FALSE
      OBVIOUS
    <3>1. \/ running' = Upserted(running, p, UpsertText(op[w], p))
          \/ running' = running
      BY DEF Command
    <3>2. running'[p].by # "nobody"
      BY <2>0, <3>1 DEF Upserted, Config, Present
    <3> QED
      BY <3>2 DEF Present
  <2>2. op[w].prior = ledger
    <3>1. Holding(w) /\ HasPrior(w)
      BY DEF Command, Holding, HasPrior, Changing
    <3> QED
      BY <3>1 DEF TruthInv, IInv, SnapshotIsCurrent
  <2> QED
    BY <2>1, <2>2 DEF Removing, Removals, NextClaims, Claimed
<1> QED
  BY <1>1, TruthInvariance, PTL DEF Spec, SharedAndForeignRoutesStay

(* A route the operator made is changed by nobody else outside a contest,  *)
(* except by the restore of a delivery that had submitted commands.        *)
THEOREM OperatorRoutesStay == Spec => OperatorRoutesSurvive
<1>1. TruthInv /\ [Next]_vars =>
        [\A p \in Prefixes \ contested :
           running[p].by = "operator" /\ running'[p] # running[p] =>
             \/ Outside
             \/ \E w \in Workers : UploadBackup(w) /\ Mutation(op[w]) # {}]_vars
  <2> SUFFICES ASSUME TruthInv, [Next]_vars, NEW p \in Prefixes \ contested,
                      running[p].by = "operator", running'[p] # running[p], ~ Outside
               PROVE  \E w \in Workers : UploadBackup(w) /\ Mutation(op[w]) # {}
    OBVIOUS
  <2>0. /\ running \in Config /\ \A w \in Workers : op[w] \in Request
        /\ \A w \in Workers : Holding(w) => Told(op[w])
    BY DEF TruthInv, IInv, TypeOK, RouterTellsLedger, Current
  <2>1. \E w \in Workers : UploadBackup(w) \/ \E q \in Prefixes : Command(w, q)
    <3>0. running' # running
      OBVIOUS
    <3>1. ASSUME NEW w \in Workers, ReceiveAny(w) \/ Falter(w) PROVE FALSE
      <4>1. ReceiveAny(w) => running' = running
        BY DEF ReceiveAny, Receive
      <4>2. GiveUp(w) \/ Refuse(w) \/ StepFails(w) => running' = running
        BY DEF GiveUp, Refuse, StepFails, Fail
      <4>3. RestoreFails(w) \/ RetireFails(w) => running' = running
        BY DEF RestoreFails, RetireFails
      <4> QED
        BY <3>0, <3>1, <4>1, <4>2, <4>3 DEF Falter
    <3>2. ASSUME NEW w \in Workers, Advance(w)
          PROVE  UploadBackup(w) \/ \E q \in Prefixes : Command(w, q)
      BY <3>0, <3>2 DEF Advance, Acquire, Probe, ReadLedger, TakeBackup, Reconcile,
                        SaveConfiguration, Verify, Persist, SaveRestored, RetireSurface,
                        ConfirmRestored
    <3>3. ~ Crash /\ ~ UNCHANGED vars
      BY <3>0 DEF Crash, vars
    <3> QED
      BY <3>1, <3>2, <3>3 DEF Next
  <2>2. ASSUME NEW w \in Workers, UploadBackup(w) PROVE Mutation(op[w]) # {}
    BY <2>0, <2>2 DEF UploadBackup, Holding, Told
  <2>3. ASSUME NEW w \in Workers, NEW q \in Prefixes, Command(w, q) PROVE FALSE
    <3>1. Holding(w) /\ HasPrior(w) /\ op[w].phase = "apply" /\ q \in op[w].todo
      BY <2>3 DEF Command, Holding, HasPrior, Changing
    <3>2. q = p
      BY <2>0, <2>3 DEF Command, Removed, Upserted, Config
    <3>3. op[w].prior = ledger
      BY <3>1 DEF TruthInv, IInv, SnapshotIsCurrent
    <3>4. p \in Mutation(op[w]) /\ SeenAt(op[w], p) /\ NotOperators(ledger, running[p], p)
      BY <2>0, <3>1, <3>2 DEF Told, Tells
    <3>5. p \in CreatedIn(ledger) \/ p \notin op[w].seen.at
      BY <2>0, <3>3, <3>4, MutationAt
    <3> QED
      BY <3>4, <3>5 DEF NotOperators, SeenAt
  <2> QED
    BY <2>1, <2>2, <2>3
<1> QED
  BY <1>1, TruthInvariance, PTL DEF Spec, OperatorRoutesSurvive

(* A delivery that answers success is right about the router as it stands  *)
(* at that moment.                                                         *)
THEOREM SuccessTruth == Spec => SuccessIsTrue
<1>1. TruthInv /\ [Next]_vars =>
        [\A w \in Workers :
           LET r == op[w]
           IN  Persist(w) =>
                 /\ DOMAIN r.wanted \subseteq Present(running) \cup contested
                 /\ MadeBy(running, "routevane")
                      \subseteq Claimed(ledger'.claims) \cup contested \cup stranded]_vars
  <2> SUFFICES ASSUME TruthInv, NEW w \in Workers, Persist(w)
               PROVE  /\ DOMAIN op[w].wanted \subseteq Present(running) \cup contested
                      /\ MadeBy(running, "routevane")
                           \subseteq Claimed(ledger'.claims) \cup contested \cup stranded
    OBVIOUS
  <2> PICK r \in Request : r = op[w]
    BY DEF TruthInv, IInv, TypeOK
  <2>0. Holding(w) /\ HasPrior(w) /\ r.phase = "persist" /\ ledger' = NextOwnership(r)
    BY DEF Persist, Holding, HasPrior, Changing
  <2>1. Told(r) /\ r.prior = ledger /\ running \in Config /\ saved \in Config
    BY <2>0 DEF TruthInv, IInv, TypeOK, RouterTellsLedger, Current, SnapshotIsCurrent
  <2>2. Named(NextOwnership(r)) = Claimed(NextClaims(r.prior, r.output, r.wanted))
    BY NextCreatedIn
  <2>3. ledger'.claims = NextClaims(r.prior, r.output, r.wanted)
    BY <2>0 DEF NextOwnership, NextLedger
  <2>4. DOMAIN r.wanted \subseteq Present(running) \cup contested
    <3> SUFFICES ASSUME NEW p \in DOMAIN r.wanted, p \notin contested PROVE p \in Present(running)
      OBVIOUS
    <3>1. p \in Prefixes
      BY DEF Request, Wanted
    <3>2. p \in Claimed(NextClaims(r.prior, r.output, r.wanted))
      <4> DEFINE c == [output |-> r.output, prefix |-> p, labels |-> r.wanted[p]]
      <4>1. c \in NextClaims(r.prior, r.output, r.wanted) /\ c.prefix = p
        BY DEF NextClaims
      <4> HIDE DEF c
      <4> QED
        BY <4>1 DEF Claimed
    <3>3. ShownAt(r, p)
      BY <2>0, <2>1, <3>1 DEF Told
    <3> QED
      BY <2>2, <3>1, <3>2, <3>3 DEF ShownAt, Present
  <2>5. ASSUME NEW p \in MadeBy(running, "routevane"), p \notin contested \cup stranded
        PROVE  p \in Claimed(ledger'.claims)
    <3>1. Tells(running, {})'
      BY <2>0, <2>1, PersistTold DEF Persist
    <3>2. p \in CreatedIn(ledger')
      BY <2>5, <3>1 DEF Persist, Tells, Recorded, MadeBy
    <3> QED
      BY <2>0, <2>2, <2>3, <3>2 DEF CreatedIn, Named
  <2> QED
    BY <2>4, <2>5
<1> QED
  BY <1>1, TruthInvariance, PTL DEF Spec, SuccessIsTrue

=============================================================================
