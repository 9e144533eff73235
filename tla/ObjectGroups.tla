---------------------------- MODULE ObjectGroups ----------------------------
(***************************************************************************)
(* Delivery of DNS object groups to one Keenetic router: the object-group  *)
(* branch of DeployToDevice and RemoveFromDevice, the reconciliation of    *)
(* FQDNDeployer, the ledger of the groups each output created, and the     *)
(* router that executes command lines one after the other.                 *)
(*                                                                         *)
(* One request runs at a time: that the delivery gate sees to it is shown  *)
(* in RouteDelivery and Deliveries.  The operator and the power supply act *)
(* between any two steps.  A group is a set of entries and a route; titles *)
(* (descriptions) are left out.  Names and entries are numbers, because    *)
(* the deployer sorts both.  No two lines of a delivery are alike: what is *)
(* left of one is the set of its lines, and the next is the first of them. *)
(***************************************************************************)
EXTENDS Naturals, FiniteSets

CONSTANTS Outputs,            \* formats delivered to this router
          Names,              \* group names, in order
          Entries,            \* domains and addresses, in order
          Files,              \* the files each output may have published
          MaxGroups,          \* the router's capacity for groups
          MaxEntriesPerGroup, \* the router's capacity for entries of a group
          MaxParseCommands,   \* command lines sent in one request
          MaxUpsets           \* bound: events from outside

ASSUME NumbersAssumption ==
  /\ Names \subseteq Nat /\ IsFiniteSet(Names) /\ Names # {}
  /\ Entries \subseteq Nat /\ IsFiniteSet(Entries) /\ Entries # {}
  /\ Outputs # {}
(* A file is read by the validator of its renderer, which bounds a group.  *)
ASSUME FilesAssumption ==
  \A o \in Outputs :
    /\ Files[o] \subseteq [Names -> SUBSET Entries]
    /\ \A file \in Files[o] : \A n \in Names : Cardinality(file[n]) <= MaxEntriesPerGroup
ASSUME BoundsAssumption ==
  MaxGroups \in Nat /\ MaxEntriesPerGroup \in Nat /\ MaxParseCommands \in Nat \ {0}
  /\ MaxUpsets \in Nat

VARIABLES running,   \* the router's running configuration
          saved,     \* its startup configuration
          ledger,    \* the names each output created
          op,        \* the request that holds the gate
          contested, \* history: names touched from outside while in our hands
          stranded,  \* history: names an interruption left behind
          upsets     \* bound on events from outside

router == <<running, saved>>
history == <<contested, stranded, upsets>>
vars == <<router, ledger, op, history>>

----------------------------------------------------------------------------
(* The router.  A route is here: automatic, on the wanted interface;       *)
(* elsewhere: on another one, or not automatic; odd: one the deployer does *)
(* not support (reject, a gateway, two that differ).                       *)

Makers == {"nobody", "operator", "routevane"}
Routes == {"none", "here", "elsewhere", "odd"}
Group == [by : Makers, entries : SUBSET Entries, route : Routes]
Absent == [by |-> "nobody", entries |-> {}, route |-> "none"]
Configuration == [Names -> Group]
Exists(config, n) == config[n].by # "nobody"
Present(config) == { n \in Names : Exists(config, n) }

(* One command line, as the router takes it.                               *)
Commands == [do : {"unroute", "drop", "create", "exclude", "include", "route", "save"},
             name : Names, entry : Entries]
Line(do, n) == [do |-> do, name |-> n, entry |-> CHOOSE e \in Entries : TRUE]
EntryLine(do, n, e) == [do |-> do, name |-> n, entry |-> e]

(* A command is refused where the router's rules forbid it; the lines      *)
(* after it are executed all the same.                                     *)
Accepts(config, c) ==
  CASE c.do = "drop"    -> config[c.name].route = "none"
    [] c.do = "create"  -> \/ Exists(config, c.name)
                           \/ Cardinality(Present(config)) < MaxGroups
    [] c.do = "include" -> /\ Exists(config, c.name)
                           /\ Cardinality(config[c.name].entries) < MaxEntriesPerGroup
    [] c.do = "route"   -> Exists(config, c.name)
    [] OTHER            -> TRUE

After(config, c) ==
  CASE c.do = "drop"    -> [config EXCEPT ![c.name] = Absent]
    [] c.do = "create"  -> IF Exists(config, c.name) THEN config
                             ELSE [config EXCEPT ![c.name].by = "routevane"]
    [] c.do = "include" -> [config EXCEPT ![c.name].entries = @ \cup {c.entry}]
    [] c.do = "exclude" -> [config EXCEPT ![c.name].entries = @ \ {c.entry}]
    [] c.do = "route"   -> [config EXCEPT ![c.name].route = "here"]
    [] c.do = "unroute" -> [config EXCEPT ![c.name].route = "none"]
    [] OTHER            -> config

----------------------------------------------------------------------------
(* What the deployer decides from what it reads.                           *)

Wanted(file) == { n \in Names : file[n] # {} }
Scope(r) == Wanted(r.file) \cup r.owned

(* Faulty variant: a group with the right name is taken for one's own.     *)
AnythingGoes(r, config) == FALSE

(* scopedGroups: a wanted name that exists is not ours unless the ledger   *)
(* says so; a policy that is not understood is not touched; the groups     *)
(* have to fit once the ones no longer wanted are gone.                    *)
Foreign(r, config) == \E n \in Wanted(r.file) \ r.owned : Exists(config, n)
Unsupported(r, config) == \E n \in Scope(r) : config[n].route = "odd"
GroupsAfter(r, config) ==
  Cardinality((Present(config) \ r.owned) \cup Wanted(r.file))

(* Faulty variant: groups that go are not there when new ones are made.    *)
Unconditionally(r, config) == FALSE
Overfull(r, config) == GroupsAfter(r, config) > MaxGroups
Refuses(r, config) ==
  Foreign(r, config) \/ Unsupported(r, config) \/ Overfull(r, config)

If(condition, lines) == IF condition THEN lines ELSE {}

(* reconcileGroups, for a name that is no longer wanted ...                *)
Removal(n, config) ==
  If(config[n].route # "none", { Line("unroute", n) })
    \cup If(Exists(config, n), { Line("drop", n) })

(* Faulty variant: a route stays on the group while it is refilled.        *)
RefillUnderRoute(n, entries, config) ==
  If(~ Exists(config, n), { Line("create", n) })
    \cup { EntryLine("exclude", n, e) : e \in config[n].entries \ entries }
    \cup { EntryLine("include", n, e) : e \in entries \ config[n].entries }
    \cup If(config[n].route # "here", { Line("route", n) })

(* ... and for one that is: a route is withdrawn while the entries change, *)
(* or where it is not the wanted one, and attached again.                  *)
Detached(n, entries, config) ==
  config[n].route # "none" /\ (config[n].entries # entries \/ config[n].route # "here")
Refill(n, entries, config) ==
  If(Detached(n, entries, config), { Line("unroute", n) })
    \cup If(~ Exists(config, n), { Line("create", n) })
    \cup { EntryLine("exclude", n, e) : e \in config[n].entries \ entries }
    \cup { EntryLine("include", n, e) : e \in entries \ config[n].entries }
    \cup If(Detached(n, entries, config) \/ config[n].route # "here", { Line("route", n) })

Reconciled(r, config) ==
  (UNION { Removal(n, config) : n \in r.owned \ Wanted(r.file) })
    \cup (UNION { Refill(n, r.file[n], config) : n \in Wanted(r.file) })

(* Faulty variant: new entries come before the old ones go.                *)
FillingFirst(do) ==
  CASE do = "unroute" -> 1 [] do = "drop" -> 2 [] do = "create" -> 3
    [] do = "include" -> 4 [] do = "exclude" -> 5 [] OTHER -> 6

(* The order of the lines: the names that go, then the wanted ones, each   *)
(* name with all of its lines; a route is withdrawn before the group it    *)
(* names goes or changes, old entries go before new ones come, and the     *)
(* route is attached last.  The configuration is saved after all of them.  *)
Stage(do) ==
  CASE do = "unroute" -> 1 [] do = "drop" -> 2 [] do = "create" -> 3
    [] do = "exclude" -> 4 [] do = "include" -> 5 [] OTHER -> 6
Part(file, c) == IF c.do = "save" THEN 3 ELSE IF c.name \in Wanted(file) THEN 2 ELSE 1
Comes(file, c, d) ==
  \/ Part(file, c) < Part(file, d)
  \/ /\ Part(file, c) = Part(file, d)
     /\ \/ c.name < d.name
        \/ c.name = d.name /\ Stage(c.do) < Stage(d.do)
        \/ c.name = d.name /\ Stage(c.do) = Stage(d.do) /\ c.entry < d.entry
NextLine(r) == CHOOSE c \in r.todo : \A d \in r.todo \ {c} : Comes(r.file, c, d)

(* compareGroups: nothing missing, nothing extra, within the scope.        *)
Holds(r, config) ==
  \A n \in Scope(r) :
    IF n \in Wanted(r.file)
      THEN Exists(config, n) /\ config[n].entries = r.file[n] /\ config[n].route = "here"
      ELSE config[n] = Absent

----------------------------------------------------------------------------
(* The request.  calm is history: nothing has come from outside since the  *)
(* router was read for the commands.                                       *)

Nothing == [n \in Names |-> {}]
Phases == {"idle", "prepare", "backup", "apply", "commands", "verify", "persist",
           "restore", "confirm", "retire"}
Request == [phase : Phases, output : Outputs, file : [Names -> SUBSET Entries],
            owned : SUBSET Names, backup : Configuration, todo : SUBSET Commands,
            room : 0..MaxParseCommands, sent : BOOLEAN, refused : BOOLEAN, calm : BOOLEAN]
Idle == [phase |-> "idle", output |-> CHOOSE o \in Outputs : TRUE, file |-> Nothing,
         owned |-> {}, backup |-> [n \in Names |-> Absent], todo |-> {},
         room |-> 0, sent |-> FALSE, refused |-> FALSE, calm |-> TRUE]

Goto(phase) == op' = [op EXCEPT !.phase = phase]
Finish == op' = Idle

(* Faulty variant: a failure leaves the router as it is.                   *)
FailAsIs == Finish

(* A failure after commands were submitted restores the backup; before the *)
(* first one there is nothing to restore.                                  *)
Fail == IF op.sent THEN Goto("restore") ELSE Finish

Init ==
  /\ running \in [Names -> {Absent, [by |-> "operator", entries |-> Entries, route |-> "here"]}]
  /\ Cardinality(Present(running)) <= MaxGroups
  /\ saved = running
  /\ ledger = [o \in Outputs |-> {}]
  /\ op = Idle
  /\ contested = {} /\ stranded = {} /\ upsets = 0

(* A send of a published file, or the removal of what an output sent: the  *)
(* same reconciliation with nothing wanted.                                *)
Receive(o, file) ==
  /\ op.phase = "idle"
  /\ op' = [Idle EXCEPT !.phase = "prepare", !.output = o, !.file = file]
  /\ UNCHANGED <<router, ledger, history>>

(* The probe, the ledger and the preview.                                  *)
Ready == [op EXCEPT !.phase = "backup", !.owned = ledger[op.output]]
Prepare ==
  /\ op.phase = "prepare" /\ op.file # Nothing
  /\ IF Refuses(Ready, running) THEN Finish ELSE op' = Ready
  /\ UNCHANGED <<router, ledger, history>>

(* A removal reads the ledger first, and is done when it names nothing.    *)
PrepareRemoval ==
  /\ op.phase = "prepare" /\ op.file = Nothing
  /\ IF ledger[op.output] = {} \/ Refuses(Ready, running) THEN Finish ELSE op' = Ready
  /\ UNCHANGED <<router, ledger, history>>

TakeBackup ==
  /\ op.phase = "backup"
  /\ op' = [op EXCEPT !.phase = "apply", !.backup = saved]
  /\ UNCHANGED <<router, ledger, history>>

(* The router is read again: a refusal now leaves it untouched, and when   *)
(* nothing has to change nothing is submitted.                             *)
Reconcile ==
  /\ op.phase = "apply"
  /\ LET commands == Reconciled(op, running)
     IN  IF Refuses(op, running)
           THEN Finish
           ELSE op' = IF commands = {}
                        THEN [op EXCEPT !.phase = "verify", !.calm = TRUE]
                        ELSE [op EXCEPT !.phase = "commands", !.sent = TRUE, !.calm = TRUE,
                                        !.room = MaxParseCommands,
                                        !.todo = commands \cup { Line("save", CHOOSE n \in Names : TRUE) }]
  /\ UNCHANGED <<router, ledger, history>>

(* The router takes the next line of the request.                          *)
Execute ==
  /\ op.phase = "commands" /\ op.todo # {} /\ op.room > 0
  /\ LET c == NextLine(op)
         accepted == Accepts(running, c)
     IN  /\ running' = IF accepted THEN After(running, c) ELSE running
         /\ saved' = IF c.do = "save" THEN running ELSE saved
         /\ op' = [op EXCEPT !.todo = @ \ {c}, !.room = @ - 1,
                             !.refused = @ \/ ~ accepted]
  /\ UNCHANGED <<ledger, history>>

(* The answers of one request: one refused line fails the delivery, and    *)
(* the requests after it are not sent.                                     *)
Answer ==
  /\ op.phase = "commands" /\ (op.todo = {} \/ op.room = 0)
  /\ IF op.refused THEN Goto("restore")
       ELSE IF op.todo = {} THEN Goto("verify")
       ELSE op' = [op EXCEPT !.room = MaxParseCommands]
  /\ UNCHANGED <<router, ledger, history>>

Verify ==
  /\ op.phase = "verify"
  /\ IF ~ Unsupported(op, running) /\ Holds(op, running) THEN Goto("persist") ELSE Fail
  /\ UNCHANGED <<router, ledger, history>>

(* ReplaceManagedFQDNOwnership: a name has one owner at an endpoint.       *)
Recorded(o, names) == [ledger EXCEPT ![o] = names]
Persist ==
  /\ op.phase = "persist"
  /\ IF \A o \in Outputs \ {op.output} : ledger[o] \cap Wanted(op.file) = {}
       THEN ledger' = Recorded(op.output, Wanted(op.file)) /\ Finish
       ELSE Fail /\ UNCHANGED ledger
  /\ UNCHANGED <<router, history>>

(* A read, the backup, a request or the store fails, or the time is up.    *)
StepFails ==
  /\ op.phase \in {"prepare", "backup", "apply", "commands", "verify", "persist"}
  /\ Fail
  /\ UNCHANGED <<router, ledger, history>>

UploadBackup ==
  /\ op.phase = "restore"
  /\ running' = op.backup /\ saved' = op.backup
  /\ Goto("confirm")
  /\ UNCHANGED <<ledger, history>>

ConfirmRestored ==
  /\ op.phase = "confirm"
  /\ saved' = running
  /\ Finish
  /\ UNCHANGED <<running, ledger, history>>

RestoreFails ==
  /\ op.phase \in {"restore", "confirm"}
  /\ Finish
  /\ stranded' = stranded \cup Scope(op)
  /\ UNCHANGED <<router, ledger, contested, upsets>>

(* RetireManagedFQDNOwnership, when a connection is edited or forgotten:   *)
(* the rows go and the router is not asked.                                *)
Retire ==
  /\ op.phase = "idle"
  /\ ledger' = [o \in Outputs |-> {}]
  /\ stranded' = stranded \cup UNION { ledger[o] : o \in Outputs }
  /\ UNCHANGED <<router, op, contested, upsets>>

----------------------------------------------------------------------------
(* The world outside.                                                      *)

InOurHands == Scope(op) \cup stranded \cup UNION { ledger[o] : o \in Outputs }
Disturb(names) ==
  /\ upsets < MaxUpsets /\ upsets' = upsets + 1
  /\ contested' = contested \cup (names \cap InOurHands)
  /\ op' = [op EXCEPT !.calm = FALSE]
  /\ UNCHANGED <<ledger, stranded>>

OperatorAdds(n) ==
  /\ ~ Exists(running, n) /\ Cardinality(Present(running)) < MaxGroups
  /\ running' = [running EXCEPT ![n] =
                   [by |-> "operator", entries |-> Entries, route |-> "here"]]
  /\ UNCHANGED saved
  /\ Disturb({n})

OperatorDeletes(n) ==
  /\ Exists(running, n)
  /\ running' = [running EXCEPT ![n] = Absent]
  /\ UNCHANGED saved
  /\ Disturb({n})

OperatorReroutes(n, route) ==
  /\ Exists(running, n) /\ running[n].route # route
  /\ running' = [running EXCEPT ![n].route = route]
  /\ UNCHANGED saved
  /\ Disturb({n})

OperatorSaves ==
  /\ saved # running /\ saved' = running /\ UNCHANGED running
  /\ Disturb({})

(* What was not saved is gone.                                             *)
Reboot ==
  /\ running # saved /\ running' = saved /\ UNCHANGED saved
  /\ Disturb({ n \in Names : running[n] # saved[n] })

Crash ==
  /\ op.phase # "idle" /\ upsets < MaxUpsets /\ upsets' = upsets + 1
  /\ Finish
  /\ stranded' = IF op.sent THEN stranded \cup Scope(op) ELSE stranded
  /\ UNCHANGED <<router, ledger, contested>>

Outside ==
  \/ \E n \in Names : OperatorAdds(n) \/ OperatorDeletes(n)
  \/ \E n \in Names : \E route \in Routes : OperatorReroutes(n, route)
  \/ OperatorSaves \/ Reboot

Deliver ==
  \/ Prepare \/ PrepareRemoval \/ TakeBackup \/ Reconcile \/ Execute \/ Answer \/ Verify \/ Persist
  \/ StepFails \/ UploadBackup \/ ConfirmRestored \/ RestoreFails
Ask == \E o \in Outputs : \E file \in Files[o] \cup {Nothing} : Receive(o, file)

Next == Ask \/ Deliver \/ Retire \/ Outside \/ Crash
Spec == Init /\ [][Next]_vars

----------------------------------------------------------------------------
(* Properties.                                                             *)

(* The order of the command lines is right for the router: as long as      *)
(* nobody else acts, no line is refused, although a group cannot go while  *)
(* a route points at it and neither groups nor entries fit beyond their    *)
(* bounds at any moment (reconcileGroups, scopedGroups).                   *)
LinesAreAccepted == op.refused => ~ op.calm

(* A resolved answer is never sent to a half-filled group: whenever a      *)
(* group of ours is routed, its entries are those of a whole file, in the  *)
(* middle of a batch, after a crash and after a failed restore.            *)
RoutedGroupsAreWhole ==
  \A n \in Names \ contested :
    running[n].by = "routevane" /\ running[n].route # "none" =>
      \E o \in Outputs : \E file \in Files[o] : running[n].entries = file[n]

(* Ledger and router agree whenever no request runs: what Routevane made   *)
(* is on record, so that it can be removed, and what is on record is       *)
(* there, unless an interruption or somebody else came between.            *)
RecordsAreTrue ==
  op.phase = "idle" =>
    \A n \in Names \ (contested \cup stranded) :
      running[n].by = "routevane" <=> \E o \in Outputs : n \in ledger[o]

(* A group that somebody else made is never changed by a command, whatever *)
(* its name and content (ADR 0040); a restore may undo what came after the *)
(* backup.                                                                 *)
ForeignGroupsStay ==
  [][\A n \in Names \ contested :
       running[n].by = "operator" /\ Execute => running'[n] = running[n]]_vars
=============================================================================
