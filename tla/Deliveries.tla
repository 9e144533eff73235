----------------------------- MODULE Deliveries -----------------------------
(***************************************************************************)
(* Registered devices, the passwords kept for them in the operating        *)
(* system's store, consent to unattended delivery, and the sends and       *)
(* removals that use them: DeviceService, DeploymentAttemptService,        *)
(* AutomaticDeliveryService and DeviceCleanupService behind the one        *)
(* delivery gate of the served process.                                    *)
(*                                                                         *)
(* A request holds the gate from its first read to its last write, and     *)
(* every store, secret store and device call on the way is a step of its   *)
(* own that may fail, or be the last one the process took.  Registration,  *)
(* archival and the builds of the timer do not take the gate.  What a send *)
(* does on a router is the subject of RouteDelivery; here it changes what  *)
(* the ownership ledgers name, and ends well or badly.                     *)
(***************************************************************************)
EXTENDS Naturals, FiniteSets

CONSTANTS Handlers,     \* HTTP requests that may be in flight
          Timer,        \* the scheduler, a worker of its own
          Devices,      \* identities of registered devices, never reused
          Outputs,      \* formats of the one profile
          Addresses,    \* connections: address, account and interface
          Ids,          \* attempt identities that clients generate
          MaxPending,   \* bound: publications of one round of the timer
          Nobody, NoDevice, NoOutput, Nowhere, NoId, NoAttempt

ASSUME TimerAssumption == Timer \notin Handlers
ASSUME NobodyAssumption == Nobody \notin Handlers \cup {Timer}
ASSUME AbsenceAssumption ==
  /\ NoDevice \notin Devices /\ NoOutput \notin Outputs
  /\ Nowhere \notin Addresses /\ NoId \notin Ids
ASSUME MaxPendingAssumption == MaxPending \in Nat

VARIABLES gate,     \* who holds the delivery gate
          job,      \* the request of every worker and the step it is at
          device,   \* the device rows
          secret,   \* the secret store: the connection a password was kept for
          agreed,   \* the connection consent was last given for
          profile,  \* kept, archived or deleted
          output,   \* the output rows
          pending,  \* scheduled publications waiting to be delivered
          owned,    \* what the ownership ledgers name: outputs at addresses
          wiped,    \* outputs retired together with a cleanup
          attempt,  \* the attempt journal
          runs,     \* how often each attempt reached its device
          answer    \* what the device-side work of each attempt came to

gating == <<gate, job>>
devices == <<device, secret, agreed>>
shelf == <<profile, output, wiped>>
journal == <<attempt, runs, answer>>
vars == <<gating, devices, shelf, pending, owned, journal>>

----------------------------------------------------------------------------
(* What is stored.                                                         *)

Workers == Handlers \cup {Timer}

(* Keenetic routers need a password and have ownership ledgers; the local  *)
(* file target has neither.                                                *)
Targets == {"router", "file"}
NeedsCredential(target) == target = "router"
Managed(target) == target = "router"

DeviceRow == [shelf : {"none", "saved", "forgotten"}, target : Targets,
              address : Addresses \cup {Nowhere}, stored : BOOLEAN, auto : BOOLEAN]
OutputRow == [live : BOOLEAN, target : Targets, device : Devices \cup {NoDevice}]
Outcomes == {"succeeded", "failed"}
AttemptRow == [output : Outputs, device : Devices \cup {NoDevice},
               address : Addresses, status : {"pending"} \cup Outcomes]
Publication == [output : Outputs, device : Devices]
ASSUME NoAttemptAssumption == NoAttempt \notin AttemptRow

Saved(d) == device[d].shelf = "saved"
Login(d) == NeedsCredential(device[d].target)

(* DeviceCredential: the recorded fact, then the secret store.             *)
Credential(d) == Login(d) => device[d].stored /\ secret[d] # Nowhere

----------------------------------------------------------------------------
(* Requests.                                                               *)

Operations == {"none", "update", "forget", "save", "clear", "enable",
               "disable", "send", "deliver", "clean_output", "clean_profile"}
Writes == {"revoke", "flag", "move", "consent", "withdraw"}
Steps == Writes \cup {"idle", "secret", "put", "undo", "retire", "delete",
                      "claim", "send", "wait", "complete", "clean", "leave", "done"}

Job == [op : Operations, step : Steps, device : Devices \cup {NoDevice}, row : DeviceRow,
        address : Addresses \cup {Nowhere}, output : Outputs \cup {NoOutput},
        id : Ids \cup {NoId},
        rest : SUBSET (Outputs \X Addresses), leaving : SUBSET Outputs]

BlankRow == [shelf |-> "none", target |-> "router", stored |-> FALSE, auto |-> FALSE,
             address |-> Nowhere]
Idle == [op |-> "none", step |-> "idle", device |-> NoDevice, row |-> BlankRow,
         address |-> BlankRow.address, output |-> NoOutput,
         id |-> NoId, rest |-> {}, leaving |-> {}]

(* The order of the writes of one request: a password and the consent go   *)
(* before the connection they name, a password comes before its flag.      *)
AfterSecret(op) ==
  CASE op \in {"update", "clear"} -> "revoke" [] op = "forget" -> "retire"
    [] op = "enable" -> "consent" [] OTHER -> "done"
AfterRetire(op) == CASE op = "update" -> "move" [] op = "forget" -> "delete" [] OTHER -> "done"
AfterFlag(op) == IF op = "enable" THEN "consent" ELSE "done"
AfterRow(j) ==
  CASE j.step = "revoke" /\ j.op = "update" -> "retire"
    [] j.step = "flag" -> AfterFlag(j.op)
    [] OTHER -> "done"

At(w, step) == job[w].step = step

(* Faulty variant: nobody waits for the gate.                              *)
GateIgnored == TRUE
GateFree == gate = Nobody

Enter(w, j) ==
  /\ job[w] = Idle /\ GateFree
  /\ gate' = w /\ job' = [job EXCEPT ![w] = j]

Leave(w) ==
  /\ gate' = Nobody /\ job' = [job EXCEPT ![w] = Idle]

(* The request goes on with its next step, or answers.                     *)
Proceed(w, j) ==
  IF j.step = "done" THEN Leave(w)
                     ELSE UNCHANGED gate /\ job' = [job EXCEPT ![w] = j]
Goto(w, step) == Proceed(w, [job[w] EXCEPT !.step = step])

(* A request of the gate's own length: one transaction.                    *)
Briefly == GateFree /\ UNCHANGED gating

----------------------------------------------------------------------------
Init ==
  /\ gate = Nobody /\ job = [w \in Workers |-> Idle]
  /\ device = [d \in Devices |-> BlankRow]
  /\ secret = [d \in Devices |-> Nowhere]
  /\ agreed = [d \in Devices |-> Nowhere]
  /\ profile = "kept"
  /\ output \in [Outputs -> [live : {TRUE}, target : Targets, device : {NoDevice}]]
  /\ pending = {} /\ owned = {} /\ wiped = {}
  /\ attempt = [i \in Ids |-> NoAttempt]
  /\ runs = [i \in Ids |-> 0] /\ answer = [i \in Ids |-> "none"]

----------------------------------------------------------------------------
(* The registry.                                                           *)

RegisterDevice(d, target, a) ==
  /\ device[d].shelf = "none"
  /\ device' = [device EXCEPT ![d] =
                  [BlankRow EXCEPT !.shelf = "saved", !.target = target, !.address = a]]
  /\ UNCHANGED <<gating, secret, agreed, shelf, pending, owned, journal>>

(* A request on one device reads its row and starts.                       *)
Asks(w, op, d, a, step) ==
  /\ Saved(d)
  /\ Enter(w, [Idle EXCEPT !.op = op, !.step = step, !.device = d,
                           !.row = device[d], !.address = a])
  /\ UNCHANGED <<devices, shelf, pending, owned, journal>>

(* Faulty variant: the password stays when the address moves.              *)
UpdateAddressOnly(w, d, a) == Asks(w, "update", d, a, "move")
UpdateDevice(w, d, a) ==
  Asks(w, "update", d, a, IF a = device[d].address THEN "move" ELSE "secret")
ForgetDevice(w, d) == Asks(w, "forget", d, device[d].address, "secret")
(* The login check comes first: a password the device refuses, and a check *)
(* whose caller left, end the request before anything is written.          *)
SaveCredential(w, d) == Login(d) /\ Asks(w, "save", d, device[d].address, "put")
RemoveCredential(w, d) == Asks(w, "clear", d, device[d].address, "secret")
EnableAutoDelivery(w, d) ==
  \/ Login(d) /\ Asks(w, "enable", d, device[d].address, "put")
  \/ Login(d) /\ device[d].stored /\ Asks(w, "enable", d, device[d].address, "consent")
  \/ ~ Login(d) /\ Asks(w, "enable", d, device[d].address, "secret")
DisableAutoDelivery(w, d) == Asks(w, "disable", d, device[d].address, "withdraw")

(* DeleteSecret: an absent password is a success.                          *)
DropSecret(w) ==
  /\ At(w, "secret") \/ At(w, "undo")
  /\ secret' = [secret EXCEPT ![job[w].device] = Nowhere]
  /\ Goto(w, IF job[w].step = "undo" THEN "done" ELSE AfterSecret(job[w].op))
  /\ UNCHANGED <<device, agreed, shelf, pending, owned, journal>>

(* PutSecret: a device that already had one keeps its flag.                *)
PutSecret(w) ==
  /\ At(w, "put")
  /\ secret' = [secret EXCEPT ![job[w].device] = job[w].row.address]
  /\ Goto(w, IF job[w].row.stored THEN AfterFlag(job[w].op) ELSE "flag")
  /\ UNCHANGED <<device, agreed, shelf, pending, owned, journal>>

(* Faulty variant: only a changed connection ends automatic delivery.      *)
DisablesOnMove(j) == j.op = "update"
(* Whether a removed password ends automatic delivery too.                 *)
Disables(j) == j.op = "update" \/ NeedsCredential(j.row.target)

(* The whole row as the request knows it, with what this write changes.    *)
Written(j) ==
  CASE j.step = "revoke" -> [j.row EXCEPT !.stored = FALSE, !.auto = @ /\ ~ Disables(j)]
    [] j.step = "flag" -> [j.row EXCEPT !.stored = TRUE]
    [] j.step = "move" -> [j.row EXCEPT !.address = j.address]
    [] j.step = "consent" -> [j.row EXCEPT !.auto = TRUE]
    [] j.step = "withdraw" -> [j.row EXCEPT !.auto = FALSE]

WriteRow(w) ==
  LET j == job[w] IN
  /\ j.step \in Writes /\ Saved(j.device)
  /\ device' = [device EXCEPT ![j.device] = Written(j)]
  /\ agreed' = IF j.step = "consent" THEN [agreed EXCEPT ![j.device] = j.row.address]
                                     ELSE agreed
  /\ Proceed(w, [j EXCEPT !.row = Written(j), !.step = AfterRow(j)])
  /\ UNCHANGED <<secret, shelf, pending, owned, journal>>

(* RetireManagedRoutes: the ledgers of the old surface stop naming things. *)
RetireManagedRoutes(w) ==
  LET j == job[w] IN
  /\ At(w, "retire")
  /\ owned' = IF Managed(j.row.target) THEN owned \ (Outputs \X {j.row.address}) ELSE owned
  /\ Goto(w, AfterRetire(j.op))
  /\ UNCHANGED <<devices, shelf, pending, journal>>

(* DeleteDevice; the schema clears the bindings to the row.                *)
DeleteDevice(w) ==
  LET d == job[w].device IN
  /\ At(w, "delete") /\ Saved(d)
  /\ device' = [device EXCEPT ![d] = [BlankRow EXCEPT !.shelf = "forgotten"]]
  /\ output' = [o \in Outputs |->
                  IF output[o].device = d THEN [output[o] EXCEPT !.device = NoDevice]
                                          ELSE output[o]]
  /\ Leave(w)
  /\ UNCHANGED <<secret, agreed, profile, wiped, pending, owned, journal>>

(* Any call may fail and end the request.  When the flag of a new password *)
(* cannot be stored, the password goes again, unless that fails as well.   *)
Fail(w) ==
  /\ job[w].step \in Writes \cup {"secret", "put", "undo", "retire", "delete", "clean", "leave"}
  /\ IF job[w].step = "flag" THEN Goto(w, "undo") ELSE Leave(w)
  /\ UNCHANGED <<devices, shelf, pending, owned, journal>>

----------------------------------------------------------------------------
(* The profile and its outputs.                                            *)

SetArchived ==
  /\ profile' = CASE profile = "kept" -> "archived" [] profile = "archived" -> "kept"
                   [] OTHER -> profile
  /\ UNCHANGED <<gating, devices, output, wiped, pending, owned, journal>>

Compatible(o, d) == d # NoDevice => Saved(d) /\ device[d].target = output[o].target
SetOutputDevice(o, d) ==
  /\ Briefly /\ profile = "kept" /\ output[o].live /\ Compatible(o, d)
  /\ output' = [output EXCEPT ![o].device = d]
  /\ UNCHANGED <<devices, profile, wiped, pending, owned, journal>>

Retired(leaving) ==
  [o \in Outputs |-> IF o \in leaving
                     THEN [output[o] EXCEPT !.live = FALSE, !.device = NoDevice]
                     ELSE output[o]]
Live == { o \in Outputs : output[o].live }

RemoveOutput(o) ==
  /\ Briefly /\ profile = "kept" /\ output[o].live
  /\ output' = Retired({o})
  /\ UNCHANGED <<devices, profile, wiped, pending, owned, journal>>

DeleteProfile ==
  /\ Briefly /\ profile = "archived"
  /\ output' = Retired(Live) /\ profile' = "deleted"
  /\ UNCHANGED <<devices, wiped, pending, owned, journal>>

----------------------------------------------------------------------------
(* Removing what was delivered, and retiring afterwards.                   *)

SurfacesOf(outputs) == { s \in owned : s[1] \in outputs }

(* match: some saved connection of the right kind reaches the surface and  *)
(* has its password.                                                       *)
Cleanable(s) ==
  \E d \in Devices : /\ Saved(d) /\ device[d].address = s[2]
                      /\ device[d].target = output[s[1]].target /\ Credential(d)

(* Every surface is matched, and every device asked, before one is changed.*)
Cleans(w, op, outputs) ==
  /\ \A s \in SurfacesOf(outputs) : Cleanable(s)
  /\ Enter(w, [Idle EXCEPT !.op = op, !.leaving = outputs, !.rest = SurfacesOf(outputs),
                           !.step = IF SurfacesOf(outputs) = {} THEN "leave" ELSE "clean"])
  /\ UNCHANGED <<devices, shelf, pending, owned, journal>>

RemoveOutputCleaning(w, o) ==
  profile = "kept" /\ output[o].live /\ Cleans(w, "clean_output", {o})
DeleteProfileCleaning(w) == profile = "archived" /\ Cleans(w, "clean_profile", Live)

(* Faulty variant: a surface that could not be emptied is passed over.     *)
CleanSurfaceAnyway(w) ==
  /\ At(w, "clean")
  /\ owned' \in SUBSET owned /\ owned \ job[w].rest \subseteq owned'
  /\ Goto(w, "leave")
  /\ UNCHANGED <<devices, shelf, pending, journal>>

(* One surface is emptied: recorded, changed, recorded.  The last record   *)
(* may fail although the device and its ledger agree; the act then stops.  *)
CleanSurface(w) ==
  /\ At(w, "clean")
  /\ \E s \in job[w].rest :
       LET rest == job[w].rest \ {s} IN
       /\ owned' = owned \ {s}
       /\ \/ Proceed(w, [job[w] EXCEPT !.rest = rest,
                                       !.step = IF rest = {} THEN "leave" ELSE "clean"])
          \/ Leave(w)
  /\ UNCHANGED <<devices, shelf, pending, journal>>

(* The retirement after the cleanup.  Archival does not wait for the gate: *)
(* the profile may have changed sides, and then only Fail is left.         *)
LeaveShelf(w) ==
  LET leaving == IF job[w].op = "clean_output" THEN job[w].leaving ELSE Live IN
  /\ At(w, "leave")
  /\ profile = IF job[w].op = "clean_output" THEN "kept" ELSE "archived"
  /\ output' = Retired(leaving)
  /\ wiped' = wiped \cup leaving
  /\ profile' = IF job[w].op = "clean_output" THEN profile ELSE "deleted"
  /\ Leave(w)
  /\ UNCHANGED <<devices, pending, owned, journal>>

----------------------------------------------------------------------------
(* Sends.                                                                  *)

(* The claim a request makes on an attempt identity.                       *)
Claimed(j) == [output |-> j.output, device |-> j.device, address |-> j.address,
               status |-> "pending"]

(* The target of a file is found through its output.                       *)
Resolves(o) == output[o].live

(* The operator confirms a send of an output's file, to a saved device as  *)
(* the screen showed it or to an address typed by hand, with a password of *)
(* the request or the saved one.                                           *)
DeployAttempt(w, i, o, d, a) ==
  /\ d # NoDevice => Resolves(o) /\ Compatible(o, d) /\ device[d].address = a
  /\ Enter(w, [Idle EXCEPT !.op = "send", !.step = "claim", !.id = i,
                           !.device = d, !.address = a, !.output = o])
  /\ UNCHANGED <<devices, shelf, pending, owned, journal>>

(* Faulty variant: a pending row is taken over.                            *)
InsertsOrResumes(i) == attempt[i] # NoAttempt => attempt[i].status = "pending"
(* BeginDeploymentAttempt: only the request that inserts the row goes on.  *)
(* One that finds a row answers with it, or refuses a row of another       *)
(* request; and the answer may be lost after the row was inserted.         *)
Inserts(i) == attempt[i] = NoAttempt

Claim(w) ==
  LET j == job[w] IN
  /\ At(w, "claim") /\ j.op = "send"
  /\ \/ /\ Inserts(j.id)
        /\ attempt' = [attempt EXCEPT ![j.id] = Claimed(j)]
        /\ Goto(w, "send") \/ Leave(w)
     \/ UNCHANGED attempt /\ Leave(w)
  /\ UNCHANGED <<devices, shelf, pending, owned, runs, answer>>

(* DeployUnattended: the record is no condition of the send.               *)
ClaimUnattended(w) ==
  LET j == job[w] IN
  /\ At(w, "claim") /\ j.op = "deliver"
  /\ \/ \E i \in Ids :
           /\ attempt[i] = NoAttempt
           /\ attempt' = [attempt EXCEPT ![i] = Claimed(j)]
           /\ \E id \in {i, NoId} : Proceed(w, [j EXCEPT !.step = "send", !.id = id])
     \/ UNCHANGED attempt /\ Goto(w, "send")
  /\ UNCHANGED <<devices, shelf, pending, owned, runs, answer>>

(* Deploy resolves the artifact through its output, and reaches the device *)
(* only for a live one.                                                    *)
Send(w) ==
  LET j == job[w] IN
  /\ At(w, "send")
  /\ IF Resolves(j.output)
     THEN /\ Goto(w, "wait")
          /\ runs' = IF j.id = NoId THEN runs ELSE [runs EXCEPT ![j.id] = @ + 1]
          /\ UNCHANGED answer
     ELSE /\ Goto(w, IF j.id = NoId THEN "done" ELSE "complete")
          /\ answer' = IF j.id = NoId THEN answer ELSE [answer EXCEPT ![j.id] = "failed"]
          /\ UNCHANGED runs
  /\ UNCHANGED <<devices, shelf, pending, owned, attempt>>

(* The device-side lifecycle ends; its ledger follows a success.           *)
Receive(w, outcome) ==
  LET j == job[w] IN
  /\ At(w, "wait")
  /\ owned' = IF outcome = "succeeded" /\ Managed(output[j.output].target)
              THEN owned \cup {<<j.output, j.address>>} ELSE owned
  /\ answer' = IF j.id = NoId THEN answer ELSE [answer EXCEPT ![j.id] = outcome]
  /\ Goto(w, IF j.id = NoId THEN "done" ELSE "complete")
  /\ UNCHANGED <<devices, shelf, pending, attempt, runs>>

(* CompleteDeploymentAttempt: one terminal outcome, of the same request,   *)
(* or none when the record cannot be written.                              *)
Complete(w) ==
  LET j == job[w] IN
  /\ At(w, "complete")
  /\ \/ /\ attempt[j.id] = Claimed(j)
        /\ attempt' = [attempt EXCEPT ![j.id].status = answer[j.id]]
     \/ UNCHANGED attempt
  /\ Leave(w)
  /\ UNCHANGED <<devices, shelf, pending, owned, runs, answer>>

----------------------------------------------------------------------------
(* The timer.                                                              *)

(* RunDueRefreshes: outputs of a profile on the shelf are built, and the   *)
(* file is queued for the device that the output named when it was read.   *)
ScheduledBuild(o) ==
  /\ job[Timer] = Idle /\ profile = "kept" /\ output[o].live
  /\ output[o].device # NoDevice /\ Cardinality(pending) < MaxPending
  /\ pending' = pending \cup {[output |-> o, device |-> output[o].device]}
  /\ UNCHANGED <<gating, devices, shelf, owned, journal>>

(* Faulty variant: the binding the build has read counts.                  *)
AuthorisedByBuild(p) ==
  output[p.output].live /\ Saved(p.device) /\ device[p.device].auto /\ Credential(p.device)
(* deliverOne reads every authorization again under the gate.              *)
Authorised(p) ==
  /\ output[p.output].live /\ output[p.output].device = p.device
  /\ Saved(p.device) /\ device[p.device].auto /\ Credential(p.device)
DeliverOne(p) ==
  /\ pending' = pending \ {p}
  /\ Authorised(p)
  /\ Enter(Timer, [Idle EXCEPT !.op = "deliver", !.step = "claim", !.output = p.output,
                               !.device = p.device, !.address = device[p.device].address])
  /\ UNCHANGED <<devices, shelf, owned, journal>>

(* Refused, or the budget of the attempt ended before the gate was free.   *)
SkipDelivery(p) ==
  /\ job[Timer] = Idle /\ pending' = pending \ {p}
  /\ UNCHANGED <<gating, devices, shelf, owned, journal>>

(* The process stops: requests and pending deliveries are gone.            *)
Crash ==
  /\ gate' = Nobody /\ job' = [w \in Workers |-> Idle] /\ pending' = {}
  /\ UNCHANGED <<devices, shelf, owned, journal>>

----------------------------------------------------------------------------
OnDevice(w) ==
  \E d \in Devices :
    \/ \E a \in Addresses : UpdateDevice(w, d, a)
    \/ ForgetDevice(w, d)
    \/ SaveCredential(w, d)
    \/ RemoveCredential(w, d)
    \/ EnableAutoDelivery(w, d)
    \/ DisableAutoDelivery(w, d)

OnOutputs(w) ==
  \/ \E o \in Outputs : RemoveOutputCleaning(w, o)
  \/ DeleteProfileCleaning(w)
  \/ \E i \in Ids, o \in Outputs, d \in Devices \cup {NoDevice}, a \in Addresses :
       DeployAttempt(w, i, o, d, a)

(* The next step of the request that holds the gate.                       *)
Step(w) ==
  \/ DropSecret(w) \/ PutSecret(w) \/ WriteRow(w)
  \/ RetireManagedRoutes(w) \/ DeleteDevice(w) \/ Fail(w)
  \/ CleanSurface(w) \/ LeaveShelf(w)
  \/ Claim(w) \/ ClaimUnattended(w) \/ Send(w) \/ Complete(w)
  \/ \E outcome \in Outcomes : Receive(w, outcome)

Ungated ==
  \/ \E d \in Devices, t \in Targets, a \in Addresses : RegisterDevice(d, t, a)
  \/ SetArchived

AtOnce ==
  \/ \E o \in Outputs, d \in Devices \cup {NoDevice} : SetOutputDevice(o, d)
  \/ \E o \in Outputs : RemoveOutput(o)
  \/ DeleteProfile

OnTimer ==
  \/ \E o \in Outputs : ScheduledBuild(o)
  \/ \E p \in pending : DeliverOne(p) \/ SkipDelivery(p)

Next ==
  \/ \E w \in Handlers : OnDevice(w) \/ OnOutputs(w)
  \/ \E w \in Workers : Step(w)
  \/ OnTimer
  \/ Ungated \/ AtOnce \/ Crash

Spec == Init /\ [][Next]_vars

----------------------------------------------------------------------------
(* Every variable keeps its type.                                          *)
TypeOK ==
  /\ gate \in Workers \cup {Nobody} /\ job \in [Workers -> Job]
  /\ device \in [Devices -> DeviceRow]
  /\ secret \in [Devices -> Addresses \cup {Nowhere}]
  /\ agreed \in [Devices -> Addresses \cup {Nowhere}]
  /\ profile \in {"kept", "archived", "deleted"}
  /\ output \in [Outputs -> OutputRow] /\ wiped \subseteq Outputs
  /\ pending \subseteq Publication /\ owned \subseteq Outputs \X Addresses
  /\ attempt \in [Ids -> AttemptRow \cup {NoAttempt}]
  /\ runs \in [Ids -> Nat] /\ answer \in [Ids -> {"none"} \cup Outcomes]

(* A request on a device writes back the whole row that it read when it    *)
(* started, one fact changed: until its last step that row is the stored   *)
(* one, so that no write takes back what another request, or an earlier    *)
(* write of its own, has recorded (UpdateDevice, clearCredential,          *)
(* SaveCredential and EnableAutoDelivery under DeliveryGate).              *)
RequestsKnowTheirRow ==
  \A w \in Workers :
    job[w].step \in Writes \cup {"secret", "put", "undo", "retire", "delete"} =>
      Saved(job[w].device) /\ job[w].row = device[job[w].device]

(* A password in the operating system's store always belongs to a device   *)
(* an operator can see, and was kept for the connection that this device   *)
(* has now: the order of the writes of UpdateDevice, ForgetDevice and      *)
(* SaveCredential, whichever of them fails and wherever the process stops. *)
SecretsNameTheirDevice ==
  \A d \in Devices : secret[d] # Nowhere =>
    Saved(d) /\ Login(d) /\ secret[d] = device[d].address

(* Consent to unattended delivery is for the connection the device has     *)
(* now, and no device that needs a password has it without one on record   *)
(* (revokeCredentialAndConsent, RemoveCredential).                         *)
ConsentNamesItsConnection ==
  \A d \in Devices : device[d].auto =>
    /\ Saved(d) /\ agreed[d] = device[d].address
    /\ Login(d) => device[d].stored

(* While an unattended send is at work on a device, its output is still    *)
(* bound to that device, consent stands for the address it is sent to, and *)
(* the password is the one kept for that address (deliverOne).             *)
OnlyAuthorisedSends ==
  LET j == job[Timer] IN
  j.step = "wait" =>
    /\ output[j.output].live /\ output[j.output].device = j.device
    /\ device[j.device].auto /\ agreed[j.device] = j.address
    /\ Login(j.device) => secret[j.device] = j.address

(* One attempt identity reaches a device at most once, and a finished row  *)
(* of the journal tells how that went (Deploy, CompleteDeploymentAttempt). *)
AttemptsAreSingleRuns ==
  \A i \in Ids :
    /\ runs[i] <= 1
    /\ attempt[i] # NoAttempt /\ attempt[i].status # "pending" =>
         attempt[i].status = answer[i]

(* What was retired with a cleanup has nothing on record at any device and *)
(* gets nothing there again (the gate is held from the removals to the     *)
(* retirement, serveBackend.RemoveOutputCleaningDevices).                  *)
WipedStaysWiped == \A o \in wiped : SurfacesOf({o}) = {}

=============================================================================
