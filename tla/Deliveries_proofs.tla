-------------------------- MODULE Deliveries_proofs --------------------------
(***************************************************************************)
(* Theorems about Deliveries, for any number of requests in flight, of     *)
(* devices, outputs, connections and attempt identities.                   *)
(*                                                                         *)
(* The argument is the gate: whoever is at work holds it, so everybody     *)
(* else is idle and what a request has read is still so.  WorkOK says, for *)
(* each request and the step it is at, what its earlier steps have left    *)
(* behind.                                                                 *)
(***************************************************************************)
EXTENDS Deliveries, TLAPS

----------------------------------------------------------------------------
(* The inductive invariant.                                                *)

(* Whoever is at work holds the gate.                                      *)
OneHolder == \A w \in Workers : job[w] # Idle => gate = w

SavedIsReached == \A d \in Devices : Saved(d) => device[d].address \in Addresses

(* A device that is to move has no password for the address it leaves, and *)
(* then no consent.                                                        *)
UpdateOK(j) ==
  /\ j.step \in {"secret", "revoke", "retire", "move"}
  /\ j.step # "secret" => secret[j.device] = Nowhere \/ j.address = j.row.address
  /\ j.step \in {"retire", "move"} => ~ j.row.auto \/ j.address = j.row.address
ForgetOK(j) ==
  /\ j.step \in {"secret", "retire", "delete"}
  /\ j.step # "secret" => secret[j.device] = Nowhere
SaveOK(j) ==
  /\ j.step \in {"put", "flag", "undo"}
  /\ NeedsCredential(j.row.target)
EnableOK(j) ==
  /\ j.step \in {"secret", "put", "flag", "undo", "consent"}
  /\ j.step = "secret" => ~ NeedsCredential(j.row.target)
  /\ j.step = "put" => NeedsCredential(j.row.target)
  /\ j.step = "consent" => (NeedsCredential(j.row.target) => j.row.stored)

(* A request on a device works on the row as it is stored.                 *)
OnDeviceOK(j) ==
  /\ j.device \in Devices /\ j.address \in Addresses
  /\ Saved(j.device) /\ j.row = device[j.device]
  /\ \/ j.op = "update" /\ UpdateOK(j)
     \/ j.op = "forget" /\ ForgetOK(j)
     \/ j.op = "save" /\ SaveOK(j)
     \/ j.op = "enable" /\ EnableOK(j)
     \/ j.op = "clear" /\ j.step \in {"secret", "revoke"}
     \/ j.op = "disable" /\ j.step = "withdraw"

(* A cleanup knows every surface its outputs still have.                   *)
CleaningOK(j) ==
  /\ j.op \in {"clean_output", "clean_profile"} /\ j.step \in {"clean", "leave"}
  /\ j.leaving \in SUBSET Outputs
  /\ j.op = "clean_profile" => j.leaving = Live
  /\ j.rest = SurfacesOf(j.leaving)
  /\ j.step = "leave" => j.rest = {}

(* A send has its row to itself until it is complete.                      *)
SendingOK(j) ==
  /\ j.op \in {"send", "deliver"} /\ j.step \in {"claim", "send", "wait", "complete"}
  /\ j.output \in Outputs /\ j.address \in Addresses
  /\ j.op = "send" => j.id \in Ids
  /\ j.op = "deliver" /\ j.step = "claim" => j.id = NoId
  /\ j.step = "complete" => j.id # NoId /\ answer[j.id] \in Outcomes
  /\ j.step = "wait" => output[j.output].live
  /\ j.id # NoId /\ j.step # "claim" =>
       attempt[j.id] # NoAttempt /\ attempt[j.id].status = "pending"
  /\ j.id # NoId /\ j.step = "send" => runs[j.id] = 0

WorkOK(w) ==
  job[w] = Idle \/ OnDeviceOK(job[w]) \/ CleaningOK(job[w]) \/ SendingOK(job[w])
WorkIsOK == \A w \in Workers : WorkOK(w)

(* What the timer has checked stays so until its delivery is over.         *)
Unattended(j) ==
  /\ j.op = "deliver" /\ j.device \in Devices /\ j.output \in Outputs
  /\ output[j.output].live /\ output[j.output].device = j.device
  /\ Saved(j.device) /\ device[j.device].auto /\ device[j.device].address = j.address
  /\ Login(j.device) => secret[j.device] # Nowhere
TimerIsOK == job[Timer] = Idle \/ Unattended(job[Timer])

(* No attempt ran before its row was there.                                *)
AttemptsPrecedeRuns == \A i \in Ids : attempt[i] = NoAttempt => runs[i] = 0
WipedIsGone == \A o \in wiped : ~ output[o].live

GatePart == gate \in Workers \cup {Nobody} /\ job \in [Workers -> Job] /\ OneHolder
DevicePart ==
  /\ device \in [Devices -> DeviceRow]
  /\ secret \in [Devices -> Addresses \cup {Nowhere}]
  /\ agreed \in [Devices -> Addresses \cup {Nowhere}]
  /\ SavedIsReached /\ SecretsNameTheirDevice /\ ConsentNamesItsConnection
ShelfPart ==
  /\ profile \in {"kept", "archived", "deleted"}
  /\ output \in [Outputs -> OutputRow] /\ wiped \subseteq Outputs
  /\ owned \subseteq Outputs \X Addresses
  /\ WipedIsGone /\ WipedStaysWiped
JournalPart ==
  /\ attempt \in [Ids -> AttemptRow \cup {NoAttempt}]
  /\ runs \in [Ids -> Nat] /\ answer \in [Ids -> {"none"} \cup Outcomes]
  /\ AttemptsPrecedeRuns /\ AttemptsAreSingleRuns
QueuePart == pending \subseteq Publication

Inv ==
  /\ GatePart /\ DevicePart /\ ShelfPart /\ JournalPart /\ QueuePart
  /\ WorkIsOK /\ TimerIsOK

LEMMA DevicePartKept == ASSUME DevicePart, UNCHANGED devices PROVE DevicePart'
BY DEF DevicePart, devices, SavedIsReached, SecretsNameTheirDevice, ConsentNamesItsConnection,
       Saved, Login

LEMMA ShelfPartKept == ASSUME ShelfPart, UNCHANGED <<shelf, owned>> PROVE ShelfPart'
BY DEF ShelfPart, shelf, WipedIsGone, WipedStaysWiped, SurfacesOf

LEMMA JournalPartKept == ASSUME JournalPart, UNCHANGED journal PROVE JournalPart'
BY DEF JournalPart, journal, AttemptsPrecedeRuns, AttemptsAreSingleRuns

LEMMA QueuePartKept == ASSUME QueuePart, UNCHANGED pending PROVE QueuePart'
BY DEF QueuePart

LEMMA IdleIsJob == Idle \in Job /\ Idle.step = "idle"
BY DEF Idle, BlankRow, Job, DeviceRow, Targets, Operations, Steps

(* Every request that is at work is one of three kinds, told by its step.  *)
LEMMA KindOfWork ==
  ASSUME Inv, NEW w \in Workers
  PROVE  /\ job[w] \in Job
         /\ job[w].step \in {"secret", "put", "undo", "retire", "delete"} \cup Writes =>
              OnDeviceOK(job[w]) /\ w # Timer
         /\ job[w].step \in {"clean", "leave"} => CleaningOK(job[w]) /\ w # Timer
         /\ job[w].step \in {"claim", "send", "wait", "complete"} =>
              SendingOK(job[w]) /\ (w = Timer => Unattended(job[w]))
<1>1. job[w] \in Job /\ WorkOK(w) /\ (w = Timer => job[w] = Idle \/ Unattended(job[w]))
  BY DEF Inv, GatePart, WorkIsOK, TimerIsOK
<1>2. ASSUME OnDeviceOK(job[w])
      PROVE  /\ job[w].step \notin {"clean", "leave", "claim", "send", "wait", "complete"}
             /\ job[w].op # "deliver"
  BY <1>2 DEF OnDeviceOK, UpdateOK, ForgetOK, SaveOK, EnableOK
<1>3. ASSUME CleaningOK(job[w])
      PROVE  job[w].step \in {"clean", "leave"} /\ job[w].op # "deliver"
  BY <1>3 DEF CleaningOK
<1>4. ASSUME SendingOK(job[w])
      PROVE  job[w].step \in {"claim", "send", "wait", "complete"}
  BY <1>4 DEF SendingOK
<1>5. Unattended(job[w]) => job[w].op = "deliver"
  BY DEF Unattended
<1>6. Idle.step = "idle"
  BY IdleIsJob
<1> QED
  BY <1>1, <1>2, <1>3, <1>4, <1>5, <1>6 DEF WorkOK, Writes

(* Only the work of the one who moved is to be looked at.                  *)
LEMMA WorkOfOne ==
  ASSUME NEW w \in Workers, \A u \in Workers : u # w => job'[u] = Idle,
         job'[w] = Idle \/ OnDeviceOK(job[w])' \/ CleaningOK(job[w])' \/ SendingOK(job[w])',
         w = Timer => job'[w] = Idle \/ Unattended(job[w])'
  PROVE  (WorkIsOK /\ TimerIsOK)'
BY TimerAssumption DEF WorkIsOK, TimerIsOK, WorkOK, Workers

----------------------------------------------------------------------------
(* The gate.                                                               *)

(* Whoever is at a step holds the gate, and everybody else is idle.        *)
LEMMA AloneAtWork ==
  ASSUME OneHolder, NEW w \in Workers, job[w].step # "idle"
  PROVE  gate = w /\ job[w] # Idle /\ \A u \in Workers : u # w => job[u] = Idle
BY DEF OneHolder, Idle

(* When the gate is free, nobody is at work.                               *)
LEMMA NobodyAtWork ==
  ASSUME OneHolder, GateFree
  PROVE  \A u \in Workers : job[u] = Idle
BY NobodyAssumption DEF OneHolder, GateFree, Workers

(* Starting a request, going on with it and answering it keep one holder.  *)
LEMMA EnterKeepsHolder ==
  ASSUME GatePart, NEW w \in Workers, NEW j \in Job, Enter(w, j)
  PROVE  /\ GatePart' /\ job'[w] = j
         /\ \A u \in Workers : job[u] = Idle /\ (u # w => job'[u] = Idle)
<1>1. \A u \in Workers : job[u] = Idle
  BY NobodyAtWork DEF Enter, GatePart
<1> QED
  BY <1>1 DEF Enter, GatePart, OneHolder

LEMMA ProceedKeepsHolder ==
  ASSUME GatePart, NEW w \in Workers, job[w].step # "idle", NEW j \in Job, Proceed(w, j)
  PROVE  /\ GatePart' /\ job'[w] = IF j.step = "done" THEN Idle ELSE j
         /\ \A u \in Workers : u # w => job'[u] = Idle
<1>1. gate = w /\ \A u \in Workers : u # w => job[u] = Idle
  BY AloneAtWork DEF GatePart
<1> QED
  BY <1>1, IdleIsJob DEF Proceed, Leave, GatePart, OneHolder

LEMMA GotoKeepsHolder ==
  ASSUME GatePart, NEW w \in Workers, job[w].step # "idle", NEW step \in Steps, Goto(w, step)
  PROVE  /\ GatePart'
         /\ job'[w] = IF step = "done" THEN Idle ELSE [job[w] EXCEPT !.step = step]
         /\ \A u \in Workers : u # w => job'[u] = Idle
<1>1. job[w] \in Job
  BY DEF GatePart
<1>2. [job[w] EXCEPT !.step = step] \in Job /\ [job[w] EXCEPT !.step = step].step = step
  BY <1>1 DEF Job
<1> QED
  BY <1>2, ProceedKeepsHolder DEF Goto

LEMMA LeaveKeepsHolder ==
  ASSUME GatePart, NEW w \in Workers, job[w].step # "idle", Leave(w)
  PROVE  GatePart' /\ \A u \in Workers : job'[u] = Idle
<1>1. gate = w /\ \A u \in Workers : u # w => job[u] = Idle
  BY AloneAtWork DEF GatePart
<1> QED
  BY <1>1, IdleIsJob DEF Leave, GatePart, OneHolder

----------------------------------------------------------------------------
(* A request on one device.                                                *)

Request(op, d, a, step) ==
  [Idle EXCEPT !.op = op, !.step = step, !.device = d, !.row = device[d], !.address = a]

LEMMA RequestFields ==
  ASSUME DevicePart, NEW op \in Operations, NEW d \in Devices, NEW a \in Addresses,
         NEW step \in Steps
  PROVE  LET j == Request(op, d, a, step) IN
         /\ j \in Job /\ j.op = op /\ j.step = step /\ j.device = d
         /\ j.row = device[d] /\ j.address = a
<1>1. device[d] \in DeviceRow
  BY DEF DevicePart
<1> QED
  BY <1>1, IdleIsJob DEF Request, Idle, Job

(* A request that starts well is at work on the row it has read.           *)
LEMMA AskStarts ==
  ASSUME Inv, NEW w \in Handlers, NEW op \in Operations, NEW d \in Devices,
         NEW a \in Addresses, NEW step \in Steps, Asks(w, op, d, a, step),
         OnDeviceOK(Request(op, d, a, step))
  PROVE  Inv'
<1>0. w \in Workers /\ w # Timer
  BY TimerAssumption DEF Workers
<1>1. PICK j \in Job : j = Request(op, d, a, step)
  BY RequestFields DEF Inv
<1>2. Enter(w, j) /\ UNCHANGED <<devices, shelf, pending, owned, journal>>
  BY <1>1 DEF Asks, Request
<1>3. GatePart' /\ job'[w] = j /\ \A u \in Workers : u # w => job'[u] = Idle
  BY <1>0, <1>2, EnterKeepsHolder DEF Inv
<1>4. OnDeviceOK(j) => OnDeviceOK(j)'
  BY <1>2 DEF OnDeviceOK, UpdateOK, ForgetOK, SaveOK, EnableOK, devices, Saved
<1>5. OnDeviceOK(job[w])'
  BY <1>1, <1>3, <1>4 DEF OnDeviceOK, UpdateOK, ForgetOK, SaveOK, EnableOK, Saved
<1>6. (WorkIsOK /\ TimerIsOK)'
  BY <1>0, <1>3, <1>5, WorkOfOne
<1> QED
  BY <1>2, <1>3, <1>6, DevicePartKept, ShelfPartKept, JournalPartKept, QueuePartKept DEF Inv

LEMMA OnDeviceStep ==
  ASSUME Inv, NEW w \in Handlers, OnDevice(w)
  PROVE  Inv'
<1>1. PICK d \in Devices :
        \/ \E a \in Addresses : UpdateDevice(w, d, a)
        \/ ForgetDevice(w, d) \/ SaveCredential(w, d) \/ RemoveCredential(w, d)
        \/ EnableAutoDelivery(w, d) \/ DisableAutoDelivery(w, d)
  BY DEF OnDevice
<1>2. ASSUME NEW op \in Operations, NEW a \in Addresses, NEW step \in Steps, Saved(d)
      PROVE  LET j == Request(op, d, a, step) IN
             OnDeviceOK(j) <=>
               \/ op = "update" /\ UpdateOK(j)
               \/ op = "forget" /\ ForgetOK(j)
               \/ op = "save" /\ SaveOK(j)
               \/ op = "enable" /\ EnableOK(j)
               \/ op = "clear" /\ step \in {"secret", "revoke"}
               \/ op = "disable" /\ step = "withdraw"
  BY <1>2, RequestFields DEF OnDeviceOK, Inv
<1>3. ASSUME Saved(d) PROVE device[d].address \in Addresses
  BY <1>3 DEF Inv, DevicePart, SavedIsReached
<1>4. {"secret", "put", "consent", "move", "withdraw"} \subseteq Steps
  BY DEF Steps, Writes
<1>5. ASSUME NEW a \in Addresses, UpdateDevice(w, d, a) PROVE Inv'
  <2> DEFINE step == IF a = device[d].address THEN "move" ELSE "secret"
  <2>1. step \in Steps /\ "update" \in Operations /\ Asks(w, "update", d, a, step)
    BY <1>4, <1>5 DEF UpdateDevice, Operations
  <2>2. UpdateOK(Request("update", d, a, step))
    BY <2>1, RequestFields DEF UpdateOK, Inv
  <2> HIDE DEF step
  <2>3. Saved(d)
    BY <2>1 DEF Asks
  <2> QED
    BY <2>1, <2>2, <2>3, <1>2, AskStarts
<1>6. CASE ForgetDevice(w, d)
  <2>1. Asks(w, "forget", d, device[d].address, "secret") /\ Saved(d)
    BY <1>6 DEF ForgetDevice, Asks
  <2>2. "forget" \in Operations
    BY DEF Operations
  <2>3. ForgetOK(Request("forget", d, device[d].address, "secret"))
    BY <1>3, <1>4, <2>1, <2>2, RequestFields DEF ForgetOK, Inv
  <2> QED
    BY <1>2, <1>3, <1>4, <2>1, <2>2, <2>3, AskStarts
<1>7. CASE SaveCredential(w, d)
  <2>1. Asks(w, "save", d, device[d].address, "put") /\ Saved(d) /\ Login(d)
    BY <1>7 DEF SaveCredential, Asks
  <2>2. "save" \in Operations
    BY DEF Operations
  <2>3. SaveOK(Request("save", d, device[d].address, "put"))
    BY <1>3, <1>4, <2>1, <2>2, RequestFields DEF SaveOK, Login, Inv
  <2> QED
    BY <1>2, <1>3, <1>4, <2>1, <2>2, <2>3, AskStarts
<1>8. CASE RemoveCredential(w, d)
  <2>1. Asks(w, "clear", d, device[d].address, "secret") /\ Saved(d)
    BY <1>8 DEF RemoveCredential, Asks
  <2>2. "clear" \in Operations
    BY DEF Operations
  <2> QED
    BY <1>2, <1>3, <1>4, <2>1, <2>2, AskStarts
<1>9. CASE EnableAutoDelivery(w, d)
  <2>1. PICK step \in {"put", "consent", "secret"} :
          /\ Asks(w, "enable", d, device[d].address, step) /\ Saved(d)
          /\ step = "put" => Login(d)
          /\ step = "consent" => (Login(d) => device[d].stored)
          /\ step = "secret" => ~ Login(d)
    BY <1>9 DEF EnableAutoDelivery, Asks
  <2>2. "enable" \in Operations /\ step \in Steps
    BY <1>4 DEF Operations
  <2>3. EnableOK(Request("enable", d, device[d].address, step))
    BY <1>3, <2>1, <2>2, RequestFields DEF EnableOK, Login, Inv
  <2> QED
    BY <1>2, <1>3, <2>1, <2>2, <2>3, AskStarts
<1>10. CASE DisableAutoDelivery(w, d)
  <2>1. Asks(w, "disable", d, device[d].address, "withdraw") /\ Saved(d)
    BY <1>10 DEF DisableAutoDelivery, Asks
  <2>2. "disable" \in Operations
    BY DEF Operations
  <2> QED
    BY <1>2, <1>3, <1>4, <2>1, <2>2, AskStarts
<1> QED
  BY <1>1, <1>5, <1>6, <1>7, <1>8, <1>9, <1>10

(* The step after a write to the secret store.                             *)
LEMMA DropSecretStep ==
  ASSUME Inv, NEW w \in Workers, DropSecret(w)
  PROVE  Inv'
<1> DEFINE next == IF job[w].step = "undo" THEN "done" ELSE AfterSecret(job[w].op)
<1>1. job[w] \in Job /\ OnDeviceOK(job[w]) /\ w # Timer /\ job[w].step \in {"secret", "undo"}
  BY KindOfWork DEF DropSecret, At
<1>2. next \in Steps
  BY DEF AfterSecret, Steps, Writes
<1>3. Goto(w, next) /\ UNCHANGED <<device, agreed, shelf, pending, owned, journal>>
      /\ secret' = [secret EXCEPT ![job[w].device] = Nowhere]
  BY DEF DropSecret
<1>4. /\ GatePart' /\ \A u \in Workers : u # w => job'[u] = Idle
      /\ job'[w] = IF next = "done" THEN Idle ELSE [job[w] EXCEPT !.step = next]
  BY <1>1, <1>2, <1>3, GotoKeepsHolder DEF Inv
<1>5. job[w].device \in Devices
  BY <1>1 DEF OnDeviceOK
<1>6. DevicePart'
  <2>1. DevicePart
    BY DEF Inv
  <2> QED
    BY <1>3, <1>5, <2>1
    DEF DevicePart, SavedIsReached, SecretsNameTheirDevice, ConsentNamesItsConnection, Saved, Login
<1>7. job'[w] = Idle \/ OnDeviceOK(job[w])'
  <2> SUFFICES ASSUME next # "done", job[w].step = "secret",
                      job[w].op \in {"update", "forget", "enable", "clear"}
               PROVE  OnDeviceOK(job[w])'
    BY <1>1, <1>4 DEF OnDeviceOK, SaveOK, AfterSecret
  <2>1. /\ job'[w].op = job[w].op /\ job'[w].device = job[w].device /\ job'[w].row = job[w].row
        /\ job'[w].address = job[w].address /\ job'[w].step = AfterSecret(job[w].op)
    BY <1>1, <1>4 DEF Job
  <2>2. secret'[job[w].device] = Nowhere
    BY <1>3, <1>5 DEF Inv, DevicePart
  <2> QED
    BY <1>1, <1>3, <2>1, <2>2 DEF OnDeviceOK, UpdateOK, ForgetOK, EnableOK, AfterSecret, Saved
<1>8. (WorkIsOK /\ TimerIsOK)'
  BY <1>1, <1>4, <1>7, WorkOfOne
<1> QED
  BY <1>3, <1>4, <1>6, <1>8, ShelfPartKept, JournalPartKept, QueuePartKept DEF Inv

LEMMA PutSecretStep ==
  ASSUME Inv, NEW w \in Workers, PutSecret(w)
  PROVE  Inv'
<1> DEFINE next == IF job[w].row.stored THEN AfterFlag(job[w].op) ELSE "flag"
<1>1. job[w] \in Job /\ OnDeviceOK(job[w]) /\ w # Timer /\ job[w].step = "put"
  BY KindOfWork DEF PutSecret, At
<1>2. next \in Steps
  BY DEF AfterFlag, Steps, Writes
<1>3. Goto(w, next) /\ UNCHANGED <<device, agreed, shelf, pending, owned, journal>>
      /\ secret' = [secret EXCEPT ![job[w].device] = job[w].row.address]
  BY DEF PutSecret
<1>4. /\ GatePart' /\ \A u \in Workers : u # w => job'[u] = Idle
      /\ job'[w] = IF next = "done" THEN Idle ELSE [job[w] EXCEPT !.step = next]
  BY <1>1, <1>2, <1>3, GotoKeepsHolder DEF Inv
<1>5. /\ job[w].device \in Devices /\ job[w].op \in {"save", "enable"}
      /\ Saved(job[w].device) /\ Login(job[w].device) /\ job[w].row = device[job[w].device]
  BY <1>1 DEF OnDeviceOK, UpdateOK, ForgetOK, SaveOK, EnableOK, Login
<1>6. DevicePart'
  <2>1. DevicePart
    BY DEF Inv
  <2>2. device[job[w].device].address \in Addresses \cup {Nowhere}
    BY <1>5, <2>1 DEF DevicePart, DeviceRow
  <2> QED
    BY <1>3, <1>5, <2>1, <2>2
    DEF DevicePart, SavedIsReached, SecretsNameTheirDevice, ConsentNamesItsConnection, Saved, Login
<1>7. job'[w] = Idle \/ OnDeviceOK(job[w])'
  <2> SUFFICES ASSUME next # "done"
               PROVE  OnDeviceOK(job[w])'
    BY <1>4
  <2>1. /\ job'[w].op = job[w].op /\ job'[w].device = job[w].device /\ job'[w].row = job[w].row
        /\ job'[w].address = job[w].address /\ job'[w].step = next
    BY <1>1, <1>4 DEF Job
  <2>2. NeedsCredential(job[w].row.target)
    BY <1>5 DEF Login
  <2> QED
    BY <1>1, <1>3, <1>5, <2>1, <2>2 DEF OnDeviceOK, SaveOK, EnableOK, AfterFlag, Saved
<1>8. (WorkIsOK /\ TimerIsOK)'
  BY <1>1, <1>4, <1>7, WorkOfOne
<1> QED
  BY <1>3, <1>4, <1>6, <1>8, ShelfPartKept, JournalPartKept, QueuePartKept DEF Inv

(* What a write makes of the row: a request revokes, moves and consents    *)
(* only when its earlier steps have made that safe.                        *)
LEMMA WrittenRow ==
  ASSUME Inv, NEW j \in Job, OnDeviceOK(j), j.step \in Writes
  PROVE  LET row == Written(j) IN
         /\ row \in DeviceRow /\ row.shelf = "saved" /\ row.address \in Addresses
         /\ row.target = j.row.target
         /\ row.address # j.row.address => secret[j.device] = Nowhere /\ ~ row.auto
         /\ row.auto /\ NeedsCredential(row.target) => row.stored
         /\ row.auto /\ j.step # "consent" => j.row.auto
<1>1. /\ j.row \in DeviceRow /\ j.row.shelf = "saved" /\ j.address \in Addresses
      /\ j.row.address \in Addresses /\ j.device \in Devices
      /\ j.row.auto => (NeedsCredential(j.row.target) => j.row.stored)
  BY DEF OnDeviceOK, Inv, DevicePart, SavedIsReached, ConsentNamesItsConnection, Saved, Login
<1>2. CASE j.step = "revoke"
  <2>1. j.op \in {"update", "clear"}
    BY <1>2 DEF OnDeviceOK, ForgetOK, SaveOK, EnableOK
  <2>2. Written(j) = [j.row EXCEPT !.stored = FALSE, !.auto = j.row.auto /\ ~ Disables(j)]
    BY <1>1, <1>2 DEF Written, DeviceRow
  <2>3. Disables(j) \in BOOLEAN /\ (NeedsCredential(j.row.target) => Disables(j))
    BY DEF Disables, NeedsCredential
  <2> QED
    BY <1>1, <1>2, <2>2, <2>3 DEF DeviceRow
<1>3. CASE j.step = "flag"
  <2>1. Written(j) = [j.row EXCEPT !.stored = TRUE]
    BY <1>3 DEF Written
  <2> QED
    BY <1>1, <1>3, <2>1 DEF DeviceRow
<1>4. CASE j.step = "move"
  <2>1. UpdateOK(j)
    BY <1>4 DEF OnDeviceOK, ForgetOK, SaveOK, EnableOK
  <2>2. Written(j) = [j.row EXCEPT !.address = j.address]
    BY <1>4 DEF Written
  <2> QED
    BY <1>1, <1>4, <2>1, <2>2 DEF DeviceRow, UpdateOK
<1>5. CASE j.step = "consent"
  <2>1. EnableOK(j)
    BY <1>5 DEF OnDeviceOK, ForgetOK, SaveOK, UpdateOK
  <2>2. Written(j) = [j.row EXCEPT !.auto = TRUE]
    BY <1>5 DEF Written
  <2> QED
    BY <1>1, <1>5, <2>1, <2>2 DEF DeviceRow, EnableOK
<1>6. CASE j.step = "withdraw"
  <2>1. Written(j) = [j.row EXCEPT !.auto = FALSE]
    BY <1>6 DEF Written
  <2> QED
    BY <1>1, <1>6, <2>1 DEF DeviceRow
<1> QED
  BY <1>2, <1>3, <1>4, <1>5, <1>6 DEF Writes

LEMMA WriteRowStep ==
  ASSUME Inv, NEW w \in Workers, WriteRow(w)
  PROVE  Inv'
<1>1. PICK j \in Job : /\ j = job[w] /\ OnDeviceOK(j) /\ w # Timer
                       /\ j.step \in Writes /\ job[w].step # "idle"
  BY KindOfWork DEF WriteRow, Writes
<1>2. PICK row \in DeviceRow :
        /\ row = Written(j) /\ row.shelf = "saved" /\ row.address \in Addresses
        /\ row.target = j.row.target
        /\ row.address # j.row.address => secret[j.device] = Nowhere /\ ~ row.auto
        /\ row.auto /\ NeedsCredential(row.target) => row.stored
        /\ row.auto /\ j.step # "consent" => j.row.auto
  BY <1>1, WrittenRow
<1>3. PICK next \in Job : next = [j EXCEPT !.row = row, !.step = AfterRow(j)]
  <2>1. AfterRow(j) \in Steps
    BY DEF AfterRow, AfterFlag, Steps, Writes
  <2> QED
    BY <2>1 DEF Job
<1>4. next.step = AfterRow(j) /\ next.row = row /\ next.op = j.op
      /\ next.device = j.device /\ next.address = j.address
  BY <1>3 DEF Job
<1>5. /\ device' = [device EXCEPT ![j.device] = row]
      /\ agreed' = IF j.step = "consent" THEN [agreed EXCEPT ![j.device] = j.row.address]
                                         ELSE agreed
      /\ Proceed(w, next)
      /\ UNCHANGED <<secret, shelf, pending, owned, journal>>
  BY <1>1, <1>2, <1>3 DEF WriteRow
<1>6. /\ GatePart' /\ \A u \in Workers : u # w => job'[u] = Idle
      /\ job'[w] = IF next.step = "done" THEN Idle ELSE next
  BY <1>1, <1>5, ProceedKeepsHolder DEF Inv
<1>7. j.device \in Devices /\ Saved(j.device) /\ j.row = device[j.device] /\ j.address \in Addresses
  BY <1>1 DEF OnDeviceOK
<1>8. j.step = "consent" => row.address = j.row.address
  BY <1>2, <1>7 DEF Written, Inv, DevicePart, DeviceRow
<1>9. DevicePart'
  <2>1. DevicePart
    BY DEF Inv
  <2>2. /\ device' \in [Devices -> DeviceRow] /\ device'[j.device] = row
        /\ \A d \in Devices : d # j.device => device'[d] = device[d]
    BY <1>5, <1>7, <2>1 DEF DevicePart
  <2>3. j.row.address \in Addresses
    BY <1>7, <2>1 DEF DevicePart, SavedIsReached
  <2>4. agreed' \in [Devices -> Addresses \cup {Nowhere}]
    BY <1>5, <1>7, <2>1, <2>3 DEF DevicePart
  <2>5. \A d \in Devices : agreed'[d] = IF d = j.device /\ j.step = "consent"
                                        THEN j.row.address ELSE agreed[d]
    BY <1>5, <1>7, <2>1 DEF DevicePart
  <2>6. SavedIsReached'
    BY <1>2, <2>1, <2>2 DEF DevicePart, SavedIsReached, Saved
  <2>7. SecretsNameTheirDevice'
    BY <1>2, <1>5, <1>7, <2>1, <2>2 DEF DevicePart, SecretsNameTheirDevice, Saved, Login
  <2>8. ConsentNamesItsConnection'
    BY <1>2, <1>7, <1>8, <2>1, <2>2, <2>5 DEF DevicePart, ConsentNamesItsConnection, Saved, Login
  <2> QED
    BY <1>5, <2>1, <2>2, <2>4, <2>6, <2>7, <2>8 DEF DevicePart
<1>10. job'[w] = Idle \/ OnDeviceOK(job[w])'
  <2> SUFFICES ASSUME next.step # "done" PROVE OnDeviceOK(job[w])'
    BY <1>6
  <2>1. job'[w] = next
    BY <1>6
  <2>2. device'[j.device] = row
    BY <1>5, <1>7 DEF Inv, DevicePart
  <2>3. \/ j.op = "update" /\ j.step = "revoke" /\ next.step = "retire"
        \/ j.op = "enable" /\ j.step = "flag" /\ next.step = "consent"
    BY <1>1, <1>4 DEF AfterRow, AfterFlag, OnDeviceOK, UpdateOK, ForgetOK, SaveOK, EnableOK, Writes
  <2>4. CASE j.op = "update" /\ j.step = "revoke" /\ next.step = "retire"
    <3>1. row = [j.row EXCEPT !.stored = FALSE, !.auto = FALSE]
      BY <1>2, <1>7, <2>4 DEF Written, Disables, Inv, DevicePart, DeviceRow
    <3>2. ~ row.auto /\ row.address = j.row.address
      BY <1>7, <3>1 DEF Inv, DevicePart, DeviceRow
    <3>3. UpdateOK(j)
      BY <1>1, <2>4 DEF OnDeviceOK
    <3> QED
      BY <1>2, <1>4, <1>5, <1>7, <2>1, <2>2, <2>4, <3>2, <3>3 DEF OnDeviceOK, UpdateOK, Saved
  <2>5. CASE j.op = "enable" /\ j.step = "flag" /\ next.step = "consent"
    <3>1. row.stored
      BY <1>2, <1>7, <2>5 DEF Written, Inv, DevicePart, DeviceRow
    <3> QED
      BY <1>2, <1>4, <1>5, <1>7, <2>1, <2>2, <2>5, <3>1 DEF OnDeviceOK, EnableOK, Saved
  <2> QED
    BY <2>3, <2>4, <2>5
<1>11. (WorkIsOK /\ TimerIsOK)'
  BY <1>1, <1>6, <1>10, WorkOfOne
<1> QED
  BY <1>5, <1>6, <1>9, <1>11, ShelfPartKept, JournalPartKept, QueuePartKept DEF Inv

LEMMA RetireStep ==
  ASSUME Inv, NEW w \in Workers, RetireManagedRoutes(w)
  PROVE  Inv'
<1> DEFINE next == AfterRetire(job[w].op)
<1>1. job[w] \in Job /\ OnDeviceOK(job[w]) /\ w # Timer /\ job[w].step = "retire"
  BY KindOfWork DEF RetireManagedRoutes, At
<1>2. next \in Steps
  BY DEF AfterRetire, Steps, Writes
<1>3. Goto(w, next) /\ UNCHANGED <<devices, shelf, pending, journal>> /\ owned' \subseteq owned
  BY DEF RetireManagedRoutes
<1>4. /\ GatePart' /\ \A u \in Workers : u # w => job'[u] = Idle
      /\ job'[w] = IF next = "done" THEN Idle ELSE [job[w] EXCEPT !.step = next]
  BY <1>1, <1>2, <1>3, GotoKeepsHolder DEF Inv
<1>5. ShelfPart'
  BY <1>3 DEF Inv, ShelfPart, shelf, WipedIsGone, WipedStaysWiped, SurfacesOf
<1>6. job'[w] = Idle \/ OnDeviceOK(job[w])'
  <2> SUFFICES ASSUME next # "done" PROVE OnDeviceOK(job[w])'
    BY <1>4
  <2>1. /\ job'[w].op = job[w].op /\ job'[w].device = job[w].device /\ job'[w].row = job[w].row
        /\ job'[w].address = job[w].address /\ job'[w].step = next
    BY <1>1, <1>4 DEF Job
  <2> QED
    BY <1>1, <1>3, <2>1 DEF OnDeviceOK, UpdateOK, ForgetOK, AfterRetire, Saved, devices
<1>7. (WorkIsOK /\ TimerIsOK)'
  BY <1>1, <1>4, <1>6, WorkOfOne
<1> QED
  BY <1>3, <1>4, <1>5, <1>7, DevicePartKept, JournalPartKept, QueuePartKept DEF Inv

LEMMA DeleteDeviceStep ==
  ASSUME Inv, NEW w \in Workers, DeleteDevice(w)
  PROVE  Inv'
<1> DEFINE d == job[w].device
           gone == [BlankRow EXCEPT !.shelf = "forgotten"]
<1>1. OnDeviceOK(job[w]) /\ w # Timer /\ job[w].step = "delete"
  BY KindOfWork DEF DeleteDevice, At
<1>2. d \in Devices /\ secret[d] = Nowhere
  BY <1>1 DEF OnDeviceOK, UpdateOK, ForgetOK, SaveOK, EnableOK
<1>3. /\ Leave(w) /\ UNCHANGED <<secret, agreed, profile, wiped, pending, owned, journal>>
      /\ device' = [device EXCEPT ![d] = gone]
  BY DEF DeleteDevice
<1>4. \A o \in Outputs : output'[o].live = output[o].live
  BY DEF DeleteDevice, Inv, ShelfPart, OutputRow
<1>5. output' \in [Outputs -> OutputRow]
  BY DEF DeleteDevice, Inv, ShelfPart, OutputRow
<1>6. GatePart' /\ \A u \in Workers : job'[u] = Idle
  BY <1>1, <1>3, LeaveKeepsHolder DEF Inv
<1>7. gone \in DeviceRow /\ gone.shelf = "forgotten" /\ gone.auto = FALSE
  BY DEF BlankRow, DeviceRow, Targets
<1> HIDE DEF gone, d
<1>8. DevicePart'
  <2>1. DevicePart
    BY DEF Inv
  <2>2. /\ device' \in [Devices -> DeviceRow] /\ device'[d] = gone
        /\ \A e \in Devices : e # d => device'[e] = device[e]
    BY <1>2, <1>3, <1>7, <2>1 DEF DevicePart
  <2> QED
    BY <1>2, <1>3, <1>7, <2>1, <2>2
    DEF DevicePart, SavedIsReached, SecretsNameTheirDevice, ConsentNamesItsConnection, Saved, Login
<1>9. ShelfPart'
  BY <1>3, <1>4, <1>5 DEF Inv, ShelfPart, WipedIsGone, WipedStaysWiped, SurfacesOf
<1> QED
  BY <1>3, <1>6, <1>8, <1>9, JournalPartKept, QueuePartKept
  DEF Inv, WorkIsOK, WorkOK, TimerIsOK, Workers

LEMMA FailStep ==
  ASSUME Inv, NEW w \in Workers, Fail(w)
  PROVE  Inv'
<1>1. job[w] \in Job /\ job[w].step # "idle" /\ w # Timer
  BY KindOfWork DEF Fail, Writes
<1>2. UNCHANGED <<devices, shelf, pending, owned, journal>>
  BY DEF Fail
<1>3. CASE Leave(w)
  <2>1. GatePart' /\ \A u \in Workers : job'[u] = Idle
    BY <1>1, <1>3, LeaveKeepsHolder DEF Inv
  <2> QED
    BY <1>2, <2>1, DevicePartKept, ShelfPartKept, JournalPartKept, QueuePartKept
    DEF Inv, WorkIsOK, WorkOK, TimerIsOK, Workers
<1>4. CASE job[w].step = "flag" /\ Goto(w, "undo")
  <2>1. /\ GatePart' /\ \A u \in Workers : u # w => job'[u] = Idle
        /\ job'[w] = [job[w] EXCEPT !.step = "undo"]
    BY <1>1, <1>4, GotoKeepsHolder DEF Inv, Steps
  <2>2. OnDeviceOK(job[w])
    BY <1>4, KindOfWork DEF Writes
  <2>3. /\ job'[w].op = job[w].op /\ job'[w].device = job[w].device /\ job'[w].row = job[w].row
        /\ job'[w].address = job[w].address /\ job'[w].step = "undo"
    BY <1>1, <2>1 DEF Job
  <2>4. OnDeviceOK(job[w])'
    BY <1>2, <1>4, <2>2, <2>3
    DEF OnDeviceOK, UpdateOK, ForgetOK, SaveOK, EnableOK, Saved, devices
  <2>5. (WorkIsOK /\ TimerIsOK)'
    BY <1>1, <2>1, <2>4, WorkOfOne
  <2> QED
    BY <1>2, <2>1, <2>5, DevicePartKept, ShelfPartKept, JournalPartKept, QueuePartKept DEF Inv
<1> QED
  BY <1>3, <1>4 DEF Fail

----------------------------------------------------------------------------
(* Cleanups.                                                               *)

(* A worker starts a cleanup, a send or a delivery.                        *)
LEMMA EnterStep ==
  ASSUME Inv, NEW w \in Workers, NEW j \in Job, Enter(w, j),
         UNCHANGED <<devices, shelf, owned, journal>>, QueuePart',
         CleaningOK(j) \/ SendingOK(j), w = Timer => Unattended(j)
  PROVE  Inv'
<1>1. GatePart' /\ job'[w] = j /\ \A u \in Workers : u # w => job'[u] = Idle
  BY EnterKeepsHolder DEF Inv
<1>2. CleaningOK(j) => CleaningOK(job[w])'
  BY <1>1 DEF CleaningOK, shelf, Live, SurfacesOf
<1>3. SendingOK(j) => SendingOK(job[w])'
  BY <1>1 DEF SendingOK, shelf, journal
<1>4. Unattended(j) => Unattended(job[w])'
  BY <1>1 DEF Unattended, shelf, devices, Saved, Login
<1>5. (WorkIsOK /\ TimerIsOK)'
  BY <1>1, <1>2, <1>3, <1>4, WorkOfOne
<1> QED
  BY <1>1, <1>5, DevicePartKept, ShelfPartKept, JournalPartKept DEF Inv

LEMMA CleansStep ==
  ASSUME Inv, NEW w \in Handlers, NEW op \in {"clean_output", "clean_profile"},
         NEW outputs \in SUBSET Outputs, op = "clean_profile" => outputs = Live,
         Cleans(w, op, outputs)
  PROVE  Inv'
<1>1. SurfacesOf(outputs) \in SUBSET (Outputs \X Addresses)
  BY DEF Inv, ShelfPart, SurfacesOf
<1>2. PICK step \in {"clean", "leave"} :
        step = IF SurfacesOf(outputs) = {} THEN "leave" ELSE "clean"
  OBVIOUS
<1>3. PICK j \in Job :
        /\ j = [Idle EXCEPT !.op = op, !.leaving = outputs, !.rest = SurfacesOf(outputs),
                            !.step = step]
        /\ j.op = op /\ j.leaving = outputs /\ j.rest = SurfacesOf(outputs) /\ j.step = step
  <2> DEFINE j == [Idle EXCEPT !.op = op, !.leaving = outputs, !.rest = SurfacesOf(outputs),
                               !.step = step]
  <2>0. op \in Operations /\ step \in Steps
    BY DEF Operations, Steps
  <2>1. j \in Job
    BY <1>1, <2>0, IdleIsJob DEF Job
  <2>2. j.op = op /\ j.leaving = outputs /\ j.rest = SurfacesOf(outputs) /\ j.step = step
    BY DEF Idle
  <2> QED
    BY <2>1, <2>2
<1>4. Enter(w, j) /\ UNCHANGED <<devices, shelf, pending, owned, journal>>
  BY <1>2, <1>3 DEF Cleans
<1>5. CleaningOK(j)
  BY <1>2, <1>3 DEF CleaningOK
<1>6. w \in Workers /\ w # Timer
  BY TimerAssumption DEF Workers
<1>7. QueuePart'
  BY <1>4, QueuePartKept DEF Inv
<1> QED
  BY <1>4, <1>5, <1>6, <1>7, EnterStep

LEMMA CleanSurfaceStep ==
  ASSUME Inv, NEW w \in Workers, CleanSurface(w)
  PROVE  Inv'
<1>1. job[w] \in Job /\ CleaningOK(job[w]) /\ w # Timer /\ job[w].step = "clean"
  BY KindOfWork DEF CleanSurface, At
<1>2. PICK s \in job[w].rest : owned' = owned \ {s}
        /\ \/ Proceed(w, [job[w] EXCEPT !.rest = job[w].rest \ {s},
                            !.step = IF job[w].rest \ {s} = {} THEN "leave" ELSE "clean"])
           \/ Leave(w)
  BY DEF CleanSurface
<1>3. UNCHANGED <<devices, shelf, pending, journal>>
  BY DEF CleanSurface
<1>4. ShelfPart'
  BY <1>2, <1>3 DEF Inv, ShelfPart, shelf, WipedIsGone, WipedStaysWiped, SurfacesOf
<1>5. CASE Leave(w)
  <2>1. GatePart' /\ \A u \in Workers : job'[u] = Idle
    BY <1>1, <1>5, LeaveKeepsHolder DEF Inv
  <2> QED
    BY <1>3, <1>4, <2>1, DevicePartKept, JournalPartKept, QueuePartKept
    DEF Inv, WorkIsOK, WorkOK, TimerIsOK, Workers
<1>6. CASE Proceed(w, [job[w] EXCEPT !.rest = job[w].rest \ {s},
                         !.step = IF job[w].rest \ {s} = {} THEN "leave" ELSE "clean"])
  <2> DEFINE step == IF job[w].rest \ {s} = {} THEN "leave" ELSE "clean"
  <2>0. step \in {"leave", "clean"} /\ step \in Steps
    BY DEF Steps
  <2>1. PICK j \in Job :
          /\ j = [job[w] EXCEPT !.rest = job[w].rest \ {s}, !.step = step]
          /\ j.op = job[w].op /\ j.leaving = job[w].leaving
          /\ j.rest = job[w].rest \ {s} /\ j.step = step
    <3> DEFINE j == [job[w] EXCEPT !.rest = job[w].rest \ {s}, !.step = step]
    <3> HIDE DEF step
    <3>1. j \in Job
      BY <1>1, <2>0 DEF Job
    <3>2. /\ j.op = job[w].op /\ j.leaving = job[w].leaving
          /\ j.rest = job[w].rest \ {s} /\ j.step = step
      BY <1>1 DEF Job
    <3> QED
      BY <3>1, <3>2
  <2>2. /\ GatePart' /\ \A u \in Workers : u # w => job'[u] = Idle
        /\ job'[w] = j
    BY <1>1, <1>6, <2>0, <2>1, ProceedKeepsHolder DEF Inv
  <2>3. SurfacesOf(j.leaving)' = SurfacesOf(j.leaving) \ {s}
    BY <1>2 DEF SurfacesOf
  <2>4. CleaningOK(job[w])'
    BY <1>1, <1>3, <2>0, <2>1, <2>2, <2>3 DEF CleaningOK, Live, shelf, SurfacesOf
  <2>5. (WorkIsOK /\ TimerIsOK)'
    BY <1>1, <2>2, <2>4, WorkOfOne
  <2> QED
    BY <1>3, <1>4, <2>2, <2>5, DevicePartKept, JournalPartKept, QueuePartKept DEF Inv
<1> QED
  BY <1>2, <1>5, <1>6

(* Outputs that leave the shelf are gone from it; the others stay.         *)
LEMMA RetiredOutputs ==
  ASSUME ShelfPart, NEW leaving \in SUBSET Outputs
  PROVE  /\ Retired(leaving) \in [Outputs -> OutputRow]
         /\ \A o \in Outputs : Retired(leaving)[o].live = (output[o].live /\ o \notin leaving)
BY DEF Retired, ShelfPart, OutputRow

LEMMA LeaveShelfStep ==
  ASSUME Inv, NEW w \in Workers, LeaveShelf(w)
  PROVE  Inv'
<1>1. job[w] \in Job /\ CleaningOK(job[w]) /\ job[w].step = "leave"
  BY KindOfWork DEF LeaveShelf, At
<1>2. PICK leaving \in SUBSET Outputs :
        leaving = job[w].leaving /\ SurfacesOf(leaving) = {}
  BY <1>1 DEF CleaningOK
<1>3. /\ output' = Retired(leaving) /\ wiped' = wiped \cup leaving
      /\ profile' \in {"kept", "archived", "deleted"}
      /\ Leave(w) /\ UNCHANGED <<devices, pending, owned, journal>>
  BY <1>1, <1>2 DEF LeaveShelf, CleaningOK, Inv, ShelfPart
<1>4. GatePart' /\ \A u \in Workers : job'[u] = Idle
  BY <1>1, <1>3, LeaveKeepsHolder DEF Inv
<1>5. ShelfPart'
  <2>1. ShelfPart
    BY DEF Inv
  <2>2. /\ output' \in [Outputs -> OutputRow] /\ wiped' \subseteq Outputs
        /\ owned' \subseteq Outputs \X Addresses
    BY <1>3, <2>1, RetiredOutputs DEF ShelfPart
  <2>3. WipedIsGone'
    BY <1>3, <2>1, RetiredOutputs DEF ShelfPart, WipedIsGone
  <2>4. WipedStaysWiped'
    BY <1>2, <1>3, <2>1 DEF ShelfPart, WipedStaysWiped, SurfacesOf
  <2> QED
    BY <1>3, <2>2, <2>3, <2>4 DEF ShelfPart
<1> QED
  BY <1>3, <1>4, <1>5, DevicePartKept, JournalPartKept, QueuePartKept
  DEF Inv, WorkIsOK, WorkOK, TimerIsOK, Workers

----------------------------------------------------------------------------
(* Sends.                                                                  *)

LEMMA DeployAttemptStep ==
  ASSUME Inv, NEW w \in Handlers, NEW i \in Ids, NEW o \in Outputs,
         NEW d \in Devices \cup {NoDevice}, NEW a \in Addresses, DeployAttempt(w, i, o, d, a)
  PROVE  Inv'
<1>1. PICK j \in Job :
        /\ j = [Idle EXCEPT !.op = "send", !.step = "claim", !.id = i,
                            !.device = d, !.address = a, !.output = o]
        /\ j.op = "send" /\ j.step = "claim" /\ j.id = i /\ j.output = o /\ j.address = a
  <2> DEFINE j == [Idle EXCEPT !.op = "send", !.step = "claim", !.id = i,
                               !.device = d, !.address = a, !.output = o]
  <2>1. j \in Job
    BY IdleIsJob DEF Job, Operations, Steps
  <2>2. j.op = "send" /\ j.step = "claim" /\ j.id = i /\ j.output = o /\ j.address = a
    BY DEF Idle
  <2> QED
    BY <2>1, <2>2
<1>2. Enter(w, j) /\ UNCHANGED <<devices, shelf, pending, owned, journal>>
  BY <1>1 DEF DeployAttempt
<1>3. SendingOK(j)
  BY <1>1 DEF SendingOK
<1>4. w \in Workers /\ w # Timer /\ QueuePart'
  BY <1>2, TimerAssumption, QueuePartKept DEF Workers, Inv
<1> QED
  BY <1>2, <1>3, <1>4, EnterStep

LEMMA DeliverOneStep ==
  ASSUME Inv, NEW p \in pending, DeliverOne(p)
  PROVE  Inv'
<1>1. p.output \in Outputs /\ p.device \in Devices
  BY DEF Inv, QueuePart, Publication
<1>2. Authorised(p) /\ Saved(p.device)
  BY DEF DeliverOne, Authorised
<1>3. device[p.device].address \in Addresses
  BY <1>1, <1>2 DEF Inv, DevicePart, SavedIsReached
<1>4. PICK j \in Job :
        /\ j = [Idle EXCEPT !.op = "deliver", !.step = "claim", !.output = p.output,
                            !.device = p.device, !.address = device[p.device].address]
        /\ j.op = "deliver" /\ j.step = "claim" /\ j.id = NoId /\ j.output = p.output
        /\ j.device = p.device /\ j.address = device[p.device].address
  <2> DEFINE j == [Idle EXCEPT !.op = "deliver", !.step = "claim", !.output = p.output,
                               !.device = p.device, !.address = device[p.device].address]
  <2>1. j \in Job
    BY <1>1, <1>3, IdleIsJob DEF Job, Operations, Steps
  <2>2. /\ j.op = "deliver" /\ j.step = "claim" /\ j.id = NoId /\ j.output = p.output
        /\ j.device = p.device /\ j.address = device[p.device].address
    BY DEF Idle
  <2> QED
    BY <2>1, <2>2
<1>5. Enter(Timer, j) /\ UNCHANGED <<devices, shelf, owned, journal>> /\ pending' \subseteq pending
  BY <1>4 DEF DeliverOne
<1>6. SendingOK(j)
  BY <1>1, <1>3, <1>4 DEF SendingOK
<1>7. Unattended(j)
  BY <1>1, <1>2, <1>4 DEF Unattended, Authorised, Credential
<1>8. Timer \in Workers /\ QueuePart'
  BY <1>5 DEF Workers, Inv, QueuePart
<1> QED
  BY <1>5, <1>6, <1>7, <1>8, EnterStep

(* The next step of a send is the same send.                               *)
SameSend(j, k) ==
  j.op = k.op /\ j.output = k.output /\ j.device = k.device /\ j.address = k.address

LEMMA NextOfSend ==
  ASSUME Inv, NEW w \in Workers, job[w].step \in {"claim", "send", "wait", "complete"},
         NEW step \in {"send", "wait", "complete", "done"}, Goto(w, step)
  PROVE  /\ GatePart' /\ \A u \in Workers : u # w => job'[u] = Idle
         /\ step = "done" => job'[w] = Idle
         /\ step # "done" => /\ job'[w].step = step /\ job'[w].id = job[w].id
                             /\ SameSend(job'[w], job[w])
<1>1. job[w] \in Job /\ job[w].step # "idle" /\ step \in Steps
  BY DEF Inv, GatePart, Steps
<1>2. /\ GatePart' /\ \A u \in Workers : u # w => job'[u] = Idle
      /\ job'[w] = IF step = "done" THEN Idle ELSE [job[w] EXCEPT !.step = step]
  BY <1>1, GotoKeepsHolder DEF Inv
<1>3. ASSUME step # "done"
      PROVE  /\ job'[w].step = step /\ job'[w].id = job[w].id
             /\ job'[w].op = job[w].op /\ job'[w].output = job[w].output
             /\ job'[w].device = job[w].device /\ job'[w].address = job[w].address
  BY <1>1, <1>2, <1>3 DEF Job
<1> QED
  BY <1>2, <1>3 DEF SameSend

(* What the timer has checked holds of every step of its send.             *)
LEMMA UnattendedKept ==
  ASSUME NEW w \in Workers, Unattended(job[w]), UNCHANGED <<devices, shelf>>,
         SameSend(job'[w], job[w])
  PROVE  Unattended(job[w])'
BY DEF Unattended, SameSend, devices, shelf, Saved, Login

LEMMA ClaimedRow ==
  ASSUME NEW j \in Job, j.output \in Outputs, j.address \in Addresses
  PROVE  Claimed(j) \in AttemptRow /\ Claimed(j) # NoAttempt /\ Claimed(j).status = "pending"
<1>1. Claimed(j) \in AttemptRow /\ Claimed(j).status = "pending"
  BY DEF Claimed, AttemptRow, Job
<1> QED
  BY <1>1, NoAttemptAssumption

(* A row is inserted where there was none.                                 *)
LEMMA RowInserted ==
  ASSUME JournalPart, NEW i \in Ids, NEW row \in AttemptRow, row # NoAttempt,
         row.status = "pending", attempt[i] = NoAttempt,
         attempt' = [attempt EXCEPT ![i] = row], UNCHANGED <<runs, answer>>
  PROVE  JournalPart' /\ attempt'[i] = row /\ runs'[i] = 0
BY DEF JournalPart, AttemptsPrecedeRuns, AttemptsAreSingleRuns

LEMMA ClaimStep ==
  ASSUME Inv, NEW w \in Workers, Claim(w)
  PROVE  Inv'
<1>1. /\ job[w] \in Job /\ SendingOK(job[w]) /\ job[w].step = "claim" /\ job[w].op = "send"
      /\ w # Timer
  <2>1. SendingOK(job[w]) /\ (w = Timer => Unattended(job[w])) /\ job[w].op = "send"
    BY KindOfWork DEF Claim, At
  <2> QED
    BY <2>1, KindOfWork DEF Claim, At, Unattended
<1>2. job[w].id \in Ids /\ job[w].output \in Outputs /\ job[w].address \in Addresses
  BY <1>1 DEF SendingOK
<1>3. UNCHANGED <<devices, shelf, pending, owned, runs, answer>>
  BY DEF Claim
<1>4. \/ /\ attempt[job[w].id] = NoAttempt
         /\ attempt' = [attempt EXCEPT ![job[w].id] = Claimed(job[w])]
         /\ Goto(w, "send") \/ Leave(w)
      \/ UNCHANGED attempt /\ Leave(w)
  BY DEF Claim, Inserts
<1>5. JournalPart' /\ (Goto(w, "send") /\ ~ Leave(w) =>
        attempt'[job[w].id] = Claimed(job[w]) /\ runs'[job[w].id] = 0)
  <2>1. CASE /\ attempt[job[w].id] = NoAttempt
             /\ attempt' = [attempt EXCEPT ![job[w].id] = Claimed(job[w])]
    BY <1>1, <1>2, <1>3, <2>1, ClaimedRow, RowInserted DEF Inv
  <2>2. CASE UNCHANGED attempt /\ Leave(w)
    BY <1>3, <2>2, JournalPartKept DEF Inv, journal
  <2> QED
    BY <1>4, <2>1, <2>2
<1>6. CASE Leave(w)
  <2>1. GatePart' /\ \A u \in Workers : job'[u] = Idle
    BY <1>1, <1>6, LeaveKeepsHolder DEF Inv
  <2> QED
    BY <1>3, <1>5, <2>1, DevicePartKept, ShelfPartKept, QueuePartKept
    DEF Inv, WorkIsOK, WorkOK, TimerIsOK, Workers
<1>7. CASE Goto(w, "send") /\ ~ Leave(w)
  <2>1. /\ GatePart' /\ \A u \in Workers : u # w => job'[u] = Idle
        /\ job'[w].step = "send" /\ job'[w].id = job[w].id /\ SameSend(job'[w], job[w])
    BY <1>1, <1>7, NextOfSend
  <2>2. Claimed(job[w]) # NoAttempt /\ Claimed(job[w]).status = "pending"
    BY <1>1, <1>2, ClaimedRow
  <2>3. SendingOK(job[w])'
    BY <1>1, <1>2, <1>5, <1>7, <2>1, <2>2 DEF SendingOK, SameSend
  <2>4. (WorkIsOK /\ TimerIsOK)'
    BY <1>1, <2>1, <2>3, WorkOfOne
  <2> QED
    BY <1>3, <1>5, <2>1, <2>4, DevicePartKept, ShelfPartKept, QueuePartKept DEF Inv
<1> QED
  BY <1>4, <1>6, <1>7

LEMMA ClaimUnattendedStep ==
  ASSUME Inv, NEW w \in Workers, ClaimUnattended(w)
  PROVE  Inv'
<1>1. /\ job[w] \in Job /\ SendingOK(job[w]) /\ job[w].step = "claim" /\ job[w].op = "deliver"
      /\ w = Timer => Unattended(job[w])
  BY KindOfWork DEF ClaimUnattended, At
<1>2. job[w].id = NoId /\ job[w].output \in Outputs /\ job[w].address \in Addresses
  BY <1>1 DEF SendingOK
<1>3. UNCHANGED <<devices, shelf, pending, owned, runs, answer>>
  BY DEF ClaimUnattended
<1>4. CASE UNCHANGED attempt /\ Goto(w, "send")
  <2>1. /\ GatePart' /\ \A u \in Workers : u # w => job'[u] = Idle
        /\ job'[w].step = "send" /\ job'[w].id = NoId /\ SameSend(job'[w], job[w])
    BY <1>1, <1>2, <1>4, NextOfSend
  <2>2. SendingOK(job[w])'
    BY <1>1, <1>2, <2>1 DEF SendingOK, SameSend
  <2>3. (WorkIsOK /\ TimerIsOK)'
    BY <1>1, <1>3, <2>1, <2>2, WorkOfOne, UnattendedKept
  <2> QED
    BY <1>3, <1>4, <2>1, <2>3, DevicePartKept, ShelfPartKept, JournalPartKept, QueuePartKept
    DEF Inv, journal
<1>5. ASSUME NEW i \in Ids, attempt[i] = NoAttempt,
             attempt' = [attempt EXCEPT ![i] = Claimed(job[w])],
             NEW id \in {i, NoId}, Proceed(w, [job[w] EXCEPT !.step = "send", !.id = id])
      PROVE  Inv'
  <2>1. PICK j \in Job :
          /\ j = [job[w] EXCEPT !.step = "send", !.id = id]
          /\ j.step = "send" /\ j.id = id /\ SameSend(j, job[w])
    <3> DEFINE j == [job[w] EXCEPT !.step = "send", !.id = id]
    <3>1. j \in Job
      BY <1>1 DEF Job, Steps, Writes
    <3>2. /\ j.step = "send" /\ j.id = id /\ j.op = job[w].op /\ j.output = job[w].output
          /\ j.device = job[w].device /\ j.address = job[w].address
      BY <1>1 DEF Job
    <3> QED
      BY <3>1, <3>2 DEF SameSend
  <2>2. /\ GatePart' /\ \A u \in Workers : u # w => job'[u] = Idle
        /\ job'[w] = j
    BY <1>1, <1>5, <2>1, ProceedKeepsHolder DEF Inv
  <2>3. Claimed(job[w]) \in AttemptRow /\ Claimed(job[w]) # NoAttempt
        /\ Claimed(job[w]).status = "pending"
    BY <1>1, <1>2, ClaimedRow
  <2>4. JournalPart' /\ attempt'[i] = Claimed(job[w]) /\ runs'[i] = 0
    BY <1>3, <1>5, <2>3, RowInserted DEF Inv
  <2>5. SendingOK(job[w])'
    BY <1>1, <1>2, <2>1, <2>2, <2>3, <2>4 DEF SendingOK, SameSend
  <2>6. w = Timer => Unattended(job[w])'
    BY <1>1, <1>3, <2>1, <2>2, UnattendedKept
  <2>7. (WorkIsOK /\ TimerIsOK)'
    BY <2>2, <2>5, <2>6, WorkOfOne
  <2> QED
    BY <1>3, <2>2, <2>4, <2>7, DevicePartKept, ShelfPartKept, QueuePartKept DEF Inv
<1> QED
  BY <1>4, <1>5 DEF ClaimUnattended

(* A send that is under way is the only one that moves its row's counters. *)
LEMMA RunCounted ==
  ASSUME JournalPart, NEW i \in Ids, attempt[i] # NoAttempt, runs[i] = 0,
         runs' = [runs EXCEPT ![i] = @ + 1], UNCHANGED <<attempt, answer>>
  PROVE  JournalPart'
<1>1. runs' \in [Ids -> Nat] /\ \A k \in Ids : runs'[k] = IF k = i THEN 1 ELSE runs[k]
  BY DEF JournalPart
<1> QED
  BY <1>1 DEF JournalPart, AttemptsPrecedeRuns, AttemptsAreSingleRuns

LEMMA AnswerKept ==
  ASSUME JournalPart, NEW i \in Ids, attempt[i].status = "pending", NEW outcome \in Outcomes,
         answer' = [answer EXCEPT ![i] = outcome], UNCHANGED <<attempt, runs>>
  PROVE  JournalPart' /\ answer'[i] \in Outcomes
BY DEF JournalPart, AttemptsPrecedeRuns, AttemptsAreSingleRuns

(* An id that a send carries is one of the identities.                     *)
LEMMA IdOfSend ==
  ASSUME Inv, NEW w \in Workers, job[w].id # NoId
  PROVE  job[w].id \in Ids
<1>1. job[w] \in Job
  BY DEF Inv, GatePart
<1> QED
  BY <1>1 DEF Job

LEMMA SendStep ==
  ASSUME Inv, NEW w \in Workers, Send(w)
  PROVE  Inv'
<1>1. /\ SendingOK(job[w]) /\ job[w].step = "send" /\ (w = Timer => Unattended(job[w]))
  BY KindOfWork DEF Send, At
<1>2. UNCHANGED <<devices, shelf, pending, owned, attempt>>
  BY DEF Send
<1>3. CASE /\ Resolves(job[w].output) /\ Goto(w, "wait") /\ UNCHANGED answer
           /\ runs' = IF job[w].id = NoId THEN runs ELSE [runs EXCEPT ![job[w].id] = @ + 1]
  <2>1. /\ GatePart' /\ \A u \in Workers : u # w => job'[u] = Idle
        /\ job'[w].step = "wait" /\ job'[w].id = job[w].id /\ SameSend(job'[w], job[w])
    BY <1>1, <1>3, NextOfSend
  <2>2. JournalPart'
    <3>1. CASE job[w].id = NoId
      BY <1>2, <1>3, <3>1, JournalPartKept DEF Inv, journal
    <3>2. CASE job[w].id # NoId
      BY <1>1, <1>2, <1>3, <3>2, IdOfSend, RunCounted DEF Inv, SendingOK
    <3> QED
      BY <3>1, <3>2
  <2>3. SendingOK(job[w])'
    BY <1>1, <1>2, <1>3, <2>1 DEF SendingOK, SameSend, Resolves, shelf
  <2>4. (WorkIsOK /\ TimerIsOK)'
    BY <1>1, <1>2, <2>1, <2>3, WorkOfOne, UnattendedKept
  <2> QED
    BY <1>2, <2>1, <2>2, <2>4, DevicePartKept, ShelfPartKept, QueuePartKept DEF Inv
<1>4. CASE job[w].id = NoId /\ Goto(w, "done") /\ UNCHANGED <<answer, runs>>
  <2>1. GatePart' /\ \A u \in Workers : job'[u] = Idle
    BY <1>1, <1>4, NextOfSend
  <2> QED
    BY <1>2, <1>4, <2>1, DevicePartKept, ShelfPartKept, JournalPartKept, QueuePartKept
    DEF Inv, WorkIsOK, WorkOK, TimerIsOK, Workers, journal
<1>5. CASE /\ job[w].id # NoId /\ Goto(w, "complete") /\ UNCHANGED runs
           /\ answer' = [answer EXCEPT ![job[w].id] = "failed"]
  <2>1. /\ GatePart' /\ \A u \in Workers : u # w => job'[u] = Idle
        /\ job'[w].step = "complete" /\ job'[w].id = job[w].id /\ SameSend(job'[w], job[w])
    BY <1>1, <1>5, NextOfSend
  <2>2. job[w].id \in Ids /\ attempt[job[w].id] # NoAttempt
        /\ attempt[job[w].id].status = "pending"
    BY <1>1, <1>5, IdOfSend DEF SendingOK
  <2>3. JournalPart' /\ answer'[job[w].id] \in Outcomes
    BY <1>2, <1>5, <2>2, AnswerKept DEF Inv, Outcomes
  <2>4. SendingOK(job[w])'
    BY <1>1, <1>2, <1>5, <2>1, <2>2, <2>3 DEF SendingOK, SameSend
  <2>5. (WorkIsOK /\ TimerIsOK)'
    BY <1>1, <1>2, <2>1, <2>4, WorkOfOne, UnattendedKept
  <2> QED
    BY <1>2, <2>1, <2>3, <2>5, DevicePartKept, ShelfPartKept, QueuePartKept DEF Inv
<1> QED
  BY <1>3, <1>4, <1>5 DEF Send

LEMMA ReceiveStep ==
  ASSUME Inv, NEW w \in Workers, NEW outcome \in Outcomes, Receive(w, outcome)
  PROVE  Inv'
<1>1. /\ SendingOK(job[w]) /\ job[w].step = "wait" /\ (w = Timer => Unattended(job[w]))
  BY KindOfWork DEF Receive, At
<1>2. /\ UNCHANGED <<devices, shelf, pending, attempt, runs>>
      /\ owned' \subseteq owned \cup {<<job[w].output, job[w].address>>}
  BY DEF Receive
<1>3. /\ job[w].output \in Outputs /\ job[w].address \in Addresses
      /\ output[job[w].output].live
  BY <1>1 DEF SendingOK
<1>4. ShelfPart'
  <2>1. ShelfPart /\ job[w].output \notin wiped
    BY <1>3 DEF Inv, ShelfPart, WipedIsGone
  <2>2. owned' \subseteq Outputs \X Addresses
    BY <1>2, <1>3, <2>1 DEF ShelfPart
  <2>3. WipedStaysWiped'
    BY <1>2, <1>3, <2>1 DEF ShelfPart, WipedStaysWiped, SurfacesOf, shelf
  <2> QED
    BY <1>2, <2>1, <2>2, <2>3 DEF ShelfPart, WipedIsGone, shelf
<1>5. CASE job[w].id = NoId
  <2>1. GatePart' /\ (\A u \in Workers : job'[u] = Idle) /\ UNCHANGED answer
    BY <1>1, <1>5, NextOfSend DEF Receive
  <2> QED
    BY <1>2, <1>4, <2>1, DevicePartKept, JournalPartKept, QueuePartKept
    DEF Inv, WorkIsOK, WorkOK, TimerIsOK, Workers, journal
<1>6. CASE job[w].id # NoId
  <2>1. Goto(w, "complete") /\ answer' = [answer EXCEPT ![job[w].id] = outcome]
    BY <1>6 DEF Receive
  <2>2. /\ GatePart' /\ \A u \in Workers : u # w => job'[u] = Idle
        /\ job'[w].step = "complete" /\ job'[w].id = job[w].id /\ SameSend(job'[w], job[w])
    BY <1>1, <2>1, NextOfSend
  <2>3. job[w].id \in Ids /\ attempt[job[w].id] # NoAttempt
        /\ attempt[job[w].id].status = "pending"
    BY <1>1, <1>6, IdOfSend DEF SendingOK
  <2>4. JournalPart' /\ answer'[job[w].id] \in Outcomes
    BY <1>2, <2>1, <2>3, AnswerKept DEF Inv
  <2>5. SendingOK(job[w])'
    BY <1>1, <1>2, <1>6, <2>2, <2>3, <2>4 DEF SendingOK, SameSend
  <2>6. (WorkIsOK /\ TimerIsOK)'
    BY <1>1, <1>2, <2>2, <2>5, WorkOfOne, UnattendedKept
  <2> QED
    BY <1>2, <1>4, <2>2, <2>4, <2>6, DevicePartKept, QueuePartKept DEF Inv
<1> QED
  BY <1>5, <1>6

LEMMA CompleteStep ==
  ASSUME Inv, NEW w \in Workers, Complete(w)
  PROVE  Inv'
<1>1. SendingOK(job[w]) /\ job[w].step = "complete"
  BY KindOfWork DEF Complete, At
<1>2. job[w].id \in Ids /\ answer[job[w].id] \in Outcomes
  BY <1>1, IdOfSend DEF SendingOK
<1>3. Leave(w) /\ UNCHANGED <<devices, shelf, pending, owned, runs, answer>>
  BY DEF Complete
<1>4. GatePart' /\ \A u \in Workers : job'[u] = Idle
  BY <1>1, <1>3, LeaveKeepsHolder DEF Inv
<1>5. JournalPart'
  <2>1. CASE UNCHANGED attempt
    BY <1>3, <2>1, JournalPartKept DEF Inv, journal
  <2>2. CASE /\ attempt[job[w].id] # NoAttempt
             /\ attempt' = [attempt EXCEPT ![job[w].id].status = answer[job[w].id]]
    <3> DEFINE i == job[w].id
    <3>0. JournalPart
      BY DEF Inv
    <3>1. attempt[i] \in AttemptRow
      BY <1>2, <2>2, <3>0 DEF JournalPart
    <3>2. PICK row \in AttemptRow : row = [attempt[i] EXCEPT !.status = answer[i]]
                                    /\ row.status = answer[i]
      <4> DEFINE row == [attempt[i] EXCEPT !.status = answer[i]]
      <4>1. row \in AttemptRow
        BY <1>2, <3>1 DEF AttemptRow
      <4>2. row.status = answer[i]
        BY <3>1 DEF AttemptRow
      <4> QED
        BY <4>1, <4>2
    <3>3. attempt' = [attempt EXCEPT ![i] = row]
      BY <2>2, <3>2
    <3>4. row # NoAttempt
      BY NoAttemptAssumption
    <3> HIDE DEF i
    <3>5. i \in Ids
      BY <1>2 DEF i
    <3> QED
      BY <1>3, <3>0, <3>2, <3>3, <3>4, <3>5
      DEF i, JournalPart, AttemptsPrecedeRuns, AttemptsAreSingleRuns
  <2>3. attempt[job[w].id] = Claimed(job[w]) => attempt[job[w].id] # NoAttempt
    <3>1. job[w] \in Job /\ job[w].output \in Outputs /\ job[w].address \in Addresses
      BY <1>1, KindOfWork DEF SendingOK
    <3> QED
      BY <3>1, ClaimedRow
  <2> QED
    BY <2>1, <2>2, <2>3 DEF Complete
<1> QED
  BY <1>3, <1>4, <1>5, DevicePartKept, ShelfPartKept, QueuePartKept
  DEF Inv, WorkIsOK, WorkOK, TimerIsOK, Workers

----------------------------------------------------------------------------
(* What does not wait for the gate, and what takes it only for a moment.   *)

(* A device that nobody knew is nobody's work.                             *)
LEMMA RegisterDeviceStep ==
  ASSUME Inv, NEW d \in Devices, NEW target \in Targets, NEW a \in Addresses,
         RegisterDevice(d, target, a)
  PROVE  Inv'
<1>1. PICK row \in DeviceRow :
        /\ device' = [device EXCEPT ![d] = row]
        /\ row.shelf = "saved" /\ row.address = a /\ row.auto = FALSE
  <2> DEFINE row == [BlankRow EXCEPT !.shelf = "saved", !.target = target, !.address = a]
  <2>1. row \in DeviceRow /\ row.shelf = "saved" /\ row.address = a /\ row.auto = FALSE
    BY DEF BlankRow, DeviceRow
  <2> QED
    BY <2>1 DEF RegisterDevice
<1>2. ~ Saved(d) /\ UNCHANGED <<gating, secret, agreed, shelf, pending, owned, journal>>
  BY DEF RegisterDevice, Saved
<1>3. DevicePart
  BY DEF Inv
<1>4. /\ device' \in [Devices -> DeviceRow] /\ device'[d] = row
      /\ \A e \in Devices : e # d => device'[e] = device[e]
  BY <1>1, <1>3 DEF DevicePart
<1>5. DevicePart'
  BY <1>1, <1>2, <1>3, <1>4
  DEF DevicePart, SavedIsReached, SecretsNameTheirDevice, ConsentNamesItsConnection, Saved, Login
<1>6. GatePart'
  BY <1>2 DEF Inv, GatePart, OneHolder, gating
<1>7. ASSUME NEW w \in Workers PROVE WorkOK(w)'
  <2>1. job'[w] = job[w] /\ WorkOK(w)
    BY <1>2 DEF gating, Inv, WorkIsOK
  <2>2. OnDeviceOK(job[w]) => OnDeviceOK(job[w])'
    BY <1>2, <1>4, <2>1 DEF OnDeviceOK, UpdateOK, ForgetOK, SaveOK, EnableOK, Saved
  <2>3. CleaningOK(job[w]) => CleaningOK(job[w])'
    BY <1>2, <2>1 DEF CleaningOK, Live, SurfacesOf, shelf
  <2>4. SendingOK(job[w]) => SendingOK(job[w])'
    BY <1>2, <2>1 DEF SendingOK, shelf, journal
  <2> QED
    BY <2>1, <2>2, <2>3, <2>4 DEF WorkOK
<1>8. TimerIsOK'
  <2>1. job' = job
    BY <1>2 DEF gating
  <2>2. Unattended(job[Timer]) => Unattended(job[Timer])'
    BY <1>2, <1>4, <2>1 DEF Unattended, Saved, Login, shelf
  <2> QED
    BY <2>1, <2>2 DEF Inv, TimerIsOK
<1> QED
  BY <1>2, <1>5, <1>6, <1>7, <1>8, ShelfPartKept, JournalPartKept, QueuePartKept
  DEF Inv, WorkIsOK

(* Archival, and what the timer queues, do not touch what work rests on.   *)
LEMMA WorkUntouched ==
  ASSUME Inv, UNCHANGED <<gating, devices, output, wiped, owned, journal>>
  PROVE  (GatePart /\ DevicePart /\ JournalPart /\ WorkIsOK /\ TimerIsOK)'
<1>1. GatePart' /\ job' = job
  BY DEF Inv, GatePart, OneHolder, gating
<1>2. ASSUME NEW w \in Workers PROVE WorkOK(w)'
  <2>1. WorkOK(w)
    BY DEF Inv, WorkIsOK
  <2>2. OnDeviceOK(job[w]) => OnDeviceOK(job[w])'
    BY <1>1 DEF OnDeviceOK, UpdateOK, ForgetOK, SaveOK, EnableOK, Saved, devices
  <2>3. CleaningOK(job[w]) => CleaningOK(job[w])'
    BY <1>1 DEF CleaningOK, Live, SurfacesOf
  <2>4. SendingOK(job[w]) => SendingOK(job[w])'
    BY <1>1 DEF SendingOK, journal
  <2> QED
    BY <1>1, <2>1, <2>2, <2>3, <2>4 DEF WorkOK
<1>3. TimerIsOK'
  BY <1>1 DEF Inv, TimerIsOK, Unattended, Saved, Login, devices
<1> QED
  BY <1>1, <1>2, <1>3, DevicePartKept, JournalPartKept DEF Inv, WorkIsOK

LEMMA UngatedStep ==
  ASSUME Inv, Ungated
  PROVE  Inv'
<1>1. CASE SetArchived
  <2>1. UNCHANGED <<gating, devices, output, wiped, pending, owned, journal>>
    BY <1>1 DEF SetArchived
  <2>2. profile' \in {"kept", "archived", "deleted"}
    BY <1>1 DEF SetArchived, Inv, ShelfPart
  <2>3. ShelfPart'
    BY <2>1, <2>2 DEF Inv, ShelfPart, WipedIsGone, WipedStaysWiped, SurfacesOf
  <2> QED
    BY <2>1, <2>3, WorkUntouched, QueuePartKept DEF Inv
<1> QED
  BY <1>1, RegisterDeviceStep DEF Ungated

LEMMA OnTimerStep ==
  ASSUME Inv, OnTimer
  PROVE  Inv'
<1>1. CASE \E o \in Outputs : ScheduledBuild(o)
  <2>1. PICK o \in Outputs : ScheduledBuild(o)
    BY <1>1
  <2>2. output[o].device \in Devices
    BY <2>1 DEF ScheduledBuild, Inv, ShelfPart, OutputRow
  <2>3. QueuePart'
    BY <2>1, <2>2 DEF ScheduledBuild, Inv, QueuePart, Publication
  <2>4. UNCHANGED <<gating, devices, shelf, owned, journal>>
    BY <2>1 DEF ScheduledBuild
  <2> QED
    BY <2>3, <2>4, WorkUntouched, ShelfPartKept DEF Inv, shelf
<1>2. ASSUME NEW p \in pending, SkipDelivery(p) PROVE Inv'
  <2>1. UNCHANGED <<gating, devices, shelf, owned, journal>> /\ QueuePart'
    BY <1>2 DEF SkipDelivery, Inv, QueuePart
  <2> QED
    BY <2>1, WorkUntouched, ShelfPartKept DEF Inv, shelf
<1> QED
  BY <1>1, <1>2, DeliverOneStep DEF OnTimer

(* While the gate is free nobody is at work, so only the stored rows count.*)
LEMMA AtOnceStep ==
  ASSUME Inv, AtOnce
  PROVE  Inv'
<1>1. ASSUME GateFree, UNCHANGED gating PROVE (GatePart /\ WorkIsOK /\ TimerIsOK)'
  BY <1>1, NobodyAtWork DEF Inv, GatePart, OneHolder, gating, WorkIsOK, WorkOK, TimerIsOK, Workers
<1>2. ASSUME NEW leaving \in SUBSET Outputs, output' = Retired(leaving),
             UNCHANGED <<wiped, owned>>, profile' \in {"kept", "archived", "deleted"}
      PROVE  ShelfPart'
  BY <1>2, RetiredOutputs DEF Inv, ShelfPart, WipedIsGone, WipedStaysWiped, SurfacesOf
<1>3. ASSUME NEW o \in Outputs, NEW d \in Devices \cup {NoDevice}, SetOutputDevice(o, d)
      PROVE  Inv'
  <2>1. /\ GateFree /\ UNCHANGED <<gating, devices, profile, wiped, pending, owned, journal>>
        /\ output' = [output EXCEPT ![o].device = d]
    BY <1>3 DEF SetOutputDevice, Briefly
  <2>2. /\ output' \in [Outputs -> OutputRow]
        /\ \A p \in Outputs : output'[p].live = output[p].live
    BY <2>1 DEF Inv, ShelfPart, OutputRow
  <2>3. ShelfPart'
    BY <2>1, <2>2 DEF Inv, ShelfPart, WipedIsGone, WipedStaysWiped, SurfacesOf
  <2> QED
    BY <1>1, <2>1, <2>3, DevicePartKept, JournalPartKept, QueuePartKept DEF Inv
<1>4. ASSUME NEW o \in Outputs, RemoveOutput(o) PROVE Inv'
  <2>1. /\ GateFree /\ UNCHANGED <<gating, devices, profile, wiped, pending, owned, journal>>
        /\ output' = Retired({o}) /\ {o} \in SUBSET Outputs
    BY <1>4 DEF RemoveOutput, Briefly
  <2>2. ShelfPart'
    BY <1>2, <2>1 DEF Inv, ShelfPart
  <2> QED
    BY <1>1, <2>1, <2>2, DevicePartKept, JournalPartKept, QueuePartKept DEF Inv
<1>5. CASE DeleteProfile
  <2>1. /\ GateFree /\ UNCHANGED <<gating, devices, wiped, pending, owned, journal>>
        /\ output' = Retired(Live) /\ profile' = "deleted" /\ Live \in SUBSET Outputs
    BY <1>5 DEF DeleteProfile, Briefly, Live
  <2>2. ShelfPart'
    BY <1>2, <2>1
  <2> QED
    BY <1>1, <2>1, <2>2, DevicePartKept, JournalPartKept, QueuePartKept DEF Inv
<1> QED
  BY <1>3, <1>4, <1>5 DEF AtOnce

LEMMA CrashStep ==
  ASSUME Inv, Crash
  PROVE  Inv'
<1>1. UNCHANGED <<devices, shelf, owned, journal>> /\ QueuePart'
  BY DEF Crash, QueuePart
<1>2. GatePart' /\ \A u \in Workers : job'[u] = Idle
  BY IdleIsJob DEF Crash, GatePart, OneHolder
<1> QED
  BY <1>1, <1>2, DevicePartKept, ShelfPartKept, JournalPartKept
  DEF Inv, WorkIsOK, WorkOK, TimerIsOK, Workers

LEMMA OnOutputsStep ==
  ASSUME Inv, NEW w \in Handlers, OnOutputs(w)
  PROVE  Inv'
<1>1. ASSUME NEW o \in Outputs, RemoveOutputCleaning(w, o) PROVE Inv'
  <2>1. Cleans(w, "clean_output", {o}) /\ {o} \in SUBSET Outputs
    BY <1>1 DEF RemoveOutputCleaning
  <2> QED
    BY <2>1, CleansStep
<1>2. CASE DeleteProfileCleaning(w)
  <2>1. Cleans(w, "clean_profile", Live) /\ Live \in SUBSET Outputs
    BY <1>2 DEF DeleteProfileCleaning, Live
  <2> QED
    BY <2>1, CleansStep
<1> QED
  BY <1>1, <1>2, DeployAttemptStep DEF OnOutputs

----------------------------------------------------------------------------
(* The invariant.                                                          *)

LEMMA InvInit == Init => Inv
<1> SUFFICES ASSUME Init PROVE Inv
  OBVIOUS
<1>1. GatePart /\ \A w \in Workers : job[w] = Idle
  BY IdleIsJob DEF Init, GatePart, OneHolder
<1>2. BlankRow \in DeviceRow /\ BlankRow.shelf = "none" /\ BlankRow.auto = FALSE
  BY DEF BlankRow, DeviceRow, Targets
<1>3. DevicePart
  BY <1>2 DEF Init, DevicePart, SavedIsReached, SecretsNameTheirDevice,
              ConsentNamesItsConnection, Saved
<1>4. ShelfPart
  BY DEF Init, ShelfPart, OutputRow, WipedIsGone, WipedStaysWiped
<1>5. JournalPart
  BY DEF Init, JournalPart, AttemptsPrecedeRuns, AttemptsAreSingleRuns
<1> QED
  BY <1>1, <1>3, <1>4, <1>5 DEF Init, Inv, QueuePart, WorkIsOK, WorkOK, TimerIsOK, Workers

LEMMA InvStep == Inv /\ [Next]_vars => Inv'
<1> SUFFICES ASSUME Inv, [Next]_vars PROVE Inv'
  OBVIOUS
<1>1. CASE UNCHANGED vars
  <2>1. UNCHANGED <<gating, devices, shelf, pending, owned, journal>>
    BY <1>1 DEF vars
  <2> QED
    BY <2>1, WorkUntouched, ShelfPartKept, QueuePartKept DEF Inv, shelf
<1>2. ASSUME NEW w \in Workers, Step(w) PROVE Inv'
  BY <1>2, DropSecretStep, PutSecretStep, WriteRowStep, RetireStep, DeleteDeviceStep, FailStep,
     CleanSurfaceStep, LeaveShelfStep, ClaimStep, ClaimUnattendedStep, SendStep, CompleteStep,
     ReceiveStep DEF Step
<1> QED
  BY <1>1, <1>2, OnDeviceStep, OnOutputsStep, OnTimerStep, UngatedStep, AtOnceStep, CrashStep
  DEF Next

(* The argument in one formula: stored rows are consistent, one worker at  *)
(* most is at work, and its earlier steps left what its step relies on.    *)
THEOREM Invariance == Spec => []Inv
BY InvInit, InvStep, PTL DEF Spec

(* Every variable has its type.                                            *)
THEOREM TypeCorrect == Spec => []TypeOK
<1>1. Inv => TypeOK
  BY DEF Inv, GatePart, DevicePart, ShelfPart, JournalPart, QueuePart, TypeOK
<1> QED
  BY <1>1, Invariance, PTL

(* However many requests there are, whoever is at work on a device knows   *)
(* its row as it is stored, until the last write of the request            *)
(* (DeliveryGate.Acquire, DeviceService.clearCredential).                  *)
THEOREM RowsAreKnown == Spec => []RequestsKnowTheirRow
<1>1. Inv => RequestsKnowTheirRow
  BY KindOfWork DEF RequestsKnowTheirRow, OnDeviceOK
<1> QED
  BY <1>1, Invariance, PTL

(* A stored password belongs to a visible device and its present           *)
(* connection, wherever UpdateDevice, ForgetDevice or SaveCredential fails *)
(* and wherever the process stops.                                         *)
THEOREM SecretsNamed == Spec => []SecretsNameTheirDevice
<1>1. Inv => SecretsNameTheirDevice
  BY DEF Inv, DevicePart
<1> QED
  BY <1>1, Invariance, PTL

(* Consent is for the present connection, and goes with its password       *)
(* (revokeCredentialAndConsent, RemoveCredential, EnableAutoDelivery).     *)
THEOREM ConsentNamed == Spec => []ConsentNamesItsConnection
<1>1. Inv => ConsentNamesItsConnection
  BY DEF Inv, DevicePart
<1> QED
  BY <1>1, Invariance, PTL

(* An unattended send is authorised for as long as it is at work, not only *)
(* when deliverOne checked it.                                             *)
THEOREM SendsAuthorised == Spec => []OnlyAuthorisedSends
<1>1. Inv => OnlyAuthorisedSends
  <2> SUFFICES ASSUME Inv, job[Timer].step = "wait"
               PROVE  /\ output[job[Timer].output].live
                      /\ output[job[Timer].output].device = job[Timer].device
                      /\ device[job[Timer].device].auto
                      /\ agreed[job[Timer].device] = job[Timer].address
                      /\ Login(job[Timer].device) =>
                           secret[job[Timer].device] = job[Timer].address
    BY DEF OnlyAuthorisedSends
  <2>1. Unattended(job[Timer])
    BY IdleIsJob DEF Inv, TimerIsOK
  <2> QED
    BY <2>1 DEF Unattended, Inv, DevicePart, SecretsNameTheirDevice, ConsentNamesItsConnection
<1> QED
  BY <1>1, Invariance, PTL

(* However often an attempt is asked for, it reaches its device once, and  *)
(* its row tells how that went (BeginDeploymentAttempt).                   *)
THEOREM AttemptsRunOnce == Spec => []AttemptsAreSingleRuns
<1>1. Inv => AttemptsAreSingleRuns
  BY DEF Inv, JournalPart
<1> QED
  BY <1>1, Invariance, PTL

(* Nothing comes back on a device after the cleanup its output left with   *)
(* (serveBackend.RemoveOutputCleaningDevices).                             *)
THEOREM WipedForGood == Spec => []WipedStaysWiped
<1>1. Inv => WipedStaysWiped
  BY DEF Inv, ShelfPart
<1> QED
  BY <1>1, Invariance, PTL

=============================================================================
