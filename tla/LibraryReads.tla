----------------------------- MODULE LibraryReads -----------------------------
(***************************************************************************)
(* Readers of the library's registries against an import that replaces     *)
(* them all.  registryMu is a Go RWMutex: once a writer waits, a reader    *)
(* that asks is kept back until the writer has gone, even one that holds   *)
(* the lock already.  A category read holds it while it asks for it again  *)
(* per member; a definition takes it twice in a row; a listing reads one   *)
(* category after another.                                                 *)
(*                                                                         *)
(* The import wants an empty database, so that there is only one.  It      *)
(* holds the inner mutexes of all three registries while it swaps them,    *)
(* which makes the swap one step.                                          *)
(***************************************************************************)
EXTENDS Naturals

CONSTANTS Readers, Reads, MaxCategories, MaxMembers

VARIABLES mutex,       \* registryMu
          import,
          read         \* per reader: what it reads, where it is, what it saw

vars == <<mutex, import, read>>

----------------------------------------------------------------------------
(* sync.RWMutex                                                            *)
Free == [writer |-> "none", holds |-> [r \in Readers |-> 0], waiting |-> {}]
RLocked(m, r) == IF m.writer = "none" THEN [m EXCEPT !.holds[r] = @ + 1]
                                      ELSE [m EXCEPT !.waiting = @ \cup {r}]
RUnlocked(m, r) == [m EXCEPT !.holds[r] = @ - 1]
(* Unlock lets everyone in who asked meanwhile.                            *)
Unlocked(m) ==
  [writer |-> "none", waiting |-> {},
   holds |-> [r \in Readers |-> IF r \in m.waiting THEN m.holds[r] + 1 ELSE m.holds[r]]]
Unread(m) == \A r \in Readers : m.holds[r] = 0

Idle == [op |-> "none", at |-> "idle", categories |-> 0, members |-> 0]
Init == /\ mutex = Free /\ import = "none"
        /\ read = [r \in Readers |-> Idle]

----------------------------------------------------------------------------
(* The import: the transaction commits, then the registries follow.        *)

CommitImport == /\ import = "none" /\ import' = "committed"
                /\ UNCHANGED <<mutex, read>>
AskLock == /\ import = "committed" /\ import' = "waiting"
           /\ mutex' = [mutex EXCEPT !.writer = "pending"]
           /\ UNCHANGED read
TakeLock == /\ import = "waiting" /\ Unread(mutex) /\ import' = "locked"
            /\ mutex' = [mutex EXCEPT !.writer = "held"]
            /\ UNCHANGED read
Swap == /\ import = "locked" /\ import' = "swapped"
        /\ UNCHANGED <<mutex, read>>
ReleaseLock == /\ import = "swapped" /\ import' = "installed"
               /\ mutex' = Unlocked(mutex)
               /\ UNCHANGED read
Import == AskLock \/ TakeLock \/ Swap \/ ReleaseLock

----------------------------------------------------------------------------
(* Readers.                                                                *)

Start(op) == CASE op = "listing" -> "list" [] op = "category" -> "enter"
               [] op = "definition" -> "define"
Ask(r, op) ==
  /\ read[r].at = "idle"
  /\ read' = [read EXCEPT ![r] = [Idle EXCEPT !.op = op, !.at = Start(op), !.categories = 1]]
  /\ UNCHANGED <<mutex, import>>

At(r, place) == read[r].at = place /\ r \notin mutex.waiting
MoveTo(r, place) == read' = [read EXCEPT ![r].at = place]

(* mergedCategories takes the names without registryMu.                    *)
ListCategories(r) ==
  /\ At(r, "list")
  /\ \E n \in 0..MaxCategories :
       read' = [read EXCEPT ![r].at = IF n = 0 THEN "done" ELSE "enter",
                            ![r].categories = n]
  /\ UNCHANGED <<mutex, import>>

(* mergedCategory                                                          *)
Enter(r) ==
  /\ At(r, "enter") /\ MoveTo(r, "overlay")
  /\ mutex' = RLocked(mutex, r)
  /\ UNCHANGED import
ReadOverlay(r) ==
  /\ At(r, "overlay")
  /\ \E n \in 0..MaxMembers :
       read' = [read EXCEPT ![r].at = "member", ![r].members = n]
  /\ UNCHANGED <<mutex, import>>
LookUp(r) ==
  /\ At(r, "member") /\ read[r].members > 0 /\ MoveTo(r, "known")
  /\ mutex' = RLocked(mutex, r)
  /\ UNCHANGED import
ReadMember(r) ==
  /\ At(r, "known")
  /\ read' = [read EXCEPT ![r].at = "member", ![r].members = @ - 1]
  /\ mutex' = RUnlocked(mutex, r)
  /\ UNCHANGED import
Leaving(r) ==
  /\ At(r, "member") /\ read[r].members = 0
  /\ read' = [read EXCEPT ![r].at = IF read[r].categories = 1 THEN "done" ELSE "enter",
                          ![r].categories = @ - 1]
Leave(r) ==
  /\ Leaving(r)
  /\ mutex' = RUnlocked(mutex, r)
  /\ UNCHANGED import

(* definition: baseDefinition, then listTuning.                            *)
Define(r) ==
  /\ At(r, "define") /\ MoveTo(r, "base")
  /\ mutex' = RLocked(mutex, r)
  /\ UNCHANGED import
ReadBase(r) ==
  /\ At(r, "base") /\ \E next \in {"tune", "done"} : MoveTo(r, next)
  /\ mutex' = RUnlocked(mutex, r)
  /\ UNCHANGED import
Tune(r) ==
  /\ At(r, "tune") /\ MoveTo(r, "tuning")
  /\ mutex' = RLocked(mutex, r)
  /\ UNCHANGED import
ReadTuning(r) ==
  /\ At(r, "tuning") /\ MoveTo(r, "done")
  /\ mutex' = RUnlocked(mutex, r)
  /\ UNCHANGED import

Finish(r) ==
  /\ At(r, "done") /\ read' = [read EXCEPT ![r] = Idle]
  /\ UNCHANGED <<mutex, import>>

Step(r) == \/ ListCategories(r) \/ Enter(r) \/ ReadOverlay(r) \/ LookUp(r) \/ ReadMember(r)
           \/ Leave(r) \/ Define(r) \/ ReadBase(r) \/ Tune(r) \/ ReadTuning(r) \/ Finish(r)

Next == \/ CommitImport \/ Import
        \/ \E r \in Readers : Step(r) \/ \E op \in Reads : Ask(r, op)

(* Goroutines run, and no reader waits for anything but the lock.          *)
Fairness == WF_vars(Import) /\ \A r \in Readers : WF_vars(Step(r))
Spec == Init /\ [][Next]_vars /\ Fairness

----------------------------------------------------------------------------
(* config_transfer.go:579: the swap cannot fail after the commit, so that  *)
(* what became durable is also what the registries hold.                   *)
ImportEnds == (import = "committed") ~> (import = "installed")
=============================================================================
