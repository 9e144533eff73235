------------------------ MODULE ObjectGroups_proofs ------------------------
(***************************************************************************)
(* Theorems about ObjectGroups, for every set of outputs, names, entries   *)
(* and files, every capacity of the router, every size of a request and    *)
(* any number of events from outside.                                      *)
(***************************************************************************)
EXTENDS ObjectGroups, FiniteSetTheorems, WellFoundedInduction, TLAPS

----------------------------------------------------------------------------
(* The inductive invariant.                                                *)

(* Ledgers, and what is made of a name.                                    *)
OnRecord(n) == \E o \in Outputs : n \in ledger[o]
Ours(config, n) == config[n].by = "routevane"
Free(n) == n \in Names \ (contested \cup stranded)
BackedUp == op.phase \in {"apply", "commands", "verify", "persist", "restore", "confirm"}

TypeOK ==
  /\ running \in Configuration /\ saved \in Configuration
  /\ ledger \in [Outputs -> SUBSET Names]
  /\ op \in Request
  /\ contested \subseteq Names /\ stranded \subseteq Names /\ upsets \in Nat

(* A name without a group has no entries and no route.                     *)
Tidy(config) == \A n \in Names : ~ Exists(config, n) => config[n] = Absent
ConfigurationsAreTidy == Tidy(running) /\ Tidy(saved) /\ Tidy(op.backup)

(* Where a request stands, and what it has read.                           *)
RequestIsSane ==
  /\ op.file \in Files[op.output] \cup {Nothing}
  /\ op.phase = "idle" => op.file = Nothing
  /\ op.phase \in {"idle", "prepare"} => op.owned = {}
  /\ op.phase \notin {"idle", "prepare"} => op.owned = ledger[op.output]
  /\ op.sent => op.phase \in {"commands", "verify", "persist", "restore", "confirm"}
  /\ op.phase \in {"commands", "restore", "confirm"} => op.sent
  /\ op.refused => op.phase \in {"commands", "restore", "confirm"} /\ ~ op.calm
  /\ \A o, p \in Outputs : o # p => ledger[o] \cap ledger[p] = {}

(* The lines that are left.                                                *)
Pends(do, n, e) == \E c \in op.todo : c.do = do /\ c.name = n /\ c.entry = e
Pending(do, n) == \E c \in op.todo : c.do = do /\ c.name = n
SaveLine == Line("save", CHOOSE n \in Names : TRUE)
LinesAreOurs ==
  op.phase = "commands" =>
    /\ \A c \in op.todo : /\ c.do \in {"unroute", "drop"} => c.name \in Scope(op)
                          /\ c.do = "drop" => c.name \in op.owned \ Wanted(op.file)
                          /\ c.do \in {"create", "exclude", "include", "route"} => c.name \in Wanted(op.file)
                          /\ c.do = "save" => c = SaveLine
    /\ op.todo # {} => SaveLine \in op.todo

(* A name nobody else has touched: the lines that are left make of its     *)
(* group what the file says, and change it only while it is not routed.    *)
Steady(n) == op.calm \/ n \notin contested
LinesCompleteTheFile ==
  op.phase = "commands" =>
    \A n \in Names : Steady(n) =>
      /\ n \in Wanted(op.file) /\ (Exists(running, n) \/ Pending("create", n)) =>
           \A e \in Entries :
             e \in op.file[n] <=> \/ e \in running[n].entries /\ ~ Pends("exclude", n, e)
                                  \/ Pends("include", n, e)
      /\ \A e \in Entries : Pends("include", n, e) => e \notin running[n].entries
      /\ Pending("exclude", n) \/ Pending("include", n) \/ Pending("drop", n) =>
           running[n].route = "none" \/ Pending("unroute", n)

(* While nobody else acts, every line finds what it needs.                 *)
LinesFindRoom ==
  op.phase = "commands" /\ op.calm =>
    /\ \A n \in Names : Pending("include", n) \/ Pending("route", n) =>
         Exists(running, n) \/ Pending("create", n)
    /\ \A n \in op.owned \ Wanted(op.file) : Exists(running, n) => Pending("drop", n)
    /\ ~ Overfull(op, running)

(* A routed group is whole, also in the saved configuration and in the     *)
(* backup.                                                                 *)
Whole(config) ==
  \A n \in Names \ contested :
    Ours(config, n) /\ config[n].route # "none" =>
      \E o \in Outputs : \E file \in Files[o] : config[n].entries = file[n]
GroupsAreWhole == Whole(running) /\ Whole(saved) /\ (BackedUp => Whole(op.backup))

(* Between requests, and for names a request does not change, the ledgers  *)
(* name what Routevane made.                                               *)
Settled(n) == n \notin Scope(op) \/ ~ op.sent \/ op.phase = "confirm"
LedgersNameOurs ==
  /\ \A n \in Names : Free(n) /\ Settled(n) =>
       (Ours(running, n) <=> OnRecord(n)) /\ (Ours(saved, n) <=> OnRecord(n))
  /\ BackedUp => \A n \in Names : Free(n) => (Ours(op.backup, n) <=> OnRecord(n))

(* No line meets a group of somebody else's.                               *)
NobodyElses ==
  /\ \A n \in Names \ contested : OnRecord(n) =>
       /\ running[n].by # "operator" /\ saved[n].by # "operator"
       /\ BackedUp => op.backup[n].by # "operator"
  /\ op.phase \in {"commands", "verify", "persist"} =>
       \A n \in Scope(op) \ contested : running[n].by # "operator"

(* A delivery that has come through is what the file says, and is saved.   *)
DeliveredIsSaved ==
  /\ (op.phase \in {"verify", "persist"} /\ op.sent) \/ (op.phase = "commands" /\ op.todo = {}) =>
       \A n \in Scope(op) \ contested : saved[n] = running[n]
  /\ op.phase = "persist" =>
       \A n \in Scope(op) \ contested : n \in Wanted(op.file) <=> Exists(running, n)
  /\ op.phase \in {"verify", "persist"} /\ ~ op.sent => Wanted(op.file) \subseteq op.owned

GInv ==
  /\ TypeOK /\ ConfigurationsAreTidy /\ RequestIsSane /\ LinesAreOurs /\ LinesCompleteTheFile
  /\ LinesFindRoom /\ GroupsAreWhole /\ LedgersNameOurs /\ NobodyElses /\ DeliveredIsSaved

----------------------------------------------------------------------------
(* The next line.                                                          *)

LEMMA LeastNumber ==
  ASSUME NEW S, S \subseteq Nat, S # {}
  PROVE  \E m \in S : \A n \in S : m <= n
<1>1. PICK m \in S : \A n \in S : ~ (<<n, m>> \in OpToRel(<, Nat))
  BY WFMin, NatLessThanWellFounded, Zenon
<1>2. ASSUME NEW n \in S PROVE m <= n
  <2>1. m \in Nat /\ n \in Nat
    OBVIOUS
  <2>2. ~ (n < m)
    BY <1>1, <2>1 DEF OpToRel
  <2> QED
    BY <2>1, <2>2
<1> QED
  BY <1>2

LEMMA CommandFacts ==
  ASSUME NEW c \in Commands
  PROVE  /\ c.do \in {"unroute", "drop", "create", "exclude", "include", "route", "save"}
         /\ c.name \in Names /\ c.entry \in Entries
         /\ c.name \in Nat /\ c.entry \in Nat
         /\ c = [do |-> c.do, name |-> c.name, entry |-> c.entry]
BY NumbersAssumption DEF Commands

LEMMA OrderNumbers ==
  ASSUME NEW file, NEW c \in Commands
  PROVE  Part(file, c) \in 1 .. 3 /\ Stage(c.do) \in 1 .. 6
BY CommandFacts DEF Part, Stage

(* Two lines of the same place do the same.                                *)
LEMMA StageTells ==
  ASSUME NEW file, NEW c \in Commands, NEW d \in Commands,
         Part(file, c) = Part(file, d), Stage(c.do) = Stage(d.do)
  PROVE  c.do = d.do
<1>1. /\ c.do \in {"unroute", "drop", "create", "exclude", "include", "route", "save"}
      /\ d.do \in {"unroute", "drop", "create", "exclude", "include", "route", "save"}
  BY CommandFacts
<1>2. c.do = "save" <=> d.do = "save"
  BY DEF Part
<1> QED
  BY <1>1, <1>2 DEF Stage

LEMMA FirstLine ==
  ASSUME NEW r, r.todo \subseteq Commands, r.todo # {}
  PROVE  /\ NextLine(r) \in r.todo
         /\ \A d \in r.todo \ {NextLine(r)} : Comes(r.file, NextLine(r), d)
<1> PICK todo : todo = r.todo
  OBVIOUS
<1> PICK file : file = r.file
  OBVIOUS
<1>0. \A c \in todo : /\ Part(file, c) \in Nat /\ c.name \in Nat /\ Stage(c.do) \in Nat
                      /\ c.entry \in Nat /\ c = [do |-> c.do, name |-> c.name, entry |-> c.entry]
  BY CommandFacts, OrderNumbers
<1>1. PICK p \in {Part(file, c) : c \in todo} : \A q \in {Part(file, c) : c \in todo} : p <= q
  <2> DEFINE S == {Part(file, c) : c \in todo}
  <2>1. S \subseteq Nat /\ S # {}
    BY <1>0
  <2> HIDE DEF S
  <2>2. \E m \in S : \A n \in S : m <= n
    BY <2>1, LeastNumber
  <2> QED
    BY <2>2 DEF S
<1> PICK ps : ps = {c \in todo : Part(file, c) = p}
  OBVIOUS
<1>2. PICK n \in {c.name : c \in ps} : \A m \in {c.name : c \in ps} : n <= m
  <2> DEFINE S == {c.name : c \in ps}
  <2>1. S \subseteq Nat /\ S # {}
    BY <1>0, <1>1
  <2> HIDE DEF S
  <2>2. \E m \in S : \A k \in S : m <= k
    BY <2>1, LeastNumber
  <2> QED
    BY <2>2 DEF S
<1> PICK ns : ns = {c \in ps : c.name = n}
  OBVIOUS
<1>3. PICK s \in {Stage(c.do) : c \in ns} : \A m \in {Stage(c.do) : c \in ns} : s <= m
  <2> DEFINE S == {Stage(c.do) : c \in ns}
  <2>1. S \subseteq Nat /\ S # {}
    BY <1>0, <1>2
  <2> HIDE DEF S
  <2>2. \E m \in S : \A k \in S : m <= k
    BY <2>1, LeastNumber
  <2> QED
    BY <2>2 DEF S
<1> PICK ss : ss = {c \in ns : Stage(c.do) = s}
  OBVIOUS
<1>4. PICK e \in {c.entry : c \in ss} : \A m \in {c.entry : c \in ss} : e <= m
  <2> DEFINE S == {c.entry : c \in ss}
  <2>1. S \subseteq Nat /\ S # {}
    BY <1>0, <1>3
  <2> HIDE DEF S
  <2>2. \E m \in S : \A k \in S : m <= k
    BY <2>1, LeastNumber
  <2> QED
    BY <2>2 DEF S
<1>5. PICK c \in ss : c.entry = e
  BY <1>4
<1>6. c \in todo /\ Part(file, c) = p /\ c.name = n /\ Stage(c.do) = s
  OBVIOUS
<1>7. ASSUME NEW d \in todo \ {c} PROVE Comes(file, c, d)
  <2>0. /\ Part(file, d) \in Nat /\ d.name \in Nat /\ Stage(d.do) \in Nat /\ d.entry \in Nat
        /\ p \in Nat /\ n \in Nat /\ s \in Nat /\ e \in Nat
    BY <1>0, <1>5, <1>6
  <2>1. p <= Part(file, d)
    BY <1>1
  <2>2. CASE Part(file, d) # p
    BY <1>6, <2>0, <2>1, <2>2 DEF Comes
  <2>3. CASE Part(file, d) = p
    <3>1. d \in ps /\ n <= d.name
      BY <1>2, <2>3
    <3>2. CASE d.name # n
      BY <1>6, <2>0, <2>3, <3>1, <3>2 DEF Comes
    <3>3. CASE d.name = n
      <4>1. d \in ns /\ s <= Stage(d.do)
        BY <1>3, <3>1, <3>3
      <4>2. CASE Stage(d.do) # s
        BY <1>6, <2>0, <2>3, <3>3, <4>1, <4>2 DEF Comes
      <4>3. CASE Stage(d.do) = s
        <5>1. d \in ss /\ e <= d.entry
          BY <1>4, <4>1, <4>3
        <5>2. d.entry # e
          <6> SUFFICES ASSUME d.entry = e PROVE FALSE
            OBVIOUS
          <6>1. c.do = d.do
            BY <1>6, <2>3, <4>3, StageTells
          <6>2. c = [do |-> c.do, name |-> c.name, entry |-> c.entry]
            BY <1>0, <1>6
          <6>3. d = [do |-> d.do, name |-> d.name, entry |-> d.entry]
            BY <1>0
          <6>4. c = d
            BY <1>5, <1>6, <3>3, <6>1, <6>2, <6>3
          <6> QED
            BY <6>4
        <5> QED
          BY <1>5, <1>6, <2>0, <2>3, <3>3, <4>3, <5>1, <5>2 DEF Comes
      <4> QED
        BY <4>2, <4>3
    <3> QED
      BY <3>2, <3>3
  <2> QED
    BY <2>2, <2>3
<1>8. \E x \in todo : \A d \in todo \ {x} : Comes(file, x, d)
  BY <1>6, <1>7
<1> QED
  BY <1>8 DEF NextLine

(* What is no longer to come when a line is the next.                      *)
LEMMA NextLineIsFirst ==
  ASSUME TypeOK, LinesAreOurs, op.phase = "commands", op.todo # {}, NEW c, c = NextLine(op)
  PROVE  /\ c \in op.todo /\ c \in Commands
         /\ c.do = "save" => op.todo = {c}
         /\ c.do # "save" => \A d \in op.todo : d.do # "save" =>
              /\ d.name = c.name => Stage(c.do) <= Stage(d.do)
              /\ c.name \in Wanted(op.file) => d.name \in Wanted(op.file)
<1>1. op.todo \subseteq Commands
  BY DEF TypeOK, Request
<1>2. c \in op.todo /\ \A d \in op.todo \ {c} : Comes(op.file, c, d)
  BY <1>1, FirstLine
<1>3. c \in Commands /\ Part(op.file, c) \in 1 .. 3 /\ Stage(c.do) \in 1 .. 6 /\ c.name \in Nat
  BY <1>1, <1>2, OrderNumbers, CommandFacts
<1>4. ASSUME NEW d \in op.todo, d # c
      PROVE  /\ c.do # "save"
             /\ d.do # "save" => /\ d.name = c.name => Stage(c.do) <= Stage(d.do)
                                 /\ c.name \in Wanted(op.file) => d.name \in Wanted(op.file)
  <2>1. /\ Comes(op.file, c, d) /\ Part(op.file, d) \in 1 .. 3 /\ Stage(d.do) \in 1 .. 6
        /\ d.name \in Nat /\ d.entry \in Nat /\ c.entry \in Nat
    BY <1>1, <1>2, <1>4, OrderNumbers, CommandFacts
  <2>2. Part(op.file, c) <= Part(op.file, d)
    BY <1>3, <2>1 DEF Comes
  <2>3. c.do # "save"
    <3> SUFFICES ASSUME c.do = "save" PROVE FALSE
      OBVIOUS
    <3>1. Part(op.file, c) = 3 /\ Part(op.file, d) = 3 /\ d.do = "save"
      BY <1>3, <2>1, <2>2 DEF Part
    <3>2. c = SaveLine /\ d = SaveLine
      BY <1>2, <1>4, <3>1 DEF LinesAreOurs
    <3> QED
      BY <1>4, <3>2
  <2> QED
    BY <1>3, <2>1, <2>2, <2>3 DEF Part, Comes
<1> QED
  BY <1>2, <1>3, <1>4

----------------------------------------------------------------------------
(* Requests that begin, go on and end.                                     *)

LEMMA IdleFacts ==
  /\ Idle \in Request
  /\ Idle.phase = "idle" /\ Idle.file = Nothing /\ Idle.owned = {} /\ Idle.todo = {}
  /\ Idle.sent = FALSE /\ Idle.refused = FALSE /\ Idle.calm = TRUE
  /\ Idle.backup = [n \in Names |-> Absent]
<1>1. Nothing \in [Names -> SUBSET Entries]
  BY DEF Nothing
<1>2. Absent \in Group
  BY DEF Absent, Group, Makers, Routes
<1>3. [n \in Names |-> Absent] \in Configuration
  BY <1>2 DEF Configuration
<1>4. (CHOOSE o \in Outputs : TRUE) \in Outputs
  BY NumbersAssumption
<1>5. 0 \in 0 .. MaxParseCommands
  BY BoundsAssumption
<1> QED
  BY <1>1, <1>3, <1>4, <1>5 DEF Idle, Request, Phases

LEMMA OpFacts ==
  ASSUME TypeOK
  PROVE  /\ op.phase \in Phases /\ op.output \in Outputs /\ op.file \in [Names -> SUBSET Entries]
         /\ op.owned \subseteq Names /\ op.backup \in Configuration /\ op.todo \subseteq Commands
         /\ op.room \in 0 .. MaxParseCommands
         /\ op.sent \in BOOLEAN /\ op.refused \in BOOLEAN /\ op.calm \in BOOLEAN
BY DEF TypeOK, Request

LEMMA GotoFacts ==
  ASSUME TypeOK, NEW p \in Phases, op' = [op EXCEPT !.phase = p]
  PROVE  /\ op' \in Request /\ op'.phase = p
         /\ op'.output = op.output /\ op'.file = op.file /\ op'.owned = op.owned
         /\ op'.backup = op.backup /\ op'.todo = op.todo /\ op'.room = op.room
         /\ op'.sent = op.sent /\ op'.refused = op.refused /\ op'.calm = op.calm
BY DEF TypeOK, Request

(* A request ends: what is not settled is left behind.                     *)
LEMMA Ends ==
  ASSUME GInv, op' = Idle, UNCHANGED <<router, ledger, contested>>,
         stranded \subseteq stranded', stranded' \subseteq Names, upsets' \in Nat,
         op.sent => Scope(op) \subseteq stranded' \/ op.phase = "confirm"
  PROVE  GInv'
<1> USE DEF router
<1>1. TypeOK'
  BY IdleFacts DEF GInv, TypeOK
<1>2. ConfigurationsAreTidy'
  BY IdleFacts DEF GInv, ConfigurationsAreTidy, Tidy, Exists
<1>3. RequestIsSane'
  BY IdleFacts DEF GInv, RequestIsSane
<1>4. LinesAreOurs' /\ LinesCompleteTheFile' /\ LinesFindRoom' /\ DeliveredIsSaved'
  BY IdleFacts DEF LinesAreOurs, LinesCompleteTheFile, LinesFindRoom, DeliveredIsSaved
<1>5. GroupsAreWhole'
  BY IdleFacts DEF GInv, GroupsAreWhole, Whole, Ours, BackedUp
<1>6. LedgersNameOurs'
  <2>1. ASSUME NEW n \in Names, Free(n)' PROVE Free(n) /\ Settled(n)
    BY <2>1 DEF Free, Settled
  <2>2. ~ BackedUp'
    BY IdleFacts DEF BackedUp
  <2> QED
    BY <2>1, <2>2 DEF GInv, LedgersNameOurs, Ours, OnRecord
<1>7. NobodyElses'
  BY IdleFacts DEF GInv, NobodyElses, OnRecord, BackedUp
<1> QED
  BY <1>1, <1>2, <1>3, <1>4, <1>5, <1>6, <1>7 DEF GInv

(* A request goes on, and nothing but its phase changes.                   *)
LEMMA Moves ==
  ASSUME GInv, UNCHANGED <<router, ledger, history>>,
         NEW p \in {"restore", "verify", "persist"}, op' = [op EXCEPT !.phase = p],
         op.phase \in {"commands", "verify", "persist"},
         p = "restore" => op.sent,
         p = "verify" => op.phase = "commands" /\ op.todo = {} /\ ~ op.refused,
         p = "persist" => op.phase = "verify" /\ Holds(op, running)
  PROVE  GInv'
<1> USE DEF router, history
<1>0. TypeOK /\ p \in Phases
  BY DEF GInv, Phases
<1>f. /\ op' \in Request /\ op'.phase = p
      /\ op'.output = op.output /\ op'.file = op.file /\ op'.owned = op.owned
      /\ op'.backup = op.backup /\ op'.todo = op.todo /\ op'.room = op.room
      /\ op'.sent = op.sent /\ op'.refused = op.refused /\ op'.calm = op.calm
  BY <1>0, GotoFacts
<1>s. Scope(op)' = Scope(op) /\ Scope(op') = Scope(op)
  BY <1>f DEF Scope
<1>b. BackedUp
  BY DEF BackedUp
<1>1. TypeOK'
  BY <1>0, <1>f DEF TypeOK
<1>2. ConfigurationsAreTidy'
  BY <1>f DEF GInv, ConfigurationsAreTidy, Tidy, Exists
<1>3. RequestIsSane'
  BY <1>f DEF GInv, RequestIsSane
<1>4. LinesAreOurs' /\ LinesCompleteTheFile' /\ LinesFindRoom'
  BY <1>f DEF LinesAreOurs, LinesCompleteTheFile, LinesFindRoom
<1>5. GroupsAreWhole'
  BY <1>f, <1>b DEF GInv, GroupsAreWhole, Whole, Ours
<1>6. LedgersNameOurs'
  <2>1. ASSUME NEW n \in Names PROVE (Free(n)' => Free(n)) /\ (Settled(n)' => Settled(n))
    BY <1>f, <1>s DEF Free, Settled
  <2> QED
    BY <1>f, <1>b, <2>1 DEF GInv, LedgersNameOurs, Ours, OnRecord
<1>7. NobodyElses'
  BY <1>f, <1>b, <1>s DEF GInv, NobodyElses, OnRecord
<1>8. DeliveredIsSaved'
  <2>1. p = "persist" => \A n \in Scope(op) : n \in Wanted(op.file) <=> Exists(running, n)
    BY DEF Holds, Exists, Absent
  <2>2. p = "verify" => op.sent
    BY DEF GInv, RequestIsSane
  <2>3. Wanted(op'.file) = Wanted(op.file)
    BY <1>f
  <2> QED
    BY <1>f, <1>s, <2>1, <2>2, <2>3 DEF GInv, DeliveredIsSaved, Exists
<1> QED
  BY <1>1, <1>2, <1>3, <1>4, <1>5, <1>6, <1>7, <1>8 DEF GInv

(* A request goes on that has not submitted anything.                      *)
LEMMA Prepares ==
  ASSUME GInv, UNCHANGED <<router, ledger, history>>, ~ op.sent,
         op' \in Request, op'.phase \in {"prepare", "backup", "apply"},
         ~ op'.sent, ~ op'.refused, op'.file \in Files[op'.output] \cup {Nothing},
         op'.phase = "prepare" => op'.owned = {},
         op'.phase # "prepare" => op'.owned = ledger[op'.output],
         op'.backup = saved \/ (op'.phase # "apply" /\ Tidy(op'.backup))
  PROVE  GInv'
<1> USE DEF router, history
<1>1. TypeOK'
  BY DEF GInv, TypeOK
<1>2. ConfigurationsAreTidy'
  BY DEF GInv, ConfigurationsAreTidy, Tidy, Exists
<1>3. RequestIsSane'
  BY DEF GInv, RequestIsSane
<1>4. LinesAreOurs' /\ LinesCompleteTheFile' /\ LinesFindRoom' /\ DeliveredIsSaved'
  BY DEF LinesAreOurs, LinesCompleteTheFile, LinesFindRoom, DeliveredIsSaved
<1>5. GroupsAreWhole'
  BY DEF GInv, GroupsAreWhole, Whole, Ours, BackedUp
<1>6. LedgersNameOurs'
  <2>1. ASSUME NEW n \in Names, Free(n)'
        PROVE  (Ours(running, n) <=> OnRecord(n)) /\ (Ours(saved, n) <=> OnRecord(n))
    BY <2>1 DEF Free, Settled, GInv, LedgersNameOurs
  <2> QED
    BY <2>1 DEF LedgersNameOurs, Ours, OnRecord, BackedUp
<1>7. NobodyElses'
  BY DEF GInv, NobodyElses, OnRecord, BackedUp
<1> QED
  BY <1>1, <1>2, <1>3, <1>4, <1>5, <1>6, <1>7 DEF GInv

----------------------------------------------------------------------------
(* The steps that submit no command.                                       *)

LEMMA ReceiveKeeps ==
  ASSUME GInv, NEW o \in Outputs, NEW file \in Files[o] \cup {Nothing}, Receive(o, file)
  PROVE  GInv'
<1>1. ~ op.sent
  BY DEF GInv, RequestIsSane, Receive
<1>2. file \in [Names -> SUBSET Entries]
  BY FilesAssumption DEF Nothing
<1>3. /\ op' \in Request /\ op'.phase = "prepare" /\ op'.output = o /\ op'.file = file
      /\ op'.owned = {} /\ op'.sent = FALSE /\ op'.refused = FALSE
      /\ op'.backup = [n \in Names |-> Absent]
  BY <1>2, IdleFacts DEF Receive, Request, Phases
<1>4. Tidy(op'.backup)
  BY <1>3 DEF Tidy
<1> QED
  BY <1>1, <1>3, <1>4, Prepares DEF Receive

LEMMA QuietEnd ==
  ASSUME GInv, Finish, UNCHANGED <<router, ledger, history>>, ~ op.sent
  PROVE  GInv'
BY Ends DEF Finish, history, GInv, TypeOK

LEMMA ReadyKeeps ==
  ASSUME GInv, op.phase = "prepare", op' = Ready, UNCHANGED <<router, ledger, history>>
  PROVE  GInv'
<1>0. TypeOK /\ op \in Request /\ ledger[op.output] \in SUBSET Names
  BY DEF GInv, TypeOK, Request
<1>1. ~ op.sent /\ ~ op.refused
  BY DEF GInv, RequestIsSane
<1>2. /\ op' \in Request /\ op'.phase = "backup" /\ op'.output = op.output /\ op'.file = op.file
      /\ op'.owned = ledger[op.output] /\ op'.sent = op.sent /\ op'.refused = op.refused
      /\ op'.backup = op.backup
  BY <1>0 DEF Ready, Request, Phases
<1>3. Tidy(op'.backup) /\ op'.file \in Files[op'.output] \cup {Nothing}
  BY <1>2 DEF GInv, ConfigurationsAreTidy, RequestIsSane
<1> QED
  BY <1>1, <1>2, <1>3, Prepares

LEMMA PrepareKeeps ==
  ASSUME GInv, Prepare \/ PrepareRemoval
  PROVE  GInv'
<1>1. ~ op.sent
  BY DEF GInv, RequestIsSane, Prepare, PrepareRemoval
<1> QED
  BY <1>1, QuietEnd, ReadyKeeps DEF Prepare, PrepareRemoval

LEMMA TakeBackupKeeps ==
  ASSUME GInv, TakeBackup
  PROVE  GInv'
<1>0. op \in Request /\ saved \in Configuration
  BY DEF GInv, TypeOK
<1>1. ~ op.sent /\ ~ op.refused /\ op.owned = ledger[op.output]
  BY DEF GInv, RequestIsSane, TakeBackup
<1>2. /\ op' \in Request /\ op'.phase = "apply" /\ op'.output = op.output /\ op'.file = op.file
      /\ op'.owned = op.owned /\ op'.sent = op.sent /\ op'.refused = op.refused
      /\ op'.backup = saved
  BY <1>0 DEF TakeBackup, Request, Phases
<1>3. op'.file \in Files[op'.output] \cup {Nothing}
  BY <1>2 DEF GInv, RequestIsSane
<1>4. /\ op'.phase \in {"prepare", "backup", "apply"} /\ op'.phase # "prepare"
      /\ ~ op'.sent /\ ~ op'.refused /\ op'.owned = ledger[op'.output]
  BY <1>1, <1>2
<1>5. UNCHANGED <<router, ledger, history>>
  BY DEF TakeBackup
<1> QED
  BY <1>1, <1>2, <1>3, <1>4, <1>5, Prepares

LEMMA FailKeeps ==
  ASSUME GInv, Fail, UNCHANGED <<router, ledger, history>>,
         op.phase \in {"prepare", "backup", "apply", "commands", "verify", "persist"}
  PROVE  GInv'
<1>1. CASE op.sent
  <2>1. op.phase \in {"commands", "verify", "persist"}
    BY <1>1 DEF GInv, RequestIsSane
  <2> QED
    BY <1>1, <2>1, Moves DEF Fail, Goto
<1>2. CASE ~ op.sent
  BY <1>2, QuietEnd DEF Fail
<1> QED
  BY <1>1, <1>2

LEMMA RoomKeeps ==
  ASSUME GInv, op.phase = "commands", ~ op.refused, op' = [op EXCEPT !.room = MaxParseCommands],
         UNCHANGED <<router, ledger, history>>
  PROVE  GInv'
<1> USE DEF router, history
<1>f. /\ op' \in Request /\ op'.phase = op.phase
      /\ op'.output = op.output /\ op'.file = op.file /\ op'.owned = op.owned
      /\ op'.backup = op.backup /\ op'.todo = op.todo
      /\ op'.sent = op.sent /\ op'.refused = op.refused /\ op'.calm = op.calm
  BY BoundsAssumption DEF GInv, TypeOK, Request
<1>1. TypeOK'
  BY <1>f DEF GInv, TypeOK
<1>2. ConfigurationsAreTidy'
  BY <1>f DEF GInv, ConfigurationsAreTidy, Tidy, Exists
<1>3. RequestIsSane'
  BY <1>f DEF GInv, RequestIsSane
<1>4. LinesAreOurs' /\ DeliveredIsSaved'
  BY <1>f DEF GInv, LinesAreOurs, DeliveredIsSaved, Scope, Wanted, Exists
<1>5. LinesCompleteTheFile'
  BY <1>f DEF GInv, LinesCompleteTheFile, Steady, Pending, Pends, Wanted, Exists
<1>6. LinesFindRoom'
  BY <1>f DEF GInv, LinesFindRoom, Pending, Wanted, Exists, Overfull, GroupsAfter, Present
<1>7. GroupsAreWhole'
  BY <1>f DEF GInv, GroupsAreWhole, Whole, Ours, BackedUp
<1>8. LedgersNameOurs'
  BY <1>f DEF GInv, LedgersNameOurs, Ours, OnRecord, Free, Settled, Scope, Wanted, BackedUp
<1>9. NobodyElses'
  BY <1>f DEF GInv, NobodyElses, OnRecord, Scope, Wanted, BackedUp
<1> QED
  BY <1>1, <1>2, <1>3, <1>4, <1>5, <1>6, <1>7, <1>8, <1>9 DEF GInv

LEMMA AnswerKeeps ==
  ASSUME GInv, Answer
  PROVE  GInv'
<1>1. op.phase = "commands" /\ op.sent /\ UNCHANGED <<router, ledger, history>>
  BY DEF GInv, RequestIsSane, Answer
<1>2. CASE op.refused
  BY <1>1, <1>2, Moves DEF Answer, Goto
<1>3. CASE ~ op.refused /\ op.todo = {}
  BY <1>1, <1>3, Moves DEF Answer, Goto
<1>4. CASE ~ op.refused /\ op.todo # {}
  BY <1>1, <1>4, RoomKeeps DEF Answer
<1> QED
  BY <1>2, <1>3, <1>4

LEMMA VerifyKeeps ==
  ASSUME GInv, Verify
  PROVE  GInv'
<1>1. CASE ~ Unsupported(op, running) /\ Holds(op, running)
  BY <1>1, Moves DEF Verify, Goto
<1>2. CASE ~ (~ Unsupported(op, running) /\ Holds(op, running))
  BY <1>2, FailKeeps DEF Verify
<1> QED
  BY <1>1, <1>2

LEMMA StepFailsKeeps ==
  ASSUME GInv, StepFails
  PROVE  GInv'
BY FailKeeps DEF StepFails

LEMMA RestoreFailsKeeps ==
  ASSUME GInv, RestoreFails
  PROVE  GInv'
<1>1. TypeOK /\ Scope(op) \subseteq Names
  BY DEF GInv, TypeOK, Request, Scope, Wanted
<1> QED
  BY <1>1, Ends DEF RestoreFails, Finish, TypeOK

LEMMA CrashKeeps ==
  ASSUME GInv, Crash
  PROVE  GInv'
<1>1. TypeOK /\ Scope(op) \subseteq Names
  BY DEF GInv, TypeOK, Request, Scope, Wanted
<1> QED
  BY <1>1, Ends DEF Crash, Finish, TypeOK

LEMMA UploadBackupKeeps ==
  ASSUME GInv, UploadBackup
  PROVE  GInv'
<1> USE DEF history
<1>0. TypeOK /\ "confirm" \in Phases /\ op.phase = "restore" /\ op' = [op EXCEPT !.phase = "confirm"]
  BY DEF GInv, Phases, UploadBackup, Goto
<1>f. /\ op' \in Request /\ op'.phase = "confirm"
      /\ op'.output = op.output /\ op'.file = op.file /\ op'.owned = op.owned
      /\ op'.backup = op.backup /\ op'.todo = op.todo /\ op'.room = op.room
      /\ op'.sent = op.sent /\ op'.refused = op.refused /\ op'.calm = op.calm
  BY <1>0, GotoFacts
<1>u. running' = op.backup /\ saved' = op.backup /\ UNCHANGED <<ledger, history>>
  BY DEF UploadBackup
<1>b. BackedUp /\ op.backup \in Configuration /\ Tidy(op.backup)
  BY <1>0, OpFacts DEF BackedUp, GInv, ConfigurationsAreTidy
<1>1. TypeOK'
  BY <1>0, <1>f, <1>u, <1>b DEF TypeOK
<1>2. ConfigurationsAreTidy'
  BY <1>f, <1>u, <1>b DEF ConfigurationsAreTidy, Tidy, Exists
<1>3. RequestIsSane'
  BY <1>0, <1>f, <1>u DEF GInv, RequestIsSane
<1>4. LinesAreOurs' /\ LinesCompleteTheFile' /\ LinesFindRoom' /\ DeliveredIsSaved'
  BY <1>f DEF LinesAreOurs, LinesCompleteTheFile, LinesFindRoom, DeliveredIsSaved
<1>5. GroupsAreWhole'
  BY <1>f, <1>u, <1>b DEF GInv, GroupsAreWhole, Whole, Ours
<1>6. LedgersNameOurs'
  BY <1>f, <1>u, <1>b DEF GInv, LedgersNameOurs, Ours, OnRecord, Free
<1>7. NobodyElses'
  BY <1>f, <1>u, <1>b DEF GInv, NobodyElses, OnRecord
<1> QED
  BY <1>1, <1>2, <1>3, <1>4, <1>5, <1>6, <1>7 DEF GInv

LEMMA ConfirmRestoredKeeps ==
  ASSUME GInv, ConfirmRestored
  PROVE  GInv'
<1> USE DEF history
<1>u. /\ op.phase = "confirm" /\ op' = Idle /\ saved' = running /\ running' = running
      /\ UNCHANGED <<ledger, history>>
  BY DEF ConfirmRestored, Finish
<1>1. TypeOK'
  BY <1>u, IdleFacts DEF GInv, TypeOK
<1>2. ConfigurationsAreTidy'
  BY <1>u, IdleFacts DEF GInv, ConfigurationsAreTidy, Tidy, Exists
<1>3. RequestIsSane'
  BY <1>u, IdleFacts DEF GInv, RequestIsSane
<1>4. LinesAreOurs' /\ LinesCompleteTheFile' /\ LinesFindRoom' /\ DeliveredIsSaved'
  BY <1>u, IdleFacts DEF LinesAreOurs, LinesCompleteTheFile, LinesFindRoom, DeliveredIsSaved
<1>5. GroupsAreWhole'
  BY <1>u, IdleFacts DEF GInv, GroupsAreWhole, Whole, Ours, BackedUp
<1>6. LedgersNameOurs'
  <2>1. ASSUME NEW n \in Names, Free(n)' PROVE Free(n) /\ Settled(n)
    BY <1>u, <2>1 DEF Free, Settled
  <2> QED
    BY <1>u, IdleFacts, <2>1 DEF GInv, LedgersNameOurs, Ours, OnRecord, BackedUp
<1>7. NobodyElses'
  BY <1>u, IdleFacts DEF GInv, NobodyElses, OnRecord, BackedUp
<1> QED
  BY <1>1, <1>2, <1>3, <1>4, <1>5, <1>6, <1>7 DEF GInv

LEMMA RetireKeeps ==
  ASSUME GInv, Retire
  PROVE  GInv'
<1>u. /\ op.phase = "idle" /\ UNCHANGED <<running, saved, op, contested, upsets>>
      /\ ledger' = [o \in Outputs |-> {}]
      /\ stranded' = stranded \cup UNION { ledger[o] : o \in Outputs }
  BY DEF Retire, router
<1>s. op.owned = {} /\ ~ op.sent /\ ~ op.refused /\ ~ BackedUp
  BY <1>u DEF GInv, RequestIsSane, BackedUp
<1>r. \A n \in Names : ~ OnRecord(n)'
  BY <1>u DEF OnRecord
<1>1. TypeOK'
  BY <1>u DEF GInv, TypeOK
<1>2. ConfigurationsAreTidy'
  BY <1>u DEF GInv, ConfigurationsAreTidy, Tidy, Exists
<1>3. RequestIsSane'
  BY <1>u, <1>s DEF GInv, RequestIsSane
<1>4. LinesAreOurs' /\ LinesCompleteTheFile' /\ LinesFindRoom' /\ DeliveredIsSaved'
  BY <1>u DEF LinesAreOurs, LinesCompleteTheFile, LinesFindRoom, DeliveredIsSaved
<1>5. GroupsAreWhole'
  BY <1>u DEF GInv, GroupsAreWhole, Whole, Ours, BackedUp
<1>6. LedgersNameOurs'
  <2>1. ASSUME NEW n \in Names, Free(n)' PROVE Free(n) /\ Settled(n) /\ ~ OnRecord(n)
    BY <1>u, <1>s, <2>1 DEF Free, Settled, OnRecord
  <2> QED
    BY <1>u, <1>s, <1>r, <2>1 DEF GInv, LedgersNameOurs, Ours, BackedUp
<1>7. NobodyElses'
  BY <1>u, <1>r DEF GInv, NobodyElses
<1> QED
  BY <1>1, <1>2, <1>3, <1>4, <1>5, <1>6, <1>7 DEF GInv

(* What was verified goes on record, and everything it names is there.     *)
LEMMA PersistKeeps ==
  ASSUME GInv, Persist
  PROVE  GInv'
<1>1. CASE \A o \in Outputs \ {op.output} : ledger[o] \cap Wanted(op.file) = {}
  <2> USE DEF history, router
  <2> PICK w : w = Wanted(op.file)
    OBVIOUS
  <2>u. /\ op.phase = "persist" /\ op' = Idle /\ UNCHANGED <<router, history>>
        /\ ledger' = [ledger EXCEPT ![op.output] = w]
    BY <1>1 DEF Persist, Finish, Recorded
  <2>t. TypeOK /\ op.output \in Outputs /\ w \subseteq Names /\ op.owned = ledger[op.output]
        /\ Scope(op) = w \cup op.owned
    BY <2>u DEF GInv, TypeOK, Request, RequestIsSane, Wanted, Scope
  <2>l. /\ ledger' \in [Outputs -> SUBSET Names] /\ ledger'[op.output] = w
        /\ \A o \in Outputs \ {op.output} : ledger'[o] = ledger[o] /\ ledger[o] \cap w = {}
    BY <1>1, <2>u, <2>t DEF TypeOK
  <2>d. \A o, p \in Outputs : o # p => ledger[o] \cap ledger[p] = {}
    BY DEF GInv, RequestIsSane
  <2>r. ASSUME NEW n \in Names
        PROVE  OnRecord(n)' <=> n \in w \/ (OnRecord(n) /\ n \notin op.owned)
    BY <2>t, <2>l, <2>d DEF OnRecord
  <2>s. ASSUME NEW n \in Scope(op) \ contested
        PROVE  (Ours(running, n) <=> n \in w) /\ running[n].by # "operator"
    <3>1. n \in Names /\ running[n].by \in Makers
      BY <2>t DEF TypeOK, Configuration, Group
    <3>2. running[n].by # "operator" /\ (n \in w <=> Exists(running, n))
      BY <2>u DEF GInv, NobodyElses, DeliveredIsSaved
    <3> QED
      BY <3>1, <3>2 DEF Ours, Exists, Makers
  <2>1. TypeOK'
    BY <2>u, <2>t, <2>l, IdleFacts DEF TypeOK
  <2>2. ConfigurationsAreTidy'
    BY <2>u, IdleFacts DEF GInv, ConfigurationsAreTidy, Tidy, Exists
  <2>3. RequestIsSane'
    <3>1. \A o, p \in Outputs : o # p => ledger'[o] \cap ledger'[p] = {}
      BY <2>l, <2>d
    <3> QED
      BY <2>u, <3>1, IdleFacts DEF RequestIsSane
  <2>4. LinesAreOurs' /\ LinesCompleteTheFile' /\ LinesFindRoom' /\ DeliveredIsSaved'
    BY <2>u, IdleFacts DEF LinesAreOurs, LinesCompleteTheFile, LinesFindRoom, DeliveredIsSaved
  <2>5. GroupsAreWhole'
    BY <2>u, IdleFacts DEF GInv, GroupsAreWhole, Whole, Ours, BackedUp
  <2>6. LedgersNameOurs'
    <3>1. ASSUME NEW n \in Names, Free(n)'
          PROVE  (Ours(running, n) <=> OnRecord(n)') /\ (Ours(saved, n) <=> OnRecord(n)')
      <4>1. Free(n) /\ n \notin contested
        BY <2>u, <3>1 DEF Free
      <4>2. CASE n \notin Scope(op)
        BY <2>r, <2>t, <4>1, <4>2 DEF GInv, LedgersNameOurs, Settled
      <4>3. CASE n \in Scope(op)
        <5>1. Ours(running, n) <=> OnRecord(n)'
          BY <2>r, <2>s, <2>t, <4>1, <4>3
        <5>2. CASE op.sent
          BY <2>u, <4>1, <4>3, <5>1, <5>2 DEF GInv, DeliveredIsSaved, Ours
        <5>3. CASE ~ op.sent
          BY <4>1, <5>1, <5>3 DEF GInv, LedgersNameOurs, Settled
        <5> QED
          BY <5>1, <5>2, <5>3
      <4> QED
        BY <4>2, <4>3
    <3> QED
      BY <2>u, <3>1, IdleFacts DEF LedgersNameOurs, Ours, BackedUp
  <2>7. NobodyElses'
    <3>1. ASSUME NEW n \in Names \ contested, OnRecord(n)'
          PROVE  running[n].by # "operator" /\ saved[n].by # "operator"
      <4>1. CASE OnRecord(n)
        BY <4>1 DEF GInv, NobodyElses
      <4>2. CASE ~ OnRecord(n)
        <5>1. n \in w /\ n \notin op.owned /\ n \in Scope(op) \ contested
          BY <2>r, <2>t, <3>1, <4>2 DEF OnRecord
        <5>2. op.sent
          BY <2>u, <5>1 DEF GInv, DeliveredIsSaved
        <5>3. saved[n] = running[n]
          BY <2>u, <5>1, <5>2 DEF GInv, DeliveredIsSaved
        <5> QED
          BY <2>s, <5>1, <5>3
      <4> QED
        BY <4>1, <4>2
    <3> QED
      BY <2>u, <3>1, IdleFacts DEF NobodyElses, BackedUp
  <2> QED
    BY <2>1, <2>2, <2>3, <2>4, <2>5, <2>6, <2>7 DEF GInv
<1>2. CASE ~ (\A o \in Outputs \ {op.output} : ledger[o] \cap Wanted(op.file) = {})
  BY <1>2, FailKeeps DEF Persist, router
<1> QED
  BY <1>1, <1>2

----------------------------------------------------------------------------
(* Events from outside.                                                    *)

(* A group that changes was in our hands, and counts as contested from     *)
(* then on, or it was none of ours.                                        *)
LEMMA Disturbs ==
  ASSUME GInv, NEW names \in SUBSET Names, Disturb(names),
         running' \in Configuration, saved' \in {saved, running}, Tidy(running'),
         \A n \in Names \ names : running'[n] = running[n],
         \A n \in names : running'[n].by \in {"operator", "nobody", running[n].by, saved[n].by}
  PROVE  GInv'
<1>0. TypeOK /\ Tidy(running) /\ Tidy(saved)
  BY DEF GInv, ConfigurationsAreTidy
<1>f. /\ op' \in Request /\ op'.phase = op.phase
      /\ op'.output = op.output /\ op'.file = op.file /\ op'.owned = op.owned
      /\ op'.backup = op.backup /\ op'.todo = op.todo /\ op'.room = op.room
      /\ op'.sent = op.sent /\ op'.refused = op.refused /\ op'.calm = FALSE
  BY <1>0 DEF Disturb, TypeOK, Request
<1>u. /\ ledger' = ledger /\ stranded' = stranded /\ upsets' = upsets + 1
      /\ contested' = contested \cup (names \cap InOurHands)
  BY DEF Disturb
<1>s. /\ Scope(op') = Scope(op) /\ Scope(op)' = Scope(op) /\ Wanted(op'.file) = Wanted(op.file)
      /\ (BackedUp' <=> BackedUp) /\ \A n \in Names : OnRecord(n)' <=> OnRecord(n)
  BY <1>f, <1>u DEF Scope, BackedUp, OnRecord
<1>h. ASSUME NEW n \in Names, n \notin contested', n \in Scope(op) \/ OnRecord(n) \/ n \in stranded
      PROVE  n \notin contested /\ n \notin names /\ running'[n] = running[n]
  BY <1>h, <1>u DEF InOurHands, OnRecord
<1>c. \A n \in Names : n \notin contested' => n \notin contested
  BY <1>u
<1>n. ASSUME NEW n \in names, n \notin contested'
      PROVE  /\ Free(n) /\ Settled(n) /\ ~ OnRecord(n) /\ n \notin Scope(op)
             /\ ~ Ours(running, n) /\ ~ Ours(saved, n) /\ ~ Ours(running', n)
  <2>1. n \notin Scope(op) /\ ~ OnRecord(n) /\ Free(n) /\ Settled(n)
    BY <1>h, <1>n, <1>c DEF Free, Settled
  <2>2. ~ Ours(running, n) /\ ~ Ours(saved, n)
    BY <2>1 DEF GInv, LedgersNameOurs
  <2> QED
    BY <2>1, <2>2 DEF Ours
<1>1. TypeOK'
  <2>1. saved' \in Configuration /\ contested' \subseteq Names /\ upsets' \in Nat
    BY <1>0, <1>u DEF TypeOK
  <2> QED
    BY <1>0, <1>f, <1>u, <2>1 DEF TypeOK
<1>2. ConfigurationsAreTidy'
  <2>1. Tidy(saved') /\ Tidy(op'.backup)
    BY <1>0, <1>f DEF GInv, ConfigurationsAreTidy
  <2> QED
    BY <2>1 DEF ConfigurationsAreTidy, Tidy, Exists
<1>3. RequestIsSane'
  BY <1>f, <1>u DEF GInv, RequestIsSane
<1>4. LinesAreOurs'
  BY <1>f, <1>s DEF GInv, LinesAreOurs
<1>5. LinesCompleteTheFile'
  <2> SUFFICES ASSUME op.phase = "commands", NEW n \in Names, n \notin contested'
               PROVE  /\ n \in Wanted(op.file) /\ (Exists(running', n) \/ Pending("create", n)) =>
                           \A e \in Entries :
                             e \in op.file[n] <=> \/ e \in running'[n].entries /\ ~ Pends("exclude", n, e)
                                                  \/ Pends("include", n, e)
                      /\ \A e \in Entries : Pends("include", n, e) => e \notin running'[n].entries
                      /\ Pending("exclude", n) \/ Pending("include", n) \/ Pending("drop", n) =>
                           running'[n].route = "none" \/ Pending("unroute", n)
    BY <1>f, <1>s DEF LinesCompleteTheFile, Steady, Pending, Pends, Exists
  <2>1. CASE running'[n] = running[n]
    BY <1>c, <2>1 DEF GInv, LinesCompleteTheFile, Steady, Exists
  <2>2. CASE running'[n] # running[n]
    <3>1. n \notin Scope(op)
      BY <1>h, <2>2
    <3>2. n \notin Wanted(op.file) /\ ~ Pending("exclude", n) /\ ~ Pending("include", n) /\ ~ Pending("drop", n)
      BY <3>1 DEF GInv, LinesAreOurs, Scope, Pending
    <3> QED
      BY <3>2 DEF Pending, Pends
  <2> QED
    BY <2>1, <2>2
<1>6. LinesFindRoom'
  BY <1>f DEF LinesFindRoom
<1>7. GroupsAreWhole'
  <2>1. ASSUME NEW n \in Names \ contested', Ours(running', n), running'[n].route # "none"
        PROVE  \E o \in Outputs : \E file \in Files[o] : running'[n].entries = file[n]
    <3>1. running'[n] = running[n] /\ n \notin contested
      BY <1>n, <1>c, <2>1
    <3> QED
      BY <2>1, <3>1 DEF GInv, GroupsAreWhole, Whole, Ours
  <2>2. Whole(saved) /\ Whole(running) /\ (BackedUp => Whole(op.backup))
    BY DEF GInv, GroupsAreWhole
  <2>3. Whole(saved)' /\ (BackedUp' => Whole(op.backup)')
    BY <1>c, <1>f, <1>s, <2>2 DEF Whole, Ours
  <2> QED
    BY <2>1, <2>3 DEF GroupsAreWhole, Whole, Ours
<1>8. LedgersNameOurs'
  <2>1. ASSUME NEW n \in Names, Free(n)'
        PROVE  /\ Free(n)
               /\ Settled(n)' => /\ Settled(n) /\ (Ours(running', n) <=> OnRecord(n))
                                 /\ (Ours(saved', n) <=> OnRecord(n))
    <3>1. Free(n) /\ n \notin contested'
      BY <1>c, <1>u, <2>1 DEF Free
    <3>2. Settled(n)' => Settled(n)
      BY <1>f, <1>s DEF Settled
    <3>3. Settled(n) => (Ours(running, n) <=> OnRecord(n)) /\ (Ours(saved, n) <=> OnRecord(n))
      BY <3>1 DEF GInv, LedgersNameOurs
    <3>4. Settled(n) => (Ours(running', n) <=> OnRecord(n))
      BY <1>n, <3>1, <3>3 DEF Ours
    <3> QED
      BY <3>1, <3>2, <3>3, <3>4
  <2>2. BackedUp => \A n \in Names : Free(n) => (Ours(op.backup, n) <=> OnRecord(n))
    BY DEF GInv, LedgersNameOurs
  <2> QED
    BY <1>f, <1>s, <2>1, <2>2 DEF LedgersNameOurs, Ours
<1>9. NobodyElses'
  <2>1. ASSUME NEW n \in Names \ contested', OnRecord(n)
        PROVE  /\ running'[n].by # "operator" /\ saved'[n].by # "operator"
               /\ BackedUp => op.backup[n].by # "operator"
    BY <1>h, <2>1 DEF GInv, NobodyElses
  <2>2. ASSUME op.phase \in {"commands", "verify", "persist"}, NEW n \in Scope(op) \ contested'
        PROVE  running'[n].by # "operator"
    <3>1. n \in Names
      BY <1>0, <2>2 DEF TypeOK, Request, Scope, Wanted
    <3>2. running'[n] = running[n] /\ n \notin contested
      BY <1>h, <2>2, <3>1
    <3> QED
      BY <2>2, <3>2 DEF GInv, NobodyElses
  <2> QED
    BY <1>f, <1>s, <2>1, <2>2 DEF NobodyElses
<1>10. DeliveredIsSaved'
  <2>1. ASSUME NEW n \in Scope(op) \ contested'
        PROVE  running'[n] = running[n] /\ n \notin contested
    <3>1. n \in Names
      BY <1>0, <2>1 DEF TypeOK, Request, Scope, Wanted
    <3> QED
      BY <1>h, <2>1, <3>1
  <2> QED
    BY <1>f, <1>s, <2>1 DEF GInv, DeliveredIsSaved, Exists
<1> QED
  BY <1>1, <1>2, <1>3, <1>4, <1>5, <1>6, <1>7, <1>8, <1>9, <1>10 DEF GInv

LEMMA OutsideKeeps ==
  ASSUME GInv, Outside
  PROVE  GInv'
<1>0. /\ running \in Configuration /\ saved \in Configuration /\ Tidy(running) /\ Tidy(saved)
      /\ \A n \in Names : running[n] \in Group
  BY DEF GInv, TypeOK, ConfigurationsAreTidy, Configuration
<1>1. ASSUME NEW n \in Names, OperatorAdds(n) PROVE GInv'
  <2>1. /\ Disturb({n}) /\ saved' = saved
        /\ running' = [running EXCEPT ![n] = [by |-> "operator", entries |-> Entries, route |-> "here"]]
    BY <1>1 DEF OperatorAdds
  <2>2. running' \in Configuration /\ Tidy(running')
    BY <1>0, <2>1 DEF Configuration, Group, Makers, Routes, Tidy, Exists
  <2>3. /\ \A m \in Names \ {n} : running'[m] = running[m]
        /\ running'[n].by = "operator"
    BY <1>0, <2>1 DEF Configuration
  <2> QED
    BY <2>1, <2>2, <2>3, Disturbs
<1>2. ASSUME NEW n \in Names, OperatorDeletes(n) PROVE GInv'
  <2>1. Disturb({n}) /\ saved' = saved /\ running' = [running EXCEPT ![n] = Absent]
    BY <1>2 DEF OperatorDeletes
  <2>2. running' \in Configuration /\ Tidy(running')
    BY <1>0, <2>1 DEF Configuration, Group, Makers, Routes, Tidy, Exists, Absent
  <2>3. /\ \A m \in Names \ {n} : running'[m] = running[m]
        /\ running'[n].by = "nobody"
    BY <1>0, <2>1 DEF Configuration, Absent
  <2> QED
    BY <2>1, <2>2, <2>3, Disturbs
<1>3. ASSUME NEW n \in Names, NEW route \in Routes, OperatorReroutes(n, route) PROVE GInv'
  <2>1. Disturb({n}) /\ saved' = saved /\ running' = [running EXCEPT ![n].route = route] /\ Exists(running, n)
    BY <1>3 DEF OperatorReroutes
  <2>2. /\ \A m \in Names \ {n} : running'[m] = running[m]
        /\ running'[n] = [running[n] EXCEPT !.route = route] /\ running'[n].by = running[n].by
        /\ running'[n] \in Group
    BY <1>0, <2>1 DEF Configuration, Group
  <2>3. running' \in Configuration
    BY <1>0, <2>1, <2>2 DEF Configuration
  <2>4. Tidy(running')
    BY <1>0, <2>1, <2>2 DEF Tidy, Exists
  <2> QED
    BY <2>1, <2>2, <2>3, <2>4, Disturbs
<1>4. ASSUME OperatorSaves PROVE GInv'
  <2>1. Disturb({}) /\ saved' = running /\ running' = running
    BY <1>4 DEF OperatorSaves
  <2> QED
    BY <1>0, <2>1, Disturbs
<1>5. ASSUME Reboot PROVE GInv'
  <2> PICK names : names = { n \in Names : running[n] # saved[n] }
    OBVIOUS
  <2>1. Disturb(names) /\ saved' = saved /\ running' = saved
    BY <1>5 DEF Reboot
  <2> QED
    BY <1>0, <2>1, Disturbs
<1> QED
  BY <1>1, <1>2, <1>3, <1>4, <1>5 DEF Outside

----------------------------------------------------------------------------
(* The lines of a delivery.                                                *)

LEMMA LineFacts ==
  /\ \A n \in Names : \A do \in {"unroute", "drop", "create", "exclude", "include", "route", "save"} :
       Line(do, n) \in Commands /\ Line(do, n).do = do /\ Line(do, n).name = n
  /\ \A n \in Names : \A e \in Entries : \A do \in {"exclude", "include"} :
       /\ EntryLine(do, n, e) \in Commands /\ EntryLine(do, n, e).do = do
       /\ EntryLine(do, n, e).name = n /\ EntryLine(do, n, e).entry = e
  /\ SaveLine \in Commands /\ SaveLine.do = "save"
<1>1. (CHOOSE e \in Entries : TRUE) \in Entries /\ (CHOOSE n \in Names : TRUE) \in Names
  BY NumbersAssumption
<1> QED
  BY <1>1 DEF Line, EntryLine, Commands, SaveLine

LEMMA RemovalLines ==
  ASSUME NEW n, NEW config, NEW c
  PROVE  c \in Removal(n, config) <=>
           \/ config[n].route # "none" /\ c = Line("unroute", n)
           \/ Exists(config, n) /\ c = Line("drop", n)
BY DEF Removal, If

LEMMA RefillLines ==
  ASSUME NEW n, NEW entries, NEW config, NEW c
  PROVE  c \in Refill(n, entries, config) <=>
           \/ Detached(n, entries, config) /\ c = Line("unroute", n)
           \/ ~ Exists(config, n) /\ c = Line("create", n)
           \/ \E e \in config[n].entries \ entries : c = EntryLine("exclude", n, e)
           \/ \E e \in entries \ config[n].entries : c = EntryLine("include", n, e)
           \/ (Detached(n, entries, config) \/ config[n].route # "here") /\ c = Line("route", n)
BY DEF Refill, If

LEMMA ReconciledLines ==
  ASSUME NEW r, NEW config, NEW c
  PROVE  c \in Reconciled(r, config) <=>
           \/ \E n \in r.owned \ Wanted(r.file) : c \in Removal(n, config)
           \/ \E n \in Wanted(r.file) : c \in Refill(n, r.file[n], config)
BY DEF Reconciled

(* The lines for a name: what they do, and when they are there.            *)
LEMMA LinesOfAName ==
  ASSUME TypeOK, NEW C, C = Reconciled(op, running)
  PROVE  /\ C \subseteq Commands
         /\ \A c \in C :
              \/ c.do \in {"unroute", "drop"} /\ c.name \in op.owned \ Wanted(op.file)
              \/ c.do \in {"unroute", "create", "exclude", "include", "route"} /\ c.name \in Wanted(op.file)
         /\ \A n \in Wanted(op.file) :
              /\ \A e \in Entries :
                   /\ (\E c \in C : c.do = "exclude" /\ c.name = n /\ c.entry = e)
                        <=> e \in running[n].entries \ op.file[n]
                   /\ (\E c \in C : c.do = "include" /\ c.name = n /\ c.entry = e)
                        <=> e \in op.file[n] \ running[n].entries
              /\ ~ Exists(running, n) => \E c \in C : c.do = "create" /\ c.name = n
              /\ Detached(n, op.file[n], running) => \E c \in C : c.do = "unroute" /\ c.name = n
         /\ \A n \in op.owned \ Wanted(op.file) :
              /\ running[n].route # "none" => \E c \in C : c.do = "unroute" /\ c.name = n
              /\ Exists(running, n) => \E c \in C : c.do = "drop" /\ c.name = n
<1> PICK w : w = Wanted(op.file)
  OBVIOUS
<1>0. /\ w \subseteq Names /\ op.owned \subseteq Names
      /\ \A n \in Names : op.file[n] \subseteq Entries /\ running[n].entries \subseteq Entries
  BY DEF TypeOK, Request, Wanted, Configuration, Group
<1>1. ASSUME NEW c \in C
      PROVE  \/ \E n \in op.owned \ w : c = Line("unroute", n) \/ c = Line("drop", n)
             \/ \E n \in w : \/ c = Line("unroute", n) \/ c = Line("create", n) \/ c = Line("route", n)
                             \/ \E e \in running[n].entries \ op.file[n] : c = EntryLine("exclude", n, e)
                             \/ \E e \in op.file[n] \ running[n].entries : c = EntryLine("include", n, e)
  BY <1>1, ReconciledLines, RemovalLines, RefillLines
<1>2. \A n \in op.owned \ w : /\ running[n].route # "none" => Line("unroute", n) \in C
                              /\ Exists(running, n) => Line("drop", n) \in C
  BY ReconciledLines, RemovalLines
<1>3. ASSUME NEW n \in w
      PROVE  /\ Detached(n, op.file[n], running) => Line("unroute", n) \in C
             /\ ~ Exists(running, n) => Line("create", n) \in C
             /\ \A e \in running[n].entries \ op.file[n] : EntryLine("exclude", n, e) \in C
             /\ \A e \in op.file[n] \ running[n].entries : EntryLine("include", n, e) \in C
  <2>1. \A c : c \in Refill(n, op.file[n], running) => c \in C
    BY ReconciledLines
  <2> QED
    BY <2>1, RefillLines
<1>4. ASSUME NEW c \in C
      PROVE  /\ c \in Commands
             /\ \/ c.do \in {"unroute", "drop"} /\ c.name \in op.owned \ w
                \/ c.do \in {"unroute", "create", "exclude", "include", "route"} /\ c.name \in w
             /\ c.do = "exclude" => c.entry \in running[c.name].entries \ op.file[c.name]
             /\ c.do = "include" => c.entry \in op.file[c.name] \ running[c.name].entries
  <2>1. CASE \E n \in op.owned \ w : c = Line("unroute", n) \/ c = Line("drop", n)
    BY <1>0, <2>1, LineFacts
  <2>2. CASE \E n \in w : c = Line("unroute", n) \/ c = Line("create", n) \/ c = Line("route", n)
    BY <1>0, <2>2, LineFacts
  <2>3. CASE \E n \in w : \E e \in running[n].entries \ op.file[n] : c = EntryLine("exclude", n, e)
    <3> PICK n \in w : \E e \in running[n].entries \ op.file[n] : c = EntryLine("exclude", n, e)
      BY <2>3
    <3> PICK e \in running[n].entries \ op.file[n] : c = EntryLine("exclude", n, e)
      OBVIOUS
    <3>1. n \in Names /\ e \in Entries
      BY <1>0
    <3>2. c \in Commands /\ c.do = "exclude" /\ c.name = n /\ c.entry = e
      BY <3>1, LineFacts
    <3> QED
      BY <3>2
  <2>4. CASE \E n \in w : \E e \in op.file[n] \ running[n].entries : c = EntryLine("include", n, e)
    <3> PICK n \in w : \E e \in op.file[n] \ running[n].entries : c = EntryLine("include", n, e)
      BY <2>4
    <3> PICK e \in op.file[n] \ running[n].entries : c = EntryLine("include", n, e)
      OBVIOUS
    <3>1. n \in Names /\ e \in Entries
      BY <1>0
    <3>2. c \in Commands /\ c.do = "include" /\ c.name = n /\ c.entry = e
      BY <3>1, LineFacts
    <3> QED
      BY <3>2
  <2> QED
    BY <1>1, <2>1, <2>2, <2>3, <2>4
<1>5. ASSUME NEW n \in w, NEW e \in Entries
      PROVE  /\ (\E c \in C : c.do = "exclude" /\ c.name = n /\ c.entry = e)
                  <=> e \in running[n].entries \ op.file[n]
             /\ (\E c \in C : c.do = "include" /\ c.name = n /\ c.entry = e)
                  <=> e \in op.file[n] \ running[n].entries
  BY <1>0, <1>3, <1>4, LineFacts
<1>6. ASSUME NEW n \in w
      PROVE  /\ ~ Exists(running, n) => \E c \in C : c.do = "create" /\ c.name = n
             /\ Detached(n, op.file[n], running) => \E c \in C : c.do = "unroute" /\ c.name = n
  BY <1>0, <1>3, LineFacts
<1>7. ASSUME NEW n \in op.owned \ w
      PROVE  /\ running[n].route # "none" => \E c \in C : c.do = "unroute" /\ c.name = n
             /\ Exists(running, n) => \E c \in C : c.do = "drop" /\ c.name = n
  BY <1>0, <1>2, LineFacts
<1> QED
  BY <1>4, <1>5, <1>6, <1>7

(* What the lines find.                                                    *)
LEMMA NobodyElsesNow ==
  ASSUME GInv, op.phase = "apply", ~ Refuses(op, running), NEW n \in Scope(op) \ contested
  PROVE  running[n].by # "operator"
<1>1. op.owned = ledger[op.output] /\ op.output \in Outputs /\ n \in Names
  BY DEF GInv, RequestIsSane, TypeOK, Request, Scope, Wanted
<1>2. CASE n \in op.owned
  BY <1>1, <1>2 DEF GInv, NobodyElses, OnRecord
<1>3. CASE n \notin op.owned
  <2>1. ~ Exists(running, n)
    BY <1>3 DEF Scope, Refuses, Foreign
  <2> QED
    BY <2>1 DEF Exists
<1> QED
  BY <1>2, <1>3

LEMMA ReconcileKeeps ==
  ASSUME GInv, Reconcile
  PROVE  GInv'
<1> USE DEF router, history
<1>0. /\ TypeOK /\ op.phase = "apply" /\ ~ op.sent /\ ~ op.refused /\ BackedUp
      /\ UNCHANGED <<router, ledger, history>> /\ op.owned = ledger[op.output]
  BY DEF GInv, RequestIsSane, Reconcile, BackedUp
<1>o. /\ op.output \in Outputs /\ op.file \in [Names -> SUBSET Entries] /\ op.owned \subseteq Names
      /\ op.backup \in Configuration /\ op.todo \subseteq Commands /\ op.room \in 0 .. MaxParseCommands
  BY <1>0, OpFacts
<1> PICK commands : commands = Reconciled(op, running)
  OBVIOUS
<1>1. CASE Refuses(op, running)
  BY <1>0, <1>1, QuietEnd DEF Reconcile
<1>2. CASE ~ Refuses(op, running)
  <2>a. CASE commands = {}
    <3>d. op' = [op EXCEPT !.phase = "verify", !.calm = TRUE]
      BY <1>2, <2>a DEF Reconcile
    <3>f. /\ op' \in Request /\ op'.phase = "verify"
          /\ op'.output = op.output /\ op'.file = op.file /\ op'.owned = op.owned
          /\ op'.backup = op.backup /\ op'.sent = op.sent /\ op'.refused = op.refused
      BY <1>0, <3>d DEF TypeOK, Request, Phases
    <3>s. Scope(op') = Scope(op) /\ Scope(op)' = Scope(op) /\ Wanted(op'.file) = Wanted(op.file)
      BY <3>f DEF Scope
    <3>w. Wanted(op.file) \subseteq op.owned
      <4>1. \A n \in Wanted(op.file) : Exists(running, n)
        BY <1>0, <2>a, LinesOfAName
      <4> QED
        BY <1>2, <4>1 DEF Refuses, Foreign
    <3>1. TypeOK'
      BY <1>0, <3>f DEF TypeOK
    <3>2. ConfigurationsAreTidy'
      BY <1>0, <3>f DEF GInv, ConfigurationsAreTidy, Tidy, Exists
    <3>3. RequestIsSane'
      BY <1>0, <3>f DEF GInv, RequestIsSane
    <3>4. LinesAreOurs' /\ LinesCompleteTheFile' /\ LinesFindRoom'
      BY <3>f DEF LinesAreOurs, LinesCompleteTheFile, LinesFindRoom
    <3>5. GroupsAreWhole'
      BY <1>0, <3>f DEF GInv, GroupsAreWhole, Whole, Ours
    <3>6. LedgersNameOurs'
      <4>1. ASSUME NEW n \in Names PROVE (Free(n)' => Free(n)) /\ Settled(n)
        BY <1>0 DEF Free, Settled
      <4> QED
        BY <1>0, <3>f, <4>1 DEF GInv, LedgersNameOurs, Ours, OnRecord
    <3>7. NobodyElses'
      BY <1>0, <1>2, <3>f, <3>s, NobodyElsesNow DEF GInv, NobodyElses, OnRecord
    <3>8. DeliveredIsSaved'
      BY <1>0, <3>f, <3>w, <3>s DEF DeliveredIsSaved
    <3> QED
      BY <3>1, <3>2, <3>3, <3>4, <3>5, <3>6, <3>7, <3>8 DEF GInv
  <2>b. CASE commands # {}
    <3>d. op' = [op EXCEPT !.phase = "commands", !.sent = TRUE, !.calm = TRUE,
                           !.room = MaxParseCommands, !.todo = commands \cup { SaveLine }]
      BY <1>2, <2>b DEF Reconcile, SaveLine
    <3>c. commands \subseteq Commands /\ commands \cup { SaveLine } \in SUBSET Commands
      BY <1>0, LinesOfAName, LineFacts
    <3>m. MaxParseCommands \in 0 .. MaxParseCommands /\ "commands" \in Phases
      BY BoundsAssumption DEF Phases
    <3>e. op' = [phase |-> "commands", output |-> op.output, file |-> op.file, owned |-> op.owned,
                 backup |-> op.backup, todo |-> commands \cup { SaveLine }, room |-> MaxParseCommands,
                 sent |-> TRUE, refused |-> op.refused, calm |-> TRUE]
      BY <1>0, <3>d DEF TypeOK, Request
    <3>r. op.refused \in BOOLEAN
      BY <1>0, OpFacts
    <3>f. /\ op' \in Request /\ op'.phase = "commands"
          /\ op'.output = op.output /\ op'.file = op.file /\ op'.owned = op.owned
          /\ op'.backup = op.backup /\ op'.todo = commands \cup { SaveLine }
          /\ op'.sent = TRUE /\ op'.refused = op.refused /\ op'.calm = TRUE
      BY <1>o, <3>e, <3>c, <3>m, <3>r DEF Request
    <3>s. Scope(op') = Scope(op) /\ Scope(op)' = Scope(op) /\ Wanted(op'.file) = Wanted(op.file)
      BY <3>f DEF Scope
    <3>l. /\ \A c \in commands :
               \/ c.do \in {"unroute", "drop"} /\ c.name \in op.owned \ Wanted(op.file)
               \/ c.do \in {"unroute", "create", "exclude", "include", "route"} /\ c.name \in Wanted(op.file)
          /\ SaveLine.do = "save"
      BY <1>0, LinesOfAName, LineFacts
    <3>p. \A do \in {"unroute", "drop", "create", "exclude", "include", "route"} : \A n \in Names :
            /\ Pending(do, n)' <=> \E c \in commands : c.do = do /\ c.name = n
            /\ \A e \in Entries : Pends(do, n, e)' <=> \E c \in commands : c.do = do /\ c.name = n /\ c.entry = e
      BY <3>f, <3>l DEF Pending, Pends
    <3>1. TypeOK'
      BY <1>0, <3>f DEF TypeOK
    <3>2. ConfigurationsAreTidy'
      BY <1>0, <3>f DEF GInv, ConfigurationsAreTidy, Tidy, Exists
    <3>3. RequestIsSane'
      BY <1>0, <3>f DEF GInv, RequestIsSane
    <3>4. LinesAreOurs'
      BY <3>f, <3>l, <3>s DEF LinesAreOurs, Scope
    <3>5. LinesCompleteTheFile'
      <4>1. ASSUME NEW n \in Wanted(op.file)
            PROVE  \A e \in Entries :
                     e \in op.file[n] <=> \/ e \in running[n].entries /\ ~ Pends("exclude", n, e)'
                                          \/ Pends("include", n, e)'
        <5>1. n \in Names
          BY DEF Wanted
        <5>2. \A e \in Entries : /\ Pends("exclude", n, e)' <=> e \in running[n].entries \ op.file[n]
                                 /\ Pends("include", n, e)' <=> e \in op.file[n] \ running[n].entries
          BY <1>0, <3>p, <5>1, LinesOfAName
        <5> QED
          BY <5>2
      <4>2. ASSUME NEW n \in Names, NEW e \in Entries, Pends("include", n, e)'
            PROVE  e \notin running[n].entries
        <5>1. n \in Wanted(op.file)
          BY <3>p, <3>l, <4>2
        <5> QED
          BY <1>0, <3>p, <4>2, <5>1, LinesOfAName
      <4>3. ASSUME NEW n \in Names, Pending("exclude", n)' \/ Pending("include", n)' \/ Pending("drop", n)'
            PROVE  running[n].route = "none" \/ Pending("unroute", n)'
        <5>1. CASE Pending("drop", n)'
          <6>1. n \in op.owned \ Wanted(op.file)
            BY <3>p, <3>l, <5>1
          <6> QED
            BY <1>0, <3>p, <6>1, LinesOfAName
        <5>2. CASE Pending("exclude", n)' \/ Pending("include", n)'
          <6>1. n \in Wanted(op.file)
            BY <3>p, <3>l, <5>2
          <6>2. PICK c \in commands : c.do \in {"exclude", "include"} /\ c.name = n
            BY <3>p, <5>2
          <6>3. c.entry \in Entries
            BY <3>c, CommandFacts
          <6>4. running[n].entries # op.file[n]
            BY <1>0, <6>1, <6>2, <6>3, LinesOfAName
          <6>5. CASE running[n].route # "none"
            <7>1. Detached(n, op.file[n], running)
              BY <6>4, <6>5 DEF Detached
            <7> QED
              BY <1>0, <3>p, <6>1, <7>1, LinesOfAName
          <6> QED
            BY <6>5
        <5> QED
          BY <4>3, <5>1, <5>2
      <4> QED
        BY <1>0, <3>f, <3>s, <4>1, <4>2, <4>3 DEF LinesCompleteTheFile
    <3>6. LinesFindRoom'
      <4>1. ASSUME NEW n \in Names, Pending("include", n)' \/ Pending("route", n)'
            PROVE  Exists(running, n) \/ Pending("create", n)'
        <5>1. n \in Wanted(op.file)
          BY <3>p, <3>l, <4>1
        <5> QED
          BY <1>0, <3>p, <4>1, <5>1, LinesOfAName
      <4>2. ASSUME NEW n \in op.owned \ Wanted(op.file), Exists(running, n)
            PROVE  Pending("drop", n)'
        BY <1>0, <1>o, <3>p, <4>2, LinesOfAName
      <4>3. ~ Overfull(op, running)'
        <5>1. ~ Overfull(op, running)
          BY <1>2 DEF Refuses
        <5> QED
          BY <1>0, <3>f, <5>1 DEF Overfull, GroupsAfter, Present, Exists
      <4> QED
        BY <1>0, <3>f, <3>s, <4>1, <4>2, <4>3 DEF LinesFindRoom, Exists
    <3>7. GroupsAreWhole'
      BY <1>0, <3>f DEF GInv, GroupsAreWhole, Whole, Ours
    <3>8. LedgersNameOurs'
      <4>1. ASSUME NEW n \in Names PROVE (Free(n)' => Free(n)) /\ Settled(n)
        BY <1>0 DEF Free, Settled
      <4> QED
        BY <1>0, <3>f, <4>1 DEF GInv, LedgersNameOurs, Ours, OnRecord
    <3>9. NobodyElses'
      BY <1>0, <1>2, <3>f, <3>s, NobodyElsesNow DEF GInv, NobodyElses, OnRecord
    <3>10. DeliveredIsSaved'
      BY <3>f DEF DeliveredIsSaved
    <3> QED
      BY <3>1, <3>2, <3>3, <3>4, <3>5, <3>6, <3>7, <3>8, <3>9, <3>10 DEF GInv
  <2> QED
    BY <2>a, <2>b
<1> QED
  BY <1>1, <1>2

----------------------------------------------------------------------------
(* The router takes a line.                                                *)

(* What a line leaves of the other lines.                                  *)
LEMMA LinesLeft ==
  ASSUME TypeOK, NEW c \in op.todo, op'.todo = op.todo \ {c}, NEW do, NEW n \in Names
  PROVE  /\ Pending(do, n)' => Pending(do, n)
         /\ \A e \in Entries : Pends(do, n, e)' => Pends(do, n, e)
         /\ \A e \in Entries : Pends(do, n, e) => Pending(do, n)
         /\ c.do # do \/ c.name # n => /\ Pending(do, n)' <=> Pending(do, n)
                                       /\ \A e \in Entries : Pends(do, n, e)' <=> Pends(do, n, e)
         /\ c.do = do /\ c.name = n =>
              /\ Pends(do, n, c.entry)
              /\ \A e \in Entries : Pends(do, n, e)' <=> Pends(do, n, e) /\ e # c.entry
<1>1. op.todo \subseteq Commands
  BY OpFacts
<1>2. ASSUME NEW d \in op.todo, d.do = c.do, d.name = c.name, d.entry = c.entry PROVE d = c
  <2>1. /\ c = [do |-> c.do, name |-> c.name, entry |-> c.entry]
        /\ d = [do |-> d.do, name |-> d.name, entry |-> d.entry]
    BY <1>1, CommandFacts
  <2> QED
    BY <1>2, <2>1
<1> QED
  BY <1>2 DEF Pending, Pends

(* What is known of the next line.                                         *)
LEMMA ExecuteFacts ==
  ASSUME GInv, Execute, NEW c, c = NextLine(op)
  PROVE  /\ op.phase = "commands" /\ c \in op.todo /\ c \in Commands /\ c.name \in Names
         /\ c.entry \in Entries
         /\ c.do \in {"unroute", "drop", "create", "exclude", "include", "route", "save"}
         /\ op' \in Request /\ op'.phase = op.phase /\ op'.output = op.output /\ op'.file = op.file
         /\ op'.owned = op.owned /\ op'.backup = op.backup /\ op'.todo = op.todo \ {c}
         /\ op'.sent = op.sent /\ op'.calm = op.calm
         /\ op'.refused <=> op.refused \/ ~ Accepts(running, c)
         /\ running' = IF Accepts(running, c) THEN After(running, c) ELSE running
         /\ saved' = IF c.do = "save" THEN running ELSE saved
         /\ UNCHANGED <<ledger, contested, stranded, upsets>>
<1>1. /\ TypeOK /\ LinesAreOurs /\ op.phase = "commands" /\ op.todo # {} /\ op.room > 0
      /\ running' = IF Accepts(running, c) THEN After(running, c) ELSE running
      /\ saved' = IF c.do = "save" THEN running ELSE saved
      /\ op' = [op EXCEPT !.todo = @ \ {c}, !.room = @ - 1,
                          !.refused = @ \/ ~ Accepts(running, c)]
      /\ UNCHANGED <<ledger, contested, stranded, upsets>>
  BY DEF Execute, GInv, history
<1>2. c \in op.todo /\ c \in Commands
  BY <1>1, NextLineIsFirst
<1>3. /\ op.phase \in Phases /\ op.output \in Outputs /\ op.file \in [Names -> SUBSET Entries]
      /\ op.owned \subseteq Names /\ op.backup \in Configuration /\ op.todo \subseteq Commands
      /\ op.room \in 0 .. MaxParseCommands
      /\ op.sent \in BOOLEAN /\ op.refused \in BOOLEAN /\ op.calm \in BOOLEAN
  BY <1>1, OpFacts
<1>4. op.room - 1 \in 0 .. MaxParseCommands
  BY <1>1, <1>3, BoundsAssumption
<1>5. PICK refused \in BOOLEAN : refused = (op.refused \/ ~ Accepts(running, c))
  BY <1>3
<1>6. op' = [phase |-> op.phase, output |-> op.output, file |-> op.file, owned |-> op.owned,
             backup |-> op.backup, todo |-> op.todo \ {c}, room |-> op.room - 1,
             sent |-> op.sent, refused |-> refused, calm |-> op.calm]
  BY <1>1, <1>5 DEF TypeOK, Request
<1>7. op.todo \ {c} \in SUBSET Commands
  BY <1>3
<1>8. op' \in Request
  BY <1>3, <1>4, <1>5, <1>6, <1>7 DEF Request
<1>9. op'.refused <=> op.refused \/ ~ Accepts(running, c)
  BY <1>5, <1>6
<1>10. /\ op'.phase = op.phase /\ op'.output = op.output /\ op'.file = op.file
       /\ op'.owned = op.owned /\ op'.backup = op.backup /\ op'.todo = op.todo \ {c}
       /\ op'.sent = op.sent /\ op'.calm = op.calm
  BY <1>6
<1> QED
  BY <1>1, <1>2, <1>8, <1>9, <1>10, CommandFacts

(* What a line makes of the group it names: only that group changes.       *)
LEMMA Effects ==
  ASSUME GInv, Execute, NEW c, c = NextLine(op)
  PROVE  /\ running' \in Configuration
         /\ \A n \in Names : n # c.name \/ c.do = "save" => running'[n] = running[n]
         /\ running'[c.name] = running[c.name] \/
              /\ Accepts(running, c)
              /\ \/ c.do = "drop" /\ running'[c.name] = Absent
                 \/ /\ c.do = "create" /\ ~ Exists(running, c.name)
                    /\ running'[c.name] = [by |-> "routevane", entries |-> {}, route |-> "none"]
                 \/ /\ c.do = "include"
                    /\ running'[c.name].by = running[c.name].by
                    /\ running'[c.name].route = running[c.name].route
                    /\ running'[c.name].entries = running[c.name].entries \cup {c.entry}
                 \/ /\ c.do = "exclude"
                    /\ running'[c.name].by = running[c.name].by
                    /\ running'[c.name].route = running[c.name].route
                    /\ running'[c.name].entries = running[c.name].entries \ {c.entry}
                 \/ /\ c.do \in {"route", "unroute"}
                    /\ running'[c.name].by = running[c.name].by
                    /\ running'[c.name].entries = running[c.name].entries
                    /\ running'[c.name].route = IF c.do = "route" THEN "here" ELSE "none"
         /\ c.do = "create" /\ Accepts(running, c) => Exists(running', c.name)
         /\ c.do = "drop" /\ Accepts(running, c) => running'[c.name] = Absent
         /\ c.do = "exclude" => running'[c.name].entries = running[c.name].entries \ {c.entry}
         /\ c.do = "include" /\ Accepts(running, c) =>
              running'[c.name].entries = running[c.name].entries \cup {c.entry}
         /\ c.do = "unroute" => running'[c.name].route = "none"
<1> PICK n : n = c.name
  OBVIOUS
<1> PICK g : g = running[n]
  OBVIOUS
<1>1. /\ c.do \in {"unroute", "drop", "create", "exclude", "include", "route", "save"}
      /\ n \in Names /\ c.entry \in Entries
      /\ running' = IF Accepts(running, c) THEN After(running, c) ELSE running
  BY ExecuteFacts
<1>2. /\ running \in [Names -> Group] /\ g \in Group
      /\ g = [by |-> g.by, entries |-> g.entries, route |-> g.route]
      /\ g.by \in Makers /\ g.entries \subseteq Entries /\ g.route \in Routes
  BY <1>1 DEF GInv, TypeOK, Configuration, Group
<1>3. ~ Exists(running, n) => g = Absent
  BY <1>1 DEF GInv, ConfigurationsAreTidy, Tidy
<1>4. CASE ~ Accepts(running, c)
  <2>1. c.do \notin {"exclude", "unroute"}
    BY <1>4 DEF Accepts
  <2> QED
    BY <1>1, <1>2, <1>4, <2>1 DEF Configuration
<1>5. CASE Accepts(running, c) /\ c.do = "save"
  <2>1. running' = running
    BY <1>1, <1>5 DEF After
  <2> QED
    BY <1>2, <1>5, <2>1 DEF Configuration
<1>6. CASE Accepts(running, c) /\ c.do = "drop"
  <2>1. running' = [running EXCEPT ![n] = Absent] /\ Absent \in Group
    BY <1>1, <1>6 DEF After, Absent, Group, Makers, Routes
  <2> QED
    BY <1>1, <1>2, <1>6, <2>1 DEF Configuration
<1>7. CASE Accepts(running, c) /\ c.do = "create"
  <2>1. CASE Exists(running, n)
    <3>1. running' = running
      BY <1>1, <1>7, <2>1 DEF After
    <3> QED
      BY <1>2, <1>7, <2>1, <3>1 DEF Configuration
  <2>2. CASE ~ Exists(running, n)
    <3>1. running' = [running EXCEPT ![n].by = "routevane"]
      BY <1>1, <1>7, <2>2 DEF After
    <3>a. /\ running' = [running EXCEPT ![n] = [running[n] EXCEPT !.by = "routevane"]]
          /\ [Absent EXCEPT !.by = "routevane"] = [by |-> "routevane", entries |-> {}, route |-> "none"]
          /\ [by |-> "routevane", entries |-> {}, route |-> "none"] \in Group
      BY <3>1 DEF Group, Makers, Absent, Routes
    <3>b. running' = [running EXCEPT ![n] = [by |-> "routevane", entries |-> {}, route |-> "none"]]
      BY <1>3, <2>2, <3>a
    <3>2. /\ running' \in [Names -> Group]
          /\ running'[n] = [by |-> "routevane", entries |-> {}, route |-> "none"]
          /\ \A m \in Names : m # n => running'[m] = running[m]
      BY <1>1, <1>2, <3>a, <3>b
    <3>3. running' \in Configuration /\ Exists(running', n)
      BY <3>2 DEF Configuration, Exists
    <3> QED
      BY <1>7, <2>2, <3>2, <3>3
  <2> QED
    BY <2>1, <2>2
<1>8. CASE Accepts(running, c) /\ c.do = "include"
  <2>1. running' = [running EXCEPT ![n] = [by |-> g.by, entries |-> g.entries \cup {c.entry}, route |-> g.route]]
    <3>1. running' = [running EXCEPT ![n].entries = @ \cup {c.entry}]
      BY <1>1, <1>8 DEF After
    <3>2. running' = [running EXCEPT ![n] = [running[n] EXCEPT !.entries = @ \cup {c.entry}]]
      BY <3>1
    <3>3. [running[n] EXCEPT !.entries = @ \cup {c.entry}] = [by |-> g.by, entries |-> g.entries \cup {c.entry}, route |-> g.route]
      BY <1>2
    <3> QED
      BY <3>2, <3>3
  <2>2. [by |-> g.by, entries |-> g.entries \cup {c.entry}, route |-> g.route] \in Group
    BY <1>1, <1>2 DEF Group
  <2>3. /\ running' \in Configuration /\ \A m \in Names : m # n => running'[m] = running[m]
        /\ running'[n].by = g.by /\ running'[n].entries = g.entries \cup {c.entry}
        /\ running'[n].route = g.route
    BY <1>1, <1>2, <2>1, <2>2 DEF Configuration
  <2> QED
    BY <1>8, <2>3
<1>9. CASE Accepts(running, c) /\ c.do = "exclude"
  <2>1. running' = [running EXCEPT ![n] = [by |-> g.by, entries |-> g.entries \ {c.entry}, route |-> g.route]]
    <3>1. running' = [running EXCEPT ![n].entries = @ \ {c.entry}]
      BY <1>1, <1>9 DEF After
    <3>2. running' = [running EXCEPT ![n] = [running[n] EXCEPT !.entries = @ \ {c.entry}]]
      BY <3>1
    <3>3. [running[n] EXCEPT !.entries = @ \ {c.entry}] = [by |-> g.by, entries |-> g.entries \ {c.entry}, route |-> g.route]
      BY <1>2
    <3> QED
      BY <3>2, <3>3
  <2>2. [by |-> g.by, entries |-> g.entries \ {c.entry}, route |-> g.route] \in Group
    BY <1>1, <1>2 DEF Group
  <2>3. /\ running' \in Configuration /\ \A m \in Names : m # n => running'[m] = running[m]
        /\ running'[n].by = g.by /\ running'[n].entries = g.entries \ {c.entry}
        /\ running'[n].route = g.route
    BY <1>1, <1>2, <2>1, <2>2 DEF Configuration
  <2> QED
    BY <1>9, <2>3
<1>10. CASE Accepts(running, c) /\ c.do \in {"route", "unroute"}
  <2> PICK route : route = IF c.do = "route" THEN "here" ELSE "none"
    OBVIOUS
  <2>1. running' = [running EXCEPT ![n] = [by |-> g.by, entries |-> g.entries, route |-> route]]
    <3>1. running' = [running EXCEPT ![n].route = route]
      <4>1. CASE c.do = "route"
        BY <1>1, <1>10, <4>1 DEF After
      <4>2. CASE c.do = "unroute"
        BY <1>1, <1>10, <4>2 DEF After
      <4> QED
        BY <1>10, <4>1, <4>2
    <3>2. running' = [running EXCEPT ![n] = [running[n] EXCEPT !.route = route]]
      BY <3>1
    <3>3. [running[n] EXCEPT !.route = route] = [by |-> g.by, entries |-> g.entries, route |-> route]
      BY <1>2
    <3> QED
      BY <3>2, <3>3
  <2>2. [by |-> g.by, entries |-> g.entries, route |-> route] \in Group
    BY <1>1, <1>2 DEF Group, Routes
  <2>3. /\ running' \in Configuration /\ \A m \in Names : m # n => running'[m] = running[m]
        /\ running'[n].by = g.by /\ running'[n].entries = g.entries
        /\ running'[n].route = route
    BY <1>1, <1>2, <2>1, <2>2 DEF Configuration
  <2> QED
    BY <1>10, <2>3
<1> QED
  BY <1>1, <1>4, <1>5, <1>6, <1>7, <1>8, <1>9, <1>10

(* What has gone by when a line comes up: for its name all the lines of    *)
(* the stages before, and every name that goes when a wanted one is due.   *)
LEMMA WhatHasGoneBy ==
  ASSUME GInv, Execute, NEW c, c = NextLine(op)
  PROVE  /\ c.do = "save" => c = SaveLine /\ op.todo = {c}
         /\ c.do \in {"unroute", "drop"} => c.name \in Scope(op)
         /\ c.do = "drop" => c.name \in op.owned \ Wanted(op.file)
         /\ c.do \in {"create", "exclude", "include", "route"} =>
              /\ c.name \in Wanted(op.file)
              /\ \A n \in Names : ~ Pending("drop", n)
         /\ c.do \in {"drop", "create", "exclude", "include", "route"} => ~ Pending("unroute", c.name)
         /\ c.do \in {"include", "route"} => ~ Pending("create", c.name) /\ ~ Pending("exclude", c.name)
         /\ c.do = "route" => ~ Pending("include", c.name)
<1>1. TypeOK /\ LinesAreOurs /\ op.phase = "commands" /\ op.todo # {}
  BY DEF Execute, GInv
<1>2. /\ c \in op.todo
      /\ c.do = "save" => op.todo = {c}
      /\ c.do # "save" => \A d \in op.todo : d.do # "save" =>
           /\ d.name = c.name => Stage(c.do) <= Stage(d.do)
           /\ c.name \in Wanted(op.file) => d.name \in Wanted(op.file)
  BY <1>1, NextLineIsFirst
<1>3. /\ \A d \in op.todo : d.do = "drop" => d.name \in op.owned \ Wanted(op.file)
      /\ c.do = "save" => c = SaveLine
      /\ c.do \in {"unroute", "drop"} => c.name \in Scope(op)
      /\ c.do \in {"create", "exclude", "include", "route"} => c.name \in Wanted(op.file)
  BY <1>1, <1>2 DEF LinesAreOurs
<1>4. /\ Stage("unroute") = 1 /\ Stage("drop") = 2 /\ Stage("create") = 3
      /\ Stage("exclude") = 4 /\ Stage("include") = 5 /\ Stage("route") = 6
  BY DEF Stage
<1>5. c.do \in {"create", "exclude", "include", "route"} => \A n \in Names : ~ Pending("drop", n)
  BY <1>2, <1>3 DEF Pending
<1>6. ASSUME c.do \in {"drop", "create", "exclude", "include", "route"} PROVE ~ Pending("unroute", c.name)
  <2>1. Stage(c.do) > 1 /\ Stage(c.do) \in Nat
    BY <1>4, <1>6
  <2> QED
    BY <1>2, <1>4, <1>6, <2>1 DEF Pending
<1>7. c.do \in {"include", "route"} => ~ Pending("create", c.name) /\ ~ Pending("exclude", c.name)
  BY <1>2, <1>4 DEF Pending
<1>8. c.do = "route" => ~ Pending("include", c.name)
  BY <1>2, <1>4 DEF Pending
<1> QED
  BY <1>2, <1>3, <1>5, <1>6, <1>7, <1>8

(* New entries fit: what is there is part of what the file says.           *)
LEMMA EntriesFit ==
  ASSUME GInv, Execute, NEW c, c = NextLine(op), c.do = "include",
         Steady(c.name), Exists(running, c.name)
  PROVE  Accepts(running, c)
<1> PICK n : n = c.name
  OBVIOUS
<1> PICK file : file = op.file[n]
  OBVIOUS
<1>1. /\ op.phase = "commands" /\ n \in Names /\ c.entry \in Entries /\ c \in op.todo
      /\ TypeOK /\ n \in Wanted(op.file) /\ ~ Pending("exclude", n)
  BY ExecuteFacts, WhatHasGoneBy DEF GInv
<1>2. /\ \A e \in Entries : e \in file <=> \/ e \in running[n].entries /\ ~ Pends("exclude", n, e)
                                           \/ Pends("include", n, e)
      /\ \A e \in Entries : Pends("include", n, e) => e \notin running[n].entries
  BY <1>1 DEF GInv, LinesCompleteTheFile
<1>3. Pends("include", n, c.entry) /\ \A e \in Entries : ~ Pends("exclude", n, e)
  BY <1>1 DEF Pends, Pending
<1>4. running[n].entries \subseteq Entries /\ file \subseteq Entries
  BY <1>1 DEF TypeOK, Configuration, Group, Request
<1>5. running[n].entries \subseteq file /\ c.entry \in file /\ c.entry \notin running[n].entries
  BY <1>1, <1>2, <1>3, <1>4
<1>6. IsFiniteSet(file)
  BY <1>4, NumbersAssumption, FS_Subset
<1>7. Cardinality(file) <= MaxEntriesPerGroup
  <2>1. op.output \in Outputs /\ op.file \in Files[op.output] \cup {Nothing}
    BY <1>1 DEF GInv, TypeOK, Request, RequestIsSane
  <2>2. op.file # Nothing
    BY <1>1, <1>5 DEF Nothing
  <2> QED
    BY <1>1, <2>1, <2>2, FilesAssumption
<1>8. /\ IsFiniteSet(running[n].entries) /\ Cardinality(running[n].entries) < Cardinality(file)
      /\ Cardinality(file) \in Nat /\ Cardinality(running[n].entries) \in Nat
  BY <1>5, <1>6, FS_Subset, FS_CardinalityType
<1>9. Cardinality(running[n].entries) < MaxEntriesPerGroup
  BY <1>7, <1>8, BoundsAssumption
<1> QED
  BY <1>9 DEF Accepts

(* New groups fit: the ones that go are gone.                              *)
LEMMA GroupsFit ==
  ASSUME GInv, Execute, NEW c, c = NextLine(op), c.do = "create", op.calm
  PROVE  Accepts(running, c)
<1> PICK n : n = c.name
  OBVIOUS
<1>1. /\ op.phase = "commands" /\ n \in Names /\ TypeOK
      /\ n \in Wanted(op.file) /\ \A m \in Names : ~ Pending("drop", m)
  BY ExecuteFacts, WhatHasGoneBy DEF GInv
<1>2. SUFFICES ASSUME ~ Exists(running, n) PROVE Cardinality(Present(running)) < MaxGroups
  BY DEF Accepts
<1> PICK S : S = (Present(running) \ op.owned) \cup Wanted(op.file)
  OBVIOUS
<1> PICK P : P = Present(running)
  OBVIOUS
<1>3. /\ \A m \in op.owned \ Wanted(op.file) : ~ Exists(running, m)
      /\ ~ (Cardinality(S) > MaxGroups)
  <2>1. op.owned \subseteq Names
    BY <1>1, OpFacts
  <2> QED
    BY <1>1, <2>1 DEF GInv, LinesFindRoom, Overfull, GroupsAfter
<1>4. P \subseteq S /\ n \in S /\ n \notin P /\ S \subseteq Names
  BY <1>1, <1>2, <1>3 DEF Present, Wanted
<1>5. IsFiniteSet(S)
  BY <1>4, NumbersAssumption, FS_Subset
<1>6. Cardinality(P) < Cardinality(S) /\ Cardinality(S) \in Nat /\ Cardinality(P) \in Nat
  BY <1>4, <1>5, FS_Subset, FS_CardinalityType
<1> QED
  BY <1>3, <1>6, BoundsAssumption

(* While nobody else acts, no line is refused.                             *)
LEMMA CalmLinesAreAccepted ==
  ASSUME GInv, Execute, NEW c, c = NextLine(op), op.calm
  PROVE  Accepts(running, c)
<1>1. /\ op.phase = "commands" /\ c.name \in Names /\ c \in op.todo /\ TypeOK
      /\ c.do \in {"unroute", "drop", "create", "exclude", "include", "route", "save"}
  BY ExecuteFacts DEF GInv
<1>2. CASE c.do = "drop"
  <2>1. Pending("drop", c.name) /\ ~ Pending("unroute", c.name)
    BY <1>1, <1>2, WhatHasGoneBy DEF Pending
  <2>2. running[c.name].route = "none"
    BY <1>1, <2>1 DEF GInv, LinesCompleteTheFile, Steady
  <2> QED
    BY <1>2, <2>2 DEF Accepts
<1>3. CASE c.do = "create"
  BY <1>3, GroupsFit
<1>4. CASE c.do \in {"include", "route"}
  <2>1. (Pending("include", c.name) \/ Pending("route", c.name)) /\ ~ Pending("create", c.name)
    BY <1>1, <1>4, WhatHasGoneBy DEF Pending
  <2>2. Exists(running, c.name)
    BY <1>1, <2>1 DEF GInv, LinesFindRoom
  <2>3. CASE c.do = "include"
    BY <2>2, <2>3, EntriesFit DEF Steady
  <2>4. CASE c.do = "route"
    BY <2>2, <2>4 DEF Accepts
  <2> QED
    BY <1>4, <2>3, <2>4
<1>5. CASE c.do \in {"unroute", "exclude", "save"}
  BY <1>5 DEF Accepts
<1> QED
  BY <1>1, <1>2, <1>3, <1>4, <1>5

(* The group a line names keeps its maker, goes, or is Routevane's anew.   *)
LEMMA MakersStay ==
  ASSUME GInv, Execute, NEW n \in Names
  PROVE  /\ running'[n].by \in {running[n].by, "nobody", "routevane"}
         /\ n \notin Scope(op) => running'[n] = running[n]
<1> PICK c : c = NextLine(op)
  OBVIOUS
<1>1. /\ c.name \in Names
      /\ c.do \in {"unroute", "drop", "create", "exclude", "include", "route", "save"}
  BY ExecuteFacts
<1>2. c.do # "save" => c.name \in Scope(op)
  BY <1>1, WhatHasGoneBy DEF Scope
<1>3. n # c.name \/ c.do = "save" => running'[n] = running[n]
  BY Effects
<1>4. running'[c.name].by \in {running[c.name].by, "nobody", "routevane"}
  <2>1. \/ running'[c.name] = running[c.name] \/ running'[c.name] = Absent
        \/ running'[c.name] = [by |-> "routevane", entries |-> {}, route |-> "none"]
        \/ running'[c.name].by = running[c.name].by
    BY Effects
  <2> QED
    BY <2>1 DEF Absent
<1> QED
  BY <1>2, <1>3, <1>4

LEMMA ExecuteCompletesTheFile ==
  ASSUME GInv, Execute
  PROVE  LinesCompleteTheFile'
<1> PICK c : c = NextLine(op)
  OBVIOUS
<1>0. /\ TypeOK /\ op.phase = "commands" /\ c \in op.todo /\ c.name \in Names /\ c.entry \in Entries
      /\ c.do \in {"unroute", "drop", "create", "exclude", "include", "route", "save"}
      /\ op'.todo = op.todo \ {c} /\ op'.file = op.file /\ op'.calm = op.calm
      /\ contested' = contested
  BY ExecuteFacts DEF GInv
<1> SUFFICES ASSUME NEW n \in Names, Steady(n)
             PROVE  /\ n \in Wanted(op.file) /\ (Exists(running', n) \/ Pending("create", n)') =>
                         \A e \in Entries :
                           e \in op.file[n] <=> \/ e \in running'[n].entries /\ ~ Pends("exclude", n, e)'
                                                \/ Pends("include", n, e)'
                    /\ \A e \in Entries : Pends("include", n, e)' => e \notin running'[n].entries
                    /\ Pending("exclude", n)' \/ Pending("include", n)' \/ Pending("drop", n)' =>
                         running'[n].route = "none" \/ Pending("unroute", n)'
  BY <1>0 DEF LinesCompleteTheFile, Steady, Exists
<1> PICK file : file = op.file[n]
  OBVIOUS
<1>b. /\ n \in Wanted(op.file) /\ (Exists(running, n) \/ Pending("create", n)) =>
           \A e \in Entries :
             e \in file <=> \/ e \in running[n].entries /\ ~ Pends("exclude", n, e)
                            \/ Pends("include", n, e)
      /\ \A e \in Entries : Pends("include", n, e) => e \notin running[n].entries
      /\ Pending("exclude", n) \/ Pending("include", n) \/ Pending("drop", n) =>
           running[n].route = "none" \/ Pending("unroute", n)
  BY <1>0 DEF GInv, LinesCompleteTheFile
<1>l. ASSUME NEW do
      PROVE  /\ Pending(do, n)' => Pending(do, n)
             /\ \A e \in Entries : Pends(do, n, e)' => Pends(do, n, e)
             /\ \A e \in Entries : Pends(do, n, e) => Pending(do, n)
             /\ c.do # do \/ c.name # n => /\ Pending(do, n)' <=> Pending(do, n)
                                           /\ \A e \in Entries : Pends(do, n, e)' <=> Pends(do, n, e)
             /\ c.do = do /\ c.name = n =>
                  /\ Pends(do, n, c.entry)
                  /\ \A e \in Entries : Pends(do, n, e)' <=> Pends(do, n, e) /\ e # c.entry
  BY <1>0, LinesLeft
<1>1. CASE c.name # n \/ c.do = "save"
  <2>1. running'[n] = running[n]
    BY <1>1, Effects
  <2>2. \A do \in {"unroute", "drop", "create", "exclude", "include"} :
          /\ Pending(do, n)' <=> Pending(do, n)
          /\ \A e \in Entries : Pends(do, n, e)' <=> Pends(do, n, e)
    BY <1>1, <1>l
  <2> QED
    BY <1>b, <2>1, <2>2 DEF Exists
<1>2. CASE c.name = n /\ c.do = "unroute"
  <2>1. /\ running'[n].route = "none"
        /\ running'[n].entries = running[n].entries /\ running'[n].by = running[n].by
    BY <1>2, Effects
  <2>2. \A do \in {"create", "exclude", "include"} :
          /\ Pending(do, n)' <=> Pending(do, n)
          /\ \A e \in Entries : Pends(do, n, e)' <=> Pends(do, n, e)
    BY <1>2, <1>l
  <2> QED
    BY <1>b, <2>1, <2>2 DEF Exists
<1>3. CASE c.name = n /\ c.do = "drop"
  <2>1. n \notin Wanted(op.file) /\ ~ Pending("unroute", n) /\ Pending("drop", n)
    BY <1>0, <1>3, WhatHasGoneBy DEF Pending
  <2>2. ~ Pending("include", n) /\ ~ Pending("exclude", n)
    BY <1>0, <2>1 DEF GInv, LinesAreOurs, Pending
  <2>3. running'[n] = running[n] \/ running'[n] = Absent
    BY <1>3, Effects
  <2>4. running'[n].route = "none"
    BY <1>b, <2>1, <2>3 DEF Absent
  <2> QED
    BY <1>l, <2>1, <2>2, <2>4
<1>4. CASE c.name = n /\ c.do = "create"
  <2>1. /\ running'[n].entries = running[n].entries /\ running'[n].route = running[n].route
        /\ Pending("create", n)
    <3>1. ~ Exists(running, n) => running[n] = Absent
      BY DEF GInv, ConfigurationsAreTidy, Tidy
    <3>2. \/ running'[n] = running[n]
          \/ /\ running'[n] = [by |-> "routevane", entries |-> {}, route |-> "none"]
             /\ ~ Exists(running, n)
      BY <1>4, Effects
    <3>3. CASE running'[n] = running[n]
      BY <1>0, <1>4, <3>3 DEF Pending
    <3>4. CASE running'[n] = [by |-> "routevane", entries |-> {}, route |-> "none"] /\ running[n] = Absent
      <4>1. Pending("create", n)
        BY <1>0, <1>4 DEF Pending
      <4> QED
        BY <3>4, <4>1 DEF Absent
    <3> QED
      BY <3>1, <3>2, <3>3, <3>4
  <2>2. \A do \in {"unroute", "drop", "exclude", "include"} :
          /\ Pending(do, n)' <=> Pending(do, n)
          /\ \A e \in Entries : Pends(do, n, e)' <=> Pends(do, n, e)
    BY <1>4, <1>l
  <2> QED
    BY <1>b, <2>1, <2>2
<1>5. CASE c.name = n /\ c.do = "exclude"
  <2>1. /\ running'[n].entries = running[n].entries \ {c.entry}
        /\ running'[n].route = running[n].route /\ running'[n].by = running[n].by
    BY <1>5, Effects
  <2>2. \A do \in {"unroute", "drop", "create", "include"} :
          /\ Pending(do, n)' <=> Pending(do, n)
          /\ \A e \in Entries : Pends(do, n, e)' <=> Pends(do, n, e)
    BY <1>5, <1>l
  <2>3. /\ Pends("exclude", n, c.entry) /\ Pending("exclude", n)
        /\ \A e \in Entries : Pends("exclude", n, e)' <=> Pends("exclude", n, e) /\ e # c.entry
    BY <1>0, <1>5, <1>l
  <2>4. ASSUME n \in Wanted(op.file), Exists(running, n) \/ Pending("create", n), NEW e \in Entries
        PROVE  e \in file <=> \/ e \in running'[n].entries /\ ~ Pends("exclude", n, e)'
                              \/ Pends("include", n, e)'
    <3>1. e \in file <=> \/ e \in running[n].entries /\ ~ Pends("exclude", n, e)
                         \/ Pends("include", n, e)
      BY <1>b, <2>4
    <3>2. CASE e = c.entry
      BY <2>1, <2>2, <2>3, <3>1, <3>2
    <3>3. CASE e # c.entry
      BY <2>1, <2>2, <2>3, <3>1, <3>3
    <3> QED
      BY <3>2, <3>3
  <2>5. Exists(running', n) \/ Pending("create", n)' => Exists(running, n) \/ Pending("create", n)
    BY <2>1, <2>2 DEF Exists
  <2> QED
    BY <1>b, <2>1, <2>2, <2>3, <2>4, <2>5
<1>6. CASE c.name = n /\ c.do = "include"
  <2>1. /\ n \in Wanted(op.file) /\ ~ Pending("create", n) /\ ~ Pending("exclude", n)
        /\ ~ Pending("drop", n)
    BY <1>6, WhatHasGoneBy
  <2>2. /\ Pends("include", n, c.entry) /\ Pending("include", n)
        /\ \A e \in Entries : Pends("include", n, e)' <=> Pends("include", n, e) /\ e # c.entry
    BY <1>0, <1>6, <1>l
  <2>3. /\ ~ Pending("create", n)' /\ ~ Pending("exclude", n)' /\ ~ Pending("drop", n)'
        /\ \A e \in Entries : ~ Pends("exclude", n, e) /\ ~ Pends("exclude", n, e)'
        /\ Pending("unroute", n)' <=> Pending("unroute", n)
    BY <1>6, <1>l, <2>1
  <2>4. CASE Accepts(running, c)
    <3>1. running'[n].entries = running[n].entries \cup {c.entry}
      BY <1>6, <2>4, Effects
    <3>2. running'[n].route = running[n].route /\ running'[n].by = running[n].by
      BY <1>6, Effects
    <3>3. ASSUME Exists(running, n), NEW e \in Entries
          PROVE  e \in file <=> e \in running'[n].entries \/ Pends("include", n, e)'
      <4>1. e \in file <=> e \in running[n].entries \/ Pends("include", n, e)
        BY <1>b, <2>1, <2>3, <3>3
      <4>2. CASE e = c.entry
        BY <2>2, <3>1, <4>1, <4>2
      <4>3. CASE e # c.entry
        BY <2>2, <3>1, <4>1, <4>3
      <4> QED
        BY <4>2, <4>3
    <3>4. ASSUME NEW e \in Entries, Pends("include", n, e)' PROVE e \notin running'[n].entries
      BY <1>b, <2>2, <3>1, <3>4
    <3>5. Exists(running', n) => Exists(running, n)
      BY <3>2 DEF Exists
    <3> QED
      BY <1>b, <2>2, <2>3, <3>2, <3>3, <3>4, <3>5
  <2>5. CASE ~ Accepts(running, c)
    <3>1. running' = running /\ ~ Exists(running, n)
      BY <1>6, <2>5, ExecuteFacts, EntriesFit
    <3> QED
      BY <1>b, <1>l, <2>2, <2>3, <3>1
  <2> QED
    BY <2>4, <2>5
<1>7. CASE c.name = n /\ c.do = "route"
  <2>1. /\ ~ Pending("exclude", n) /\ ~ Pending("include", n) /\ ~ Pending("drop", n)
    BY <1>7, WhatHasGoneBy
  <2>2. running'[n].entries = running[n].entries /\ running'[n].by = running[n].by
    BY <1>7, Effects
  <2>3. \A do \in {"create", "exclude", "include", "drop"} :
          /\ Pending(do, n)' <=> Pending(do, n)
          /\ \A e \in Entries : Pends(do, n, e)' <=> Pends(do, n, e)
    BY <1>7, <1>l
  <2> QED
    BY <1>b, <2>1, <2>2, <2>3 DEF Exists
<1> QED
  BY <1>0, <1>1, <1>2, <1>3, <1>4, <1>5, <1>6, <1>7

LEMMA ExecuteFindsRoom ==
  ASSUME GInv, Execute
  PROVE  LinesFindRoom'
<1> PICK c : c = NextLine(op)
  OBVIOUS
<1>0. /\ TypeOK /\ op.phase = "commands" /\ c \in op.todo /\ c.name \in Names
      /\ c.do \in {"unroute", "drop", "create", "exclude", "include", "route", "save"}
      /\ op'.todo = op.todo \ {c} /\ op'.file = op.file /\ op'.calm = op.calm /\ op'.owned = op.owned
      /\ op.owned \subseteq Names
  BY ExecuteFacts, OpFacts DEF GInv
<1> SUFFICES ASSUME op.calm
             PROVE  /\ \A n \in Names : Pending("include", n)' \/ Pending("route", n)' =>
                         Exists(running', n) \/ Pending("create", n)'
                    /\ \A n \in op.owned \ Wanted(op.file) : Exists(running', n) => Pending("drop", n)'
                    /\ ~ Overfull(op, running)'
  BY <1>0 DEF LinesFindRoom, Exists
<1>a. Accepts(running, c)
  BY CalmLinesAreAccepted
<1>b. /\ \A n \in Names : Pending("include", n) \/ Pending("route", n) =>
           Exists(running, n) \/ Pending("create", n)
      /\ \A n \in op.owned \ Wanted(op.file) : Exists(running, n) => Pending("drop", n)
      /\ ~ Overfull(op, running)
  BY <1>0 DEF GInv, LinesFindRoom
<1>e. ASSUME NEW n \in Names
      PROVE  /\ n # c.name \/ c.do \notin {"drop", "create"} =>
                  (Exists(running', n) <=> Exists(running, n))
             /\ n = c.name /\ c.do = "drop" => ~ Exists(running', n) /\ n \notin Wanted(op.file)
             /\ n = c.name /\ c.do = "create" => Exists(running', n) /\ n \in Wanted(op.file)
  <2>1. n # c.name \/ c.do = "save" => running'[n] = running[n]
    BY Effects
  <2>2. n = c.name /\ c.do \in {"unroute", "exclude", "include", "route"} => running'[n].by = running[n].by
    BY Effects
  <2>3. n = c.name /\ c.do = "drop" => running'[n] = Absent /\ n \notin Wanted(op.file)
    BY <1>a, Effects, WhatHasGoneBy
  <2>4. n = c.name /\ c.do = "create" => Exists(running', n) /\ n \in Wanted(op.file)
    BY <1>a, Effects, WhatHasGoneBy
  <2> QED
    BY <1>0, <2>1, <2>2, <2>3, <2>4 DEF Exists, Absent
<1>l. ASSUME NEW do, NEW n \in Names
      PROVE  /\ Pending(do, n)' => Pending(do, n)
             /\ c.do # do \/ c.name # n => (Pending(do, n)' <=> Pending(do, n))
  BY <1>0, LinesLeft
<1>1. ASSUME NEW n \in Names, Pending("include", n)' \/ Pending("route", n)'
      PROVE  Exists(running', n) \/ Pending("create", n)'
  <2>1. n \in Wanted(op.file)
    BY <1>0, <1>1, <1>l DEF GInv, LinesAreOurs, Pending
  <2>2. Exists(running, n) \/ Pending("create", n)
    BY <1>1, <1>b, <1>l
  <2>3. CASE n = c.name /\ c.do = "create"
    BY <1>e, <2>3
  <2>4. CASE n # c.name \/ c.do # "create"
    BY <1>e, <1>l, <2>1, <2>2, <2>4
  <2> QED
    BY <2>3, <2>4
<1>2. ASSUME NEW n \in op.owned \ Wanted(op.file), Exists(running', n)
      PROVE  Pending("drop", n)'
  <2>1. n \in Names /\ ~ (n = c.name /\ c.do \in {"drop", "create"})
    BY <1>0, <1>2, <1>e
  <2> QED
    BY <1>2, <1>b, <1>e, <1>l, <2>1
<1>3. ~ Overfull(op, running)'
  <2> PICK S : S = (Present(running) \ op.owned) \cup Wanted(op.file)
    OBVIOUS
  <2> PICK T : T = (Present(running') \ op.owned) \cup Wanted(op.file)
    OBVIOUS
  <2>1. T \subseteq S /\ S \subseteq Names
    BY <1>0, <1>e DEF Present, Wanted
  <2>2. IsFiniteSet(S)
    BY <2>1, NumbersAssumption, FS_Subset
  <2>3. Cardinality(T) <= Cardinality(S) /\ Cardinality(T) \in Nat /\ Cardinality(S) \in Nat
    BY <2>1, <2>2, FS_Subset, FS_CardinalityType
  <2>4. ~ (Cardinality(S) > MaxGroups)
    BY <1>b DEF Overfull, GroupsAfter
  <2>5. ~ (Cardinality(T) > MaxGroups)
    BY <2>3, <2>4, BoundsAssumption
  <2> QED
    BY <1>0, <2>5 DEF Overfull, GroupsAfter, Present, Exists
<1> QED
  BY <1>1, <1>2, <1>3

(* A route is attached to a group that is what the file says.              *)
LEMMA ExecuteKeepsGroupsWhole ==
  ASSUME GInv, Execute
  PROVE  GroupsAreWhole'
<1> PICK c : c = NextLine(op)
  OBVIOUS
<1>0. /\ TypeOK /\ op.phase = "commands" /\ c \in op.todo /\ c.name \in Names
      /\ c.do \in {"unroute", "drop", "create", "exclude", "include", "route", "save"}
      /\ op'.phase = op.phase /\ op'.backup = op.backup /\ contested' = contested
      /\ saved' = IF c.do = "save" THEN running ELSE saved
  BY ExecuteFacts DEF GInv
<1>1. Whole(running) /\ Whole(saved) /\ Whole(op.backup)
  BY <1>0 DEF GInv, GroupsAreWhole, BackedUp
<1>2. ASSUME NEW n \in Names \ contested, Ours(running', n), running'[n].route # "none"
      PROVE  \E o \in Outputs : \E file \in Files[o] : running'[n].entries = file[n]
  <2>1. CASE running'[n] = running[n]
    BY <1>1, <1>2, <2>1 DEF Whole, Ours
  <2>2. CASE running'[n] # running[n]
    <3>1. n = c.name /\ Steady(n)
      BY <1>2, <2>2, Effects DEF Steady
    <3>2. CASE c.do \in {"unroute", "drop", "create", "save"}
      <4>1. running'[n].route = "none"
        BY <2>2, <3>1, <3>2, Effects DEF Absent
      <4> QED
        BY <1>2, <4>1
    <3>3. CASE c.do \in {"exclude", "include"}
      <4>1. Pending(c.do, n) /\ ~ Pending("unroute", n)
        BY <1>0, <3>1, <3>3, WhatHasGoneBy DEF Pending
      <4>2. running[n].route = "none"
        BY <1>0, <3>1, <3>3, <4>1 DEF GInv, LinesCompleteTheFile
      <4>3. running'[n].route = running[n].route
        BY <3>1, <3>3, Effects
      <4> QED
        BY <1>2, <4>2, <4>3
    <3>4. CASE c.do = "route"
      <4>1. /\ running'[n].entries = running[n].entries /\ running'[n].by = running[n].by
            /\ n \in Wanted(op.file) /\ ~ Pending("exclude", n) /\ ~ Pending("include", n)
        BY <3>1, <3>4, Effects, WhatHasGoneBy
      <4>2. Exists(running, n)
        BY <1>2, <4>1 DEF Ours, Exists
      <4>3. \A e \in Entries : e \in op.file[n] <=> e \in running[n].entries
        <5>1. \A e \in Entries : ~ Pends("exclude", n, e) /\ ~ Pends("include", n, e)
          BY <4>1 DEF Pending, Pends
        <5> QED
          BY <1>0, <3>1, <4>1, <4>2, <5>1 DEF GInv, LinesCompleteTheFile
      <4>4. op.file[n] \subseteq Entries /\ running[n].entries \subseteq Entries
        BY <1>0, <1>2 DEF TypeOK, Request, Configuration, Group
      <4>5. running'[n].entries = op.file[n]
        BY <4>1, <4>3, <4>4
      <4>6. op.output \in Outputs /\ op.file \in Files[op.output]
        <5>1. op.output \in Outputs /\ op.file \in Files[op.output] \cup {Nothing}
          BY <1>0 DEF GInv, TypeOK, Request, RequestIsSane
        <5>2. op.file # Nothing
          BY <4>1 DEF Wanted, Nothing
        <5> QED
          BY <5>1, <5>2
      <4> QED
        BY <4>5, <4>6
    <3> QED
      BY <1>0, <3>2, <3>3, <3>4
  <2> QED
    BY <2>1, <2>2
<1>3. Whole(saved)'
  BY <1>0, <1>1 DEF Whole, Ours
<1> QED
  BY <1>0, <1>1, <1>2, <1>3 DEF GroupsAreWhole, Whole, Ours

LEMMA ExecuteKeeps ==
  ASSUME GInv, Execute
  PROVE  GInv'
<1> PICK c : c = NextLine(op)
  OBVIOUS
<1>0. /\ TypeOK /\ op.phase = "commands" /\ c \in op.todo /\ c.name \in Names
      /\ c.do \in {"unroute", "drop", "create", "exclude", "include", "route", "save"}
      /\ op' \in Request /\ op'.phase = op.phase /\ op'.output = op.output /\ op'.file = op.file
      /\ op'.owned = op.owned /\ op'.backup = op.backup /\ op'.todo = op.todo \ {c}
      /\ op'.sent = op.sent /\ op'.calm = op.calm
      /\ saved' = IF c.do = "save" THEN running ELSE saved
      /\ UNCHANGED <<ledger, contested, stranded, upsets>>
  BY ExecuteFacts DEF GInv
<1>f. op'.refused <=> op.refused \/ ~ Accepts(running, c)
  BY ExecuteFacts
<1>s. Scope(op') = Scope(op) /\ Scope(op)' = Scope(op) /\ Wanted(op'.file) = Wanted(op.file)
  BY <1>0 DEF Scope
<1>w. (c.do = "save" => c = SaveLine /\ op.todo = {c}) /\ op.sent
  BY <1>0, WhatHasGoneBy DEF GInv, RequestIsSane
<1>r. running' \in Configuration
  BY Effects
<1>1. TypeOK'
  BY <1>0, <1>r DEF TypeOK
<1>2. ConfigurationsAreTidy'
  <2>1. Tidy(running) /\ Tidy(saved) /\ Tidy(op.backup)
    BY DEF GInv, ConfigurationsAreTidy
  <2>2. ASSUME NEW n \in Names, ~ Exists(running', n) PROVE running'[n] = Absent
    <3>1. CASE running'[n] = running[n]
      BY <2>1, <2>2, <3>1 DEF Tidy, Exists
    <3>2. CASE running'[n] # running[n]
      <4>1. n = c.name /\ Accepts(running, c)
        BY <3>2, Effects
      <4>2. CASE c.do \in {"drop", "create"}
        BY <2>2, <4>1, <4>2, Effects
      <4>3. CASE c.do \in {"include", "route"}
        <5>1. Exists(running, n) /\ running'[n].by = running[n].by
          BY <4>1, <4>3, Effects DEF Accepts
        <5> QED
          BY <2>2, <5>1 DEF Exists
      <4>4. CASE c.do = "exclude"
        <5>1. /\ running'[n].by = running[n].by /\ running'[n].route = running[n].route
              /\ running'[n].entries = running[n].entries \ {c.entry}
          BY <4>1, <4>4, Effects
        <5>2. running[n] = Absent
          BY <2>1, <2>2, <5>1 DEF Tidy, Exists
        <5>3. running'[n] \in Group
          BY <1>r DEF Configuration
        <5> QED
          BY <5>1, <5>2, <5>3 DEF Group, Absent
      <4>5. CASE c.do = "unroute"
        <5>1. /\ running'[n].by = running[n].by /\ running'[n].route = "none"
              /\ running'[n].entries = running[n].entries
          BY <3>2, <4>1, <4>5, Effects
        <5>2. running[n] = Absent
          BY <2>1, <2>2, <5>1 DEF Tidy, Exists
        <5>3. running'[n] \in Group
          BY <1>r DEF Configuration
        <5> QED
          BY <5>1, <5>2, <5>3 DEF Group, Absent
      <4>6. CASE c.do = "save"
        BY <3>2, <4>6, Effects
      <4> QED
        BY <1>0, <4>2, <4>3, <4>4, <4>5, <4>6
    <3> QED
      BY <3>1, <3>2
  <2>3. Tidy(running')
    BY <2>2 DEF Tidy
  <2>4. Tidy(saved')
    BY <1>0, <2>1
  <2> QED
    BY <1>0, <2>1, <2>3, <2>4 DEF ConfigurationsAreTidy, Tidy, Exists
<1>3. RequestIsSane'
  <2>1. op.calm => Accepts(running, c)
    BY CalmLinesAreAccepted
  <2>2. op'.refused => op'.phase \in {"commands", "restore", "confirm"} /\ ~ op'.calm
    BY <1>0, <1>f, <2>1 DEF GInv, RequestIsSane
  <2> QED
    BY <1>0, <2>2 DEF GInv, RequestIsSane
<1>4. LinesAreOurs'
  <2>1. SaveLine.do = "save"
    BY LineFacts
  <2> QED
    BY <1>0, <1>s, <1>w, <2>1 DEF GInv, LinesAreOurs
<1>5. LinesCompleteTheFile' /\ LinesFindRoom' /\ GroupsAreWhole'
  BY ExecuteCompletesTheFile, ExecuteFindsRoom, ExecuteKeepsGroupsWhole
<1>6. LedgersNameOurs'
  <2>1. ASSUME NEW n \in Names, Free(n)', Settled(n)'
        PROVE  (Ours(running', n) <=> OnRecord(n)) /\ (Ours(saved', n) <=> OnRecord(n))
    <3>1. Free(n) /\ n \notin Scope(op) /\ Settled(n)
      BY <1>0, <1>s, <1>w, <2>1 DEF Free, Settled
    <3>2. (Ours(running, n) <=> OnRecord(n)) /\ (Ours(saved, n) <=> OnRecord(n))
      BY <3>1 DEF GInv, LedgersNameOurs
    <3>3. running'[n] = running[n]
      BY <3>1, MakersStay
    <3> QED
      BY <1>0, <3>2, <3>3 DEF Ours
  <2>2. \A n \in Names : Free(n) => (Ours(op.backup, n) <=> OnRecord(n))
    BY <1>0 DEF GInv, LedgersNameOurs, BackedUp
  <2> QED
    BY <1>0, <2>1, <2>2 DEF LedgersNameOurs, Ours, OnRecord, Free
<1>7. NobodyElses'
  <2>1. ASSUME NEW n \in Names \ contested, OnRecord(n)
        PROVE  running'[n].by # "operator" /\ saved'[n].by # "operator" /\ op.backup[n].by # "operator"
    <3>1. running[n].by # "operator" /\ saved[n].by # "operator" /\ op.backup[n].by # "operator"
      BY <1>0, <2>1 DEF GInv, NobodyElses, BackedUp
    <3> QED
      BY <1>0, <3>1, MakersStay
  <2>2. ASSUME NEW n \in Scope(op) \ contested
        PROVE  running'[n].by # "operator"
    <3>1. n \in Names /\ running[n].by # "operator"
      BY <1>0, <2>2 DEF GInv, NobodyElses, TypeOK, Request, Scope, Wanted
    <3> QED
      BY <3>1, MakersStay
  <2> QED
    BY <1>0, <1>s, <2>1, <2>2 DEF NobodyElses, OnRecord
<1>8. DeliveredIsSaved'
  <2>1. ASSUME op'.todo = {} PROVE saved' = running'
    <3>1. SaveLine \in op.todo
      BY <1>0 DEF GInv, LinesAreOurs
    <3>2. c = SaveLine /\ c.do = "save"
      BY <1>0, <2>1, <3>1, LineFacts
    <3>3. saved' = running /\ \A n \in Names : running'[n] = running[n]
      BY <1>0, <3>2, Effects
    <3> QED
      BY <1>0, <1>r, <3>3 DEF TypeOK, Configuration
  <2> QED
    BY <1>0, <1>s, <2>1 DEF DeliveredIsSaved
<1> QED
  BY <1>1, <1>2, <1>3, <1>4, <1>5, <1>6, <1>7, <1>8 DEF GInv

----------------------------------------------------------------------------
(* The theorems.                                                           *)

LEMMA InitHolds == Init => GInv
<1> SUFFICES ASSUME Init PROVE GInv
  OBVIOUS
<1>0. /\ op = Idle /\ saved = running /\ ledger = [o \in Outputs |-> {}]
      /\ contested = {} /\ stranded = {} /\ upsets = 0
      /\ running \in [Names -> {Absent, [by |-> "operator", entries |-> Entries, route |-> "here"]}]
  BY DEF Init
<1>1. \A n \in Names : running[n] \in Group /\ ~ Ours(running, n)
  BY <1>0 DEF Group, Makers, Routes, Absent, Ours
<1>2. TypeOK
  BY <1>0, <1>1, IdleFacts DEF TypeOK, Configuration
<1>3. ConfigurationsAreTidy
  BY <1>0, IdleFacts DEF ConfigurationsAreTidy, Tidy, Exists, Absent
<1>4. RequestIsSane
  BY <1>0, IdleFacts DEF RequestIsSane
<1>5. LinesAreOurs /\ LinesCompleteTheFile /\ LinesFindRoom /\ DeliveredIsSaved
  BY <1>0, IdleFacts DEF LinesAreOurs, LinesCompleteTheFile, LinesFindRoom, DeliveredIsSaved
<1>6. GroupsAreWhole /\ LedgersNameOurs /\ NobodyElses
  BY <1>0, <1>1, IdleFacts DEF GroupsAreWhole, Whole, BackedUp, LedgersNameOurs, NobodyElses, OnRecord, Ours
<1> QED
  BY <1>2, <1>3, <1>4, <1>5, <1>6 DEF GInv

LEMMA StutterKeeps ==
  ASSUME GInv, UNCHANGED vars
  PROVE  GInv'
<1> USE DEF vars, router, history
<1>1. TypeOK' /\ ConfigurationsAreTidy' /\ RequestIsSane'
  BY DEF GInv, TypeOK, ConfigurationsAreTidy, Tidy, Exists, RequestIsSane
<1>2. LinesAreOurs' /\ LinesCompleteTheFile'
  BY DEF GInv, LinesAreOurs, Scope, Wanted, LinesCompleteTheFile, Steady, Pending, Pends, Exists
<1>3. LinesFindRoom' /\ DeliveredIsSaved'
  BY DEF GInv, LinesFindRoom, Pending, Exists, Overfull, GroupsAfter, Present, Wanted, DeliveredIsSaved, Scope
<1>4. GroupsAreWhole' /\ LedgersNameOurs' /\ NobodyElses'
  BY DEF GInv, GroupsAreWhole, Whole, Ours, BackedUp, LedgersNameOurs, OnRecord, Free, Settled, Scope, Wanted, NobodyElses
<1> QED
  BY <1>1, <1>2, <1>3, <1>4 DEF GInv

LEMMA NextKeeps ==
  ASSUME GInv, [Next]_vars
  PROVE  GInv'
<1>1. ASSUME Ask PROVE GInv'
  BY <1>1, ReceiveKeeps DEF Ask
<1>2. ASSUME Deliver PROVE GInv'
  BY <1>2, PrepareKeeps, TakeBackupKeeps, ReconcileKeeps, ExecuteKeeps, AnswerKeeps, VerifyKeeps,
     PersistKeeps, StepFailsKeeps, UploadBackupKeeps, ConfirmRestoredKeeps, RestoreFailsKeeps DEF Deliver
<1> QED
  BY <1>1, <1>2, RetireKeeps, OutsideKeeps, CrashKeeps, StutterKeeps DEF Next

(* The invariant holds in every reachable state.                           *)
THEOREM GroupsInvariance == Spec => []GInv
<1>1. GInv /\ [Next]_vars => GInv'
  BY NextKeeps
<1> QED
  BY InitHolds, <1>1, PTL DEF Spec

(* The command lines come in an order the router accepts: as long as       *)
(* nobody else changes the router in between, none is refused.             *)
THEOREM LinesInOrder == Spec => []LinesAreAccepted
<1>1. GInv => LinesAreAccepted
  BY DEF GInv, RequestIsSane, LinesAreAccepted
<1> QED
  BY GroupsInvariance, <1>1, PTL

(* A group of ours that is routed has the entries of a whole file, between *)
(* any two lines, after a crash and after a failed restore.                *)
THEOREM NoHalfFilledRoutes == Spec => []RoutedGroupsAreWhole
<1>1. GInv => RoutedGroupsAreWhole
  BY DEF GInv, GroupsAreWhole, Whole, Ours, RoutedGroupsAreWhole
<1> QED
  BY GroupsInvariance, <1>1, PTL

(* Between requests the ledgers name exactly the groups Routevane made,    *)
(* apart from those an interruption or somebody else has touched.          *)
THEOREM RecordTruth == Spec => []RecordsAreTrue
<1>1. GInv => RecordsAreTrue
  <2> SUFFICES ASSUME GInv, op.phase = "idle", NEW n \in Names \ (contested \cup stranded)
               PROVE  running[n].by = "routevane" <=> \E o \in Outputs : n \in ledger[o]
    BY DEF RecordsAreTrue
  <2>1. Free(n) /\ Settled(n)
    BY DEF Free, Settled, GInv, RequestIsSane
  <2> QED
    BY <2>1 DEF GInv, LedgersNameOurs, Ours, OnRecord
<1> QED
  BY GroupsInvariance, <1>1, PTL

(* No command line changes a group somebody else made.                     *)
THEOREM ForeignGroupsAreLeftAlone == Spec => ForeignGroupsStay
<1>1. ASSUME GInv, [Next]_vars, NEW n \in Names \ contested, running[n].by = "operator", Execute
      PROVE  running'[n] = running[n]
  <2>1. n \notin Scope(op)
    <3>1. op.phase = "commands"
      BY <1>1 DEF Execute
    <3> QED
      BY <1>1, <3>1 DEF GInv, NobodyElses
  <2> QED
    BY <1>1, <2>1, MakersStay
<1>2. GInv /\ [Next]_vars =>
        [\A n \in Names \ contested :
           running[n].by = "operator" /\ Execute => running'[n] = running[n]]_vars
  BY <1>1
<1> QED
  BY GroupsInvariance, <1>2, PTL DEF Spec, ForeignGroupsStay

=============================================================================
