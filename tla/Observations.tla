--------------------------- MODULE Observations ---------------------------
(***************************************************************************)
(* The observations of one list.  A refresh reads the automatic sources of *)
(* the list one after the other and stores each answer, or that there was  *)
(* none, as a cycle of its own; all of its cycles carry the time at which  *)
(* it began.  Refreshes run concurrently (the timer, a card, the command   *)
(* line), so that their cycles are stored in any order.  A build reads the *)
(* sightings of the sources its definition names; the card of the list     *)
(* tells how fresh they are and what the latest read changed.              *)
(***************************************************************************)
EXTENDS Freshness, Sequences

CONSTANTS Workers,         \* refreshes that can run at a time
          Sources,         \* the sources of the list, in the order of the definition
          Feeds,           \* the sources that are feeds; the others are DNS lookups
          Bodies,          \* what each source may answer: sets of entries
          Junk,            \* an entry that is no address, network or name
          MaxEntries,      \* the most entries an answer may have
          Validity,        \* how long what a source reports is valid
          Revisions,       \* the revision of each source in each catalog
          MaxTime,         \* bound: ticks of the clock
          MaxRefreshes     \* bound: refreshes begun

SourceSet == {Sources[i] : i \in 1 .. Len(Sources)}

ASSUME SourcesAreDescribed ==
  /\ Sources \in Seq(SourceSet)
  /\ \A s \in SourceSet : Validity[s] \in Nat \ {0}
  /\ Feeds \subseteq SourceSet
ASSUME CatalogsAreNumbered == 1 \in DOMAIN Revisions

\* An entry is archived only after every grace that may keep it has ended: the
\* grace is a day, the retention of what has expired ninety.
ASSUME GraceEndsBeforeArchive == \A s \in SourceSet : Grace <= Validity[s] + Retention

VARIABLES now,       \* the clock
          catalog,   \* the revision of the catalog the program was started with
          enabled,   \* the sources the operator has not switched off
          format,    \* the catalog revision in the list's format record
          sightings, \* what is stored of each value a source reported
          runs,      \* the stored cycles
          refresh,   \* the refreshes that are running, and whom each still has to ask
          started,   \* refreshes begun so far
          answered   \* history: every answer that was stored, with its time

observationsVars == <<now, catalog, enabled, format, sightings, runs, refresh, started, answered>>

Identity(s) == [source |-> s, revision |-> Revisions[catalog][s]]

\* The source identities of the effective definition: a source that is off, and
\* an earlier revision of one that is on, are not among them.
Definition == {Identity(s) : s \in enabled}

Of(record) == [source |-> record.source, revision |-> record.revision]

RunsOf(id) == {r \in runs : Of(r) = id}

-----------------------------------------------------------------------------
(* What a source makes of an answer; the empty set is a failed cycle.      *)

Small(values) == IF Cardinality(values) <= MaxEntries THEN values ELSE {}

\* A feed skips what it cannot read, and fails when nothing is left.
FeedValues(body) == Small(body \ {Junk})

\* A lookup fails as a whole when one of its answers is no address.
LookupValues(body) == IF Junk \in body THEN {} ELSE Small(body)

Observed(s, body) == IF s \in Feeds THEN FeedValues(body) ELSE LookupValues(body)

-----------------------------------------------------------------------------
(* A refresh.                                                              *)

Idle == [phase |-> "idle", at |-> Never, asked |-> {}]

ObservationsInit ==
  /\ now = 1 /\ catalog = 1 /\ enabled = SourceSet /\ format = 0
  /\ sightings = {} /\ runs = {} /\ answered = {}
  /\ refresh = [w \in Workers |-> Idle] /\ started = 0

\* The time is taken, and the manual cycle writes the format record before any
\* source is asked.
Start(w) ==
  /\ refresh[w].phase = "idle" /\ started < MaxRefreshes
  /\ started' = started + 1
  /\ format' = catalog
  /\ refresh' = [refresh EXCEPT ![w] =
        [Idle EXCEPT !.phase = "reading", !.at = now, !.asked = Definition]]
  /\ UNCHANGED <<now, catalog, enabled, sightings, runs, answered>>

Asking(w) == refresh[w].phase = "reading" /\ refresh[w].asked # {}

\* The sources are asked in the order of the definition.
Position(s) == CHOOSE i \in 1 .. Len(Sources) : Sources[i] = s

Asked(w) ==
  CHOOSE id \in refresh[w].asked :
    \A other \in refresh[w].asked : Position(id.source) <= Position(other.source)

Cycle(id, at, ok) == [source |-> id.source, revision |-> id.revision, at |-> at, ok |-> ok]

\* The earliest first and the latest last stamp are kept, whatever the order in
\* which cycles are stored.
Reported(id, at, values) ==
  LET earlier(v) == {r \in sightings : Of(r) = id /\ r.value = v}
      row(v) == [source |-> id.source, revision |-> id.revision, value |-> v,
                 first |-> Min({at} \cup {r.first : r \in earlier(v)}),
                 last |-> Max({at} \cup {r.last : r \in earlier(v)}),
                 until |-> Max({at + Validity[id.source]} \cup {r.until : r \in earlier(v)})]
  IN  {r \in sightings : Of(r) # id \/ r.value \notin values} \cup {row(v) : v \in values}

Answer(w) ==
  /\ Asking(w)
  /\ \E values \in {Observed(Asked(w).source, b) : b \in Bodies[Asked(w).source]} \ {{}} :
       /\ sightings' = Reported(Asked(w), refresh[w].at, values)
       /\ answered' = answered \cup
            {[source |-> Asked(w).source, revision |-> Asked(w).revision,
              at |-> refresh[w].at, values |-> values]}
  /\ runs' = runs \cup {Cycle(Asked(w), refresh[w].at, TRUE)}
  /\ refresh' = [refresh EXCEPT ![w].asked = @ \ {Asked(w)}]
  /\ UNCHANGED <<now, catalog, enabled, format, started>>

\* The source could not be reached, refused, or did not answer in time, or its
\* answer is of no use.
NoAnswer(w) ==
  /\ Asking(w)
  /\ runs' = runs \cup {Cycle(Asked(w), refresh[w].at, FALSE)}
  /\ refresh' = [refresh EXCEPT ![w].asked = @ \ {Asked(w)}]
  /\ UNCHANGED <<now, catalog, enabled, format, sightings, started, answered>>

\* The caller went away, or a cycle could not be stored.
GiveUp(w) ==
  /\ refresh[w].phase = "reading"
  /\ refresh' = [refresh EXCEPT ![w] = Idle]
  /\ UNCHANGED <<now, catalog, enabled, format, sightings, runs, started, answered>>

InGrace(id, cutoff) == Degraded(Health(RunsOf(id)), cutoff)

Answered(w) == refresh[w].phase = "reading" /\ refresh[w].asked = {}

Finish(w) ==
  /\ Answered(w)
  /\ refresh' = [refresh EXCEPT ![w] = Idle]
  /\ UNCHANGED <<now, catalog, enabled, format, sightings, runs, started, answered>>

-----------------------------------------------------------------------------
(* Around the refreshes.                                                   *)

SetListSourceEnabled(s) ==
  /\ enabled' = IF s \in enabled THEN enabled \ {s} ELSE enabled \cup {s}
  /\ UNCHANGED <<now, catalog, format, sightings, runs, refresh, started, answered>>

\* The program stops, its refreshes with it, and starts again, perhaps with the
\* next catalog.
Restart ==
  /\ refresh' = [w \in Workers |-> Idle]
  /\ catalog' \in {catalog, catalog + 1} \cap DOMAIN Revisions
  /\ UNCHANGED <<now, enabled, format, sightings, runs, started, answered>>

Tick ==
  /\ now < MaxTime /\ now' = now + 1
  /\ UNCHANGED <<catalog, enabled, format, sightings, runs, refresh, started, answered>>

ObservationsNext ==
  \/ \E w \in Workers : Start(w) \/ Answer(w) \/ NoAnswer(w) \/ GiveUp(w) \/ Finish(w)
  \/ \E s \in SourceSet : SetListSourceEnabled(s)
  \/ Restart
  \/ Tick

ObservationsSpec == ObservationsInit /\ [][ObservationsNext]_observationsVars

-----------------------------------------------------------------------------
(* What a build and the card read.                                         *)

Snapshot == {r \in sightings : Of(r) \in Definition}

\* The observed material of a plan at a cutoff: the sightings of the effective
\* sources that are fresh, or stale and kept under grace.
Admitted(cutoff) == {r \in Snapshot : Counts(r, Health(RunsOf(Of(r))), cutoff)}

\* The rows of the card that come from a source.
CardRows(cutoff) ==
  {r \in Snapshot : LifecycleAt(r.until, cutoff) = "valid"}

SourceState(id, cutoff) ==
  LET health == Health(RunsOf(id))
      lapsed == \E r \in sightings : /\ Of(r) = id /\ r.last = health.success
                                     /\ LifecycleAt(r.until, cutoff) # "valid"
  IN  CASE format = 0 -> "unread"
        [] format # catalog -> "stale"
        [] RunsOf(id) = {} -> "unread"
        [] LastRunFailed(health) -> "failed"
        [] health.success = Never \/ cutoff < health.success -> "unread"
        [] lapsed -> "stale"
        [] OTHER -> "ready"

ListState(cutoff) ==
  LET states == {SourceState(id, cutoff) : id \in Definition}
  IN  CASE states = {} -> "none"
        [] "failed" \in states -> "failed"
        [] states = {"unread"} -> "never"
        [] states = {"ready"} -> "fresh"
        [] OTHER -> "stale"

LastRead(cutoff) ==
  Latest({t \in {Health(RunsOf(id)).success : id \in Definition} : t <= cutoff})

\* The sources read at the latest read.
ReadLast(cutoff) ==
  {id \in Definition : Health(RunsOf(id)).success = LastRead(cutoff)}

ActiveStamps == {r \in sightings : Of(r) \in Definition}

Added(cutoff) ==
  {v \in {r.value : r \in ActiveStamps} :
     Min({r.first : r \in {t \in ActiveStamps : t.value = v}}) = LastRead(cutoff)}

\* Mutant: everything last seen before the latest read was removed by it.
AllOlder(cutoff) ==
  {r.value : r \in {t \in ActiveStamps : Of(t) \in ReadLast(cutoff) /\ t.last < LastRead(cutoff)}}
    \ {r.value : r \in {t \in ActiveStamps : t.last = LastRead(cutoff)}}

Removed(cutoff) ==
  {r.value : r \in {t \in ActiveStamps : /\ Of(t) \in ReadLast(cutoff)
                                         /\ Health(RunsOf(Of(t))).previous # Never
                                         /\ t.last = Health(RunsOf(Of(t))).previous}}
    \ {r.value : r \in {t \in ActiveStamps : t.last = LastRead(cutoff)}}

-----------------------------------------------------------------------------
(* Properties.                                                             *)

Replies(id, at) == UNION {a.values : a \in {b \in answered : Of(b) = id /\ b.at = at}}

\* What the answers given so far promise of the sources in use: every answer for
\* as long as it is valid, and, while the source fails, its last one until the
\* grace is over.
Promised(cutoff) ==
  LET valid(id, a) == Of(a) = id /\ cutoff < a.at + Validity[id.source]
      current(id) == UNION {a.values : a \in {b \in answered : valid(id, b)}}
      kept(id) == IF InGrace(id, cutoff) THEN Replies(id, Health(RunsOf(id)).success) ELSE {}
  IN  UNION {{id} \X (current(id) \cup kept(id)) : id \in Definition}

\* A build at any cutoff that has passed gets exactly what the answers promise,
\* in whatever order concurrent refreshes stored them and whatever was withdrawn,
\* switched off or replaced in between: nothing a source withdrew comes back
\* under grace, and nothing its last answer named is lost.
AdmittedIsPromised ==
  \A cutoff \in 1 .. now : {<<Of(r), r.value>> : r \in Admitted(cutoff)} = Promised(cutoff)

\* A failed cycle and the end of a refresh take nothing out of a plan.
FailuresWithdrawNothing ==
  [][sightings' = sightings /\ Definition' = Definition
       => \A cutoff \in 1 .. now : Admitted(cutoff) \subseteq Admitted(cutoff)']_observationsVars

\* The card tells the truth about the latest read: it shows no value that a
\* source does not stand for any more, calls a list fresh only
\* while the whole last answer of every source is in the plans, and counts as
\* added what no source had ever reported before, and as removed what the sources
\* read then had reported the time before and none reports any more.
CardTellsTheLatestRead ==
  LET at == LastRead(now)
      given(time) == UNION {Replies(id, time) : id \in Definition}
  IN  /\ {<<Of(r), r.value>> : r \in CardRows(now)} \subseteq Promised(now)
      /\ ListState(now) = "fresh" =>
           \A id \in Definition : {<<id, v>> : v \in Replies(id, Health(RunsOf(id)).success)}
                                    \subseteq Promised(now)
      /\ at # Never =>
           /\ Added(now) = given(at) \ UNION {given(t) : t \in 1 .. at - 1}
           /\ Removed(now) = (UNION {Replies(id, Health(RunsOf(id)).previous) : id \in ReadLast(now)}) \ given(at)
=============================================================================
