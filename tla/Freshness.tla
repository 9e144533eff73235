----------------------------- MODULE Freshness -----------------------------
(***************************************************************************)
(* How long an observation counts: the lifecycle of a stored sighting, and *)
(* the grace a source is given when its latest cycle failed.  Times are    *)
(* numbers from 1; Never stands for the zero time of a source that has no  *)
(* such cycle.  No code marks a sighting invalid, so that state is left    *)
(* out.                                                                    *)
(***************************************************************************)
EXTENDS Integers, FiniteSetsExt

CONSTANTS Grace,      \* how long a failing source keeps its last answer
          Retention   \* how long an expired sighting is kept before it is archived

ASSUME PeriodsAreNumbers == Grace \in Nat \ {0} /\ Retention \in Nat \ {0}

Never == 0

Latest(times) == Max(times \cup {Never})

LifecycleAt(until, cutoff) ==
  CASE cutoff < until -> "valid"
    [] until + Retention <= cutoff -> "archived"
    [] OTHER -> "stale"

IsFresh(sighting, cutoff) ==
  LifecycleAt(sighting.until, cutoff) # "archived" /\ cutoff < sighting.until

\* The cycles of one source: the time of its latest success and failure and of
\* the success before the latest.
Health(cycles) ==
  LET times(ok) == {c.at : c \in {d \in cycles : d.ok = ok}}
      success == Latest(times(TRUE))
  IN  [success |-> success, failure |-> Latest(times(FALSE)),
       previous |-> Latest({t \in times(TRUE) : t < success})]

LastRunFailed(health) == health.success < health.failure

\* The latest cycle failed, and the last success is not further back than the
\* grace allows.
Degraded(health, cutoff) ==
  /\ health.success # Never
  /\ LastRunFailed(health)
  /\ cutoff < health.success + Grace

\* Mutant: everything the source ever said counts under grace.
GraceForAll(sighting, health, cutoff) ==
  Degraded(health, cutoff) /\ LifecycleAt(sighting.until, cutoff) = "stale"

\* An expired sighting counts as long as its source is in grace and its last
\* successful cycle still reported it.
AdmissibleUnderGrace(sighting, health, cutoff) ==
  /\ Degraded(health, cutoff)
  /\ LifecycleAt(sighting.until, cutoff) = "stale"
  /\ health.success <= sighting.last

\* Mutant: a source that failed counts only under grace.
OnlyHealthyFresh(sighting, health, cutoff) ==
  IF LastRunFailed(health) THEN AdmissibleUnderGrace(sighting, health, cutoff) ELSE IsFresh(sighting, cutoff)

Counts(sighting, health, cutoff) ==
  IsFresh(sighting, cutoff) \/ AdmissibleUnderGrace(sighting, health, cutoff)
=============================================================================
