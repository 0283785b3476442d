--------------------------- MODULE MCRunSequence ---------------------------
(***************************************************************************)
(* Days of four seconds, a second being two units; months of four and      *)
(* three days; a zone east of UTC and one west of it, the latter with two  *)
(* changes of the clock before the horizon.                                *)
(***************************************************************************)
EXTENDS RunSequence

MCZones ==
  [UTC  |-> [std |-> 0, dst |-> 0, from |-> 0, until |-> 0],
   West |-> [std |-> -4, dst |-> -2, from |-> 22, until |-> 38],
   East |-> [std |-> 2, dst |-> 2, from |-> 0, until |-> 0]]

MCCanonicalKey == [k \in {"X-Trace"} |-> "X-Trace"]

CreatedOf(recurrence, timezone, firstRunAt, policy) ==
  [type |-> "recurring", firstRunAt |-> firstRunAt, recurrence |-> recurrence,
   timezone |-> timezone, catchUpPolicy |-> policy, callbackURL |-> "usable",
   headers |-> {}, maxAttempts |-> 0, callTimeout |-> Nil, status |-> "active",
   nextRunAt |-> ComputeNextRunOnOrAfter(recurrence, timezone, firstRunAt, firstRunAt)]

Policies == {"catch_up_all", "catch_up_latest_only", "skip_missed"}

\* Every five seconds, daily, weekly, and monthly on a day that every
\* month has and on one that only the long months have.
MCRecurrences ==
  {[cadence |-> "interval", every |-> 5],
   [cadence |-> "daily", every |-> 1], [cadence |-> "weekly", every |-> 1],
   [cadence |-> "monthly", every |-> 2], [cadence |-> "monthly", every |-> 4]}

\* An interval does not look at the zone.  RunsOnCadence, for which the policy
\* matters, is about UTC; elsewhere one policy will do, and in a zone without
\* summer time one first run.
MCCreated ==
  {s \in {CreatedOf(r, tz, first, p) :
            r \in MCRecurrences, tz \in DOMAIN MCZones, first \in {2, 12}, p \in Policies} :
     /\ Clear(s)
     /\ s.timezone # "UTC" => /\ s.recurrence.cadence # "interval"
                              /\ s.catchUpPolicy = "catch_up_latest_only"
     /\ s.timezone = "East" => s.firstRunAt = 12}
=============================================================================
