----------------------------- MODULE MCReplicas -----------------------------
(***************************************************************************)
(* Two replicas and the log of one occurrence: the schedule is created, a  *)
(* node claims the occurrence, an attempt is recorded, another node claims *)
(* the occurrence again from a stale scan, the execution is completed.     *)
(***************************************************************************)
EXTENDS Replicas, TLC

CONSTANTS acme, s1, e1, e2, a1, n1, n2

MCZones == [UTC |-> [std |-> 0, dst |-> 0, from |-> 0, until |-> 0]]

MCCanonicalKey == "X-Trace" :> "X-Trace"

Once ==
  [scheduleType |-> "once", firstRunAt |-> 0, recurrence |-> Nil, timezone |-> "UTC",
   catchUpPolicy |-> "", callbackURL |-> "usable", headers |-> {}, maxAttempts |-> 0,
   callTimeout |-> Nil]

Entry(cmd) == [cmd |-> cmd, proposedAt |-> 0]

MCEntries ==
  {Entry(CreateScheduleCommand(acme, s1, Once)),
   Entry(ClaimExecutionCommand(acme, s1, e1, 0, n1)),
   Entry(ClaimExecutionCommand(acme, s1, e2, 0, n2)),
   Entry(RecordAttemptCommand(acme, e1, a1, n1, "usable", "retry", 1)),
   Entry(CompleteExecutionCommand(acme, e1, "success"))}

MCHistories ==
  LET start == <<Entry(CreateScheduleCommand(acme, s1, Once)),
                 Entry(ClaimExecutionCommand(acme, s1, e1, 0, n1))>>
      attempt == Entry(RecordAttemptCommand(acme, e1, a1, n1, "usable", "retry", 1))
      again == Entry(ClaimExecutionCommand(acme, s1, e2, 0, n2))
      end == Entry(CompleteExecutionCommand(acme, e1, "success"))
  IN  {start \o <<attempt, again>>, start \o <<end, again>>}
=============================================================================
