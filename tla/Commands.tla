------------------------------ MODULE Commands ------------------------------
(***************************************************************************)
(* internal/command: the eleven log entry types and how each one is        *)
(* applied to the database.                                                *)
(*                                                                         *)
(* A command is a record with a type; an absent or empty field is Nil.     *)
(* Apply...(d, cmd, ...) is what the function of that name returns: the    *)
(* database with the writes made so far, and the kind of CommandError, or  *)
(* "none".  The transaction around it is in module StateMachine.           *)
(***************************************************************************)
EXTENDS Storage

ErrorKinds == {"validation", "conflict", "not_found", "storage"}

Ok(d) == [db |-> d, err |-> "none"]
Fail(d, kind) == [db |-> d, err |-> kind]

\* Some field the handler insists on is empty.
Missing(fields) == Nil \in fields

----------------------------------------------------------------------------
(* The commands, as the API handlers and the worker build them.             *)

CreateTenantCommand(t, h) == [type |-> "create_tenant", id |-> t, apiKeyHash |-> h]

CreateScheduleCommand(t, id, spec) ==
  [type |-> "create_schedule", tenant |-> t, id |-> id,
   scheduleType |-> spec.scheduleType, firstRunAt |-> spec.firstRunAt,
   recurrence |-> spec.recurrence, timezone |-> spec.timezone,
   catchUpPolicy |-> spec.catchUpPolicy, callbackURL |-> spec.callbackURL,
   headers |-> spec.headers, maxAttempts |-> spec.maxAttempts, callTimeout |-> spec.callTimeout]

UpdateScheduleCommand(t, id, u) ==
  [type |-> "update_schedule", tenant |-> t, id |-> id, callbackURL |-> u.callbackURL,
   headers |-> u.headers, maxAttempts |-> u.maxAttempts, callTimeout |-> u.callTimeout]

PauseScheduleCommand(t, id) == [type |-> "pause_schedule", tenant |-> t, id |-> id]

CancelScheduleCommand(t, id) == [type |-> "cancel_schedule", tenant |-> t, id |-> id]

ResumeScheduleCommand(t, id) == [type |-> "resume_schedule", tenant |-> t, id |-> id]

ClaimExecutionCommand(t, schedule, id, scheduledFor, owner) ==
  [type |-> "claim_execution", tenant |-> t, schedule |-> schedule, id |-> id,
   scheduledFor |-> scheduledFor, owner |-> owner]

AdoptExecutionCommand(t, id, from, to) ==
  [type |-> "adopt_execution", tenant |-> t, execution |-> id,
   previousOwner |-> from, newOwner |-> to]

RecordAttemptCommand(t, execution, id, node, url, outcome, retryAt) ==
  [type |-> "record_attempt", tenant |-> t, execution |-> execution, id |-> id,
   node |-> node, requestURL |-> url, outcome |-> outcome, retryAt |-> retryAt]

\* The worker completes an execution with the outcome of its last attempt.
CompleteExecutionCommand(t, id, outcome) ==
  [type |-> "complete_execution", tenant |-> t, execution |-> id,
   finalStatus |-> IF outcome = "success" THEN "succeeded" ELSE "failed_terminal",
   finalOutcome |-> outcome]

FailExecutionTimeoutCommand(t, id) ==
  [type |-> "fail_execution_timeout", tenant |-> t, execution |-> id,
   finalOutcome |-> "timed out"]

----------------------------------------------------------------------------
(* Tenants.                                                                 *)

ApplyCreateTenant(d, cmd) ==
  IF Missing({cmd.id, cmd.apiKeyHash}) THEN Fail(d, "validation")
  ELSE IF GetTenant(d, cmd.id) # Nil THEN Fail(d, "conflict")
  ELSE Ok(PutTenant(d, cmd.id, cmd.apiKeyHash))

----------------------------------------------------------------------------
(* Schedules.                                                               *)

\* Seeded fault: keys are compared as they were written.
ValidHeaders_CaseSensitive(headers) == headers \cap ReservedHeaderKeys = {}

\* validateHeaders: no key collides with one the scheduler sets itself.
ValidHeaders(headers) == \A k \in headers : CanonicalKey[k] \notin ReservedHeaderKeys

ValidCallTimeout(callTimeout) == callTimeout \in MinCallTimeout..MaxCallTimeout

ApplyCreateSchedule(d, cmd) ==
  LET nextRun == IF cmd.scheduleType = "once" THEN cmd.firstRunAt
                 ELSE ComputeNextRunOnOrAfter(cmd.recurrence, cmd.timezone,
                                              cmd.firstRunAt, cmd.firstRunAt)
      schedule == [type |-> cmd.scheduleType, firstRunAt |-> cmd.firstRunAt,
                   recurrence |-> cmd.recurrence, timezone |-> cmd.timezone,
                   catchUpPolicy |-> cmd.catchUpPolicy,
                   callbackURL |-> cmd.callbackURL, headers |-> cmd.headers,
                   maxAttempts |-> cmd.maxAttempts, callTimeout |-> cmd.callTimeout,
                   status |-> "active", nextRunAt |-> nextRun]
  IN  IF Missing({cmd.tenant, cmd.id}) THEN Fail(d, "validation")
      ELSE IF ~ ValidHeaders(cmd.headers) THEN Fail(d, "validation")
      ELSE IF GetSchedule(d, cmd.tenant, cmd.id) # Nil THEN Fail(d, "conflict")
      ELSE IF nextRun = Invalid THEN Fail(d, "validation")
      ELSE IF cmd.callTimeout # Nil /\ ~ ValidCallTimeout(cmd.callTimeout)
           THEN Fail(d, "validation")
      ELSE Ok(PutSchedule(d, cmd.tenant, cmd.id, schedule))

\* A field of the command that is Nil leaves the setting alone; a call
\* timeout of 0 goes back to tracking the system default.
ApplyUpdateSchedule(d, cmd) ==
  LET existing == GetSchedule(d, cmd.tenant, cmd.id)
      updated == [existing EXCEPT
                    !.callbackURL = IF cmd.callbackURL = Nil THEN @ ELSE cmd.callbackURL,
                    !.headers = IF cmd.headers = Nil THEN @ ELSE cmd.headers,
                    !.maxAttempts = IF cmd.maxAttempts = Nil THEN @ ELSE cmd.maxAttempts,
                    !.callTimeout = IF cmd.callTimeout = Nil THEN @
                                    ELSE IF cmd.callTimeout = 0 THEN Nil
                                    ELSE cmd.callTimeout]
  IN  IF Missing({cmd.tenant, cmd.id}) THEN Fail(d, "validation")
      ELSE IF cmd.headers # Nil /\ ~ ValidHeaders(cmd.headers) THEN Fail(d, "validation")
      ELSE IF existing = Nil THEN Fail(d, "not_found")
      ELSE IF existing.status = "canceled" THEN Fail(d, "conflict")
      ELSE IF cmd.callTimeout \notin {Nil, 0} /\ ~ ValidCallTimeout(cmd.callTimeout)
           THEN Fail(d, "validation")
      ELSE Ok(PutSchedule(d, cmd.tenant, cmd.id, updated))

\* Seeded fault: a completed schedule can be paused.
ApplyPauseSchedule_Completed(d, cmd) ==
  LET existing == GetSchedule(d, cmd.tenant, cmd.id)
      updated == [existing EXCEPT !.status = "paused", !.nextRunAt = Nil]
  IN  IF existing = Nil THEN Fail(d, "not_found")
      ELSE IF existing.status = "canceled" THEN Fail(d, "conflict")
      ELSE Ok(PutSchedule(d, cmd.tenant, cmd.id, updated))

ApplyPauseSchedule(d, cmd) ==
  LET existing == GetSchedule(d, cmd.tenant, cmd.id)
      updated == [existing EXCEPT !.status = "paused", !.nextRunAt = Nil]
  IN  IF Missing({cmd.tenant, cmd.id}) THEN Fail(d, "validation")
      ELSE IF existing = Nil THEN Fail(d, "not_found")
      ELSE IF existing.status = "paused" THEN Ok(d)
      ELSE IF existing.status \in {"canceled", "completed"} THEN Fail(d, "conflict")
      ELSE Ok(PutSchedule(d, cmd.tenant, cmd.id, updated))

ApplyCancelSchedule(d, cmd) ==
  LET existing == GetSchedule(d, cmd.tenant, cmd.id)
      updated == [existing EXCEPT !.status = "canceled", !.nextRunAt = Nil]
  IN  IF Missing({cmd.tenant, cmd.id}) THEN Fail(d, "validation")
      ELSE IF existing = Nil THEN Fail(d, "not_found")
      ELSE IF existing.status \in {"canceled", "completed"} THEN Ok(d)
      ELSE Ok(PutSchedule(d, cmd.tenant, cmd.id, updated))

IsTerminal(status) == status \in {"succeeded", "failed_terminal", "failed_max_retries"}

\* Seeded fault: an execution still in flight can be the anchor.
MostRecentTerminal_AnyStatus(rows) ==
  LET times == {e.scheduledFor : e \in rows}
      latest == {x \in times : \A y \in times : y <= x}
  IN  IF latest = {} THEN Nil ELSE CHOOSE x \in latest : TRUE

\* findMostRecentTerminalExecution, reduced to its ScheduledFor; Nil if none.
MostRecentTerminal(rows) ==
  LET times == {e.scheduledFor : e \in {r \in rows : IsTerminal(r.status)}}
      latest == {x \in times : \A y \in times : y <= x}
  IN  IF latest = {} THEN Nil ELSE CHOOSE x \in latest : TRUE

\* Seeded fault: a schedule whose first run is past is due when it is resumed.
ResumedNextRun_Now(schedule, anchor, proposedAt) ==
  IF proposedAt < schedule.firstRunAt THEN schedule.firstRunAt ELSE proposedAt

\* The next run of a recurring schedule that is resumed at proposedAt.  A
\* policy that is none of the three leaves it nil.
ResumedNextRun(schedule, anchor, proposedAt) ==
  LET rec == schedule.recurrence
      tz == schedule.timezone
      first == schedule.firstRunAt
      latest == ComputeLatestRunOnOrBefore(rec, tz, first, proposedAt)
  IN  CASE schedule.catchUpPolicy = "catch_up_all" ->
             IF anchor = Nil THEN ComputeNextRunOnOrAfter(rec, tz, first, first)
             ELSE ComputeNextRunAfter(rec, tz, first, anchor)
        [] schedule.catchUpPolicy = "catch_up_latest_only" ->
             IF latest = Nil THEN first ELSE latest
        [] schedule.catchUpPolicy = "skip_missed" ->
             ComputeNextRunAfter(rec, tz, first, proposedAt)
        [] OTHER -> Nil

ApplyResumeSchedule(d, cmd, proposedAt) ==
  LET existing == GetSchedule(d, cmd.tenant, cmd.id)
      rows == ListExecutionsBySchedule(d, cmd.tenant, cmd.id)
      nextRun == IF existing.type = "once" THEN existing.firstRunAt
                 ELSE ResumedNextRun(existing, MostRecentTerminal(rows), proposedAt)
      updated == [existing EXCEPT !.status = "active", !.nextRunAt = nextRun]
  IN  IF Missing({cmd.tenant, cmd.id}) THEN Fail(d, "validation")
      ELSE IF existing = Nil THEN Fail(d, "not_found")
      ELSE IF existing.status = "active" THEN Ok(d)
      ELSE IF existing.status \in {"canceled", "completed"} THEN Fail(d, "conflict")
      ELSE IF existing.type # "once" /\ MissingRow(rows) THEN Fail(d, "storage")
      ELSE IF nextRun = Invalid THEN Fail(d, "validation")
      ELSE Ok(PutSchedule(d, cmd.tenant, cmd.id, updated))

----------------------------------------------------------------------------
(* Executions.                                                              *)

\* Seeded fault: only an execution that has not ended blocks a new claim.
Claimed_IgnoresEnded(rows, scheduledFor) ==
  \E e \in rows : e.scheduledFor = scheduledFor /\ ~ IsTerminal(e.status)

\* Some execution among the rows is for this occurrence.
Claimed(rows, scheduledFor) == \E e \in rows : e.scheduledFor = scheduledFor

\* The collision scan stops at the first match, so an index entry without a
\* row could hide behind one; IndexesMirrorRows says there is no such entry.
ApplyClaimExecution(d, cmd) ==
  LET rows == ListExecutionsBySchedule(d, cmd.tenant, cmd.schedule)
      execution == [schedule |-> cmd.schedule, scheduledFor |-> cmd.scheduledFor,
                    owner |-> cmd.owner, status |-> "in_flight", attemptCount |-> 0,
                    lastAttemptID |-> Nil, lastRetryAt |-> Nil, finalOutcome |-> Nil]
  IN  IF Missing({cmd.tenant, cmd.schedule, cmd.id, cmd.scheduledFor, cmd.owner})
      THEN Fail(d, "validation")
      ELSE IF MissingRow(rows) THEN Fail(d, "storage")
      ELSE IF Claimed(rows, cmd.scheduledFor) THEN Fail(d, "conflict")
      ELSE Ok(PutExecution(d, cmd.tenant, cmd.id, execution))

ApplyAdoptExecution(d, cmd) ==
  LET exec == GetExecution(d, cmd.tenant, cmd.execution)
      updated == [exec EXCEPT !.owner = cmd.newOwner]
  IN  IF Missing({cmd.tenant, cmd.execution, cmd.previousOwner, cmd.newOwner})
      THEN Fail(d, "validation")
      ELSE IF cmd.newOwner = cmd.previousOwner THEN Fail(d, "validation")
      ELSE IF exec = Nil THEN Fail(d, "not_found")
      ELSE IF exec.status # "in_flight" THEN Fail(d, "conflict")
      ELSE IF exec.owner # cmd.previousOwner THEN Fail(d, "conflict")
      ELSE Ok(PutExecution(d, cmd.tenant, cmd.execution, updated))

\* Seeded fault: the retry time of the previous attempt survives one that
\* asks for no retry.
Counted_KeepsRetryAt(exec, id, retryAt) ==
  [exec EXCEPT !.attemptCount = @ + 1, !.lastAttemptID = id,
               !.lastRetryAt = IF retryAt = Nil THEN @ ELSE retryAt]

\* The execution after one more attempt.
Counted(exec, id, retryAt) ==
  [exec EXCEPT !.attemptCount = @ + 1, !.lastAttemptID = id, !.lastRetryAt = retryAt]

\* The started and completed times and the response status that the handler
\* also insists on are always set by the worker.  The request URL is the
\* callback URL of the schedule, which may be empty.
ApplyRecordAttempt(d, cmd) ==
  LET exec == GetExecution(d, cmd.tenant, cmd.execution)
      attempt == [execution |-> cmd.execution, node |-> cmd.node,
                  number |-> exec.attemptCount + 1,
                  outcome |-> cmd.outcome, retryAt |-> cmd.retryAt]
  IN  IF Missing({cmd.tenant, cmd.execution, cmd.id, cmd.node, cmd.outcome})
           \/ cmd.requestURL = ""
      THEN Fail(d, "validation")
      ELSE IF exec = Nil THEN Fail(d, "not_found")
      ELSE IF exec.status # "in_flight" THEN Fail(d, "conflict")
      ELSE IF exec.owner # cmd.node THEN Fail(d, "conflict")
      ELSE Ok(PutExecution(PutAttempt(d, cmd.tenant, cmd.id, attempt),
                           cmd.tenant, cmd.execution,
                           Counted(exec, cmd.id, cmd.retryAt)))

\* Seeded fault: the next run is computed even if the schedule is paused.
AdvancedSchedule_AnyStatus(schedule, scheduledFor) ==
  IF schedule.type # "recurring"
  THEN [schedule EXCEPT !.status = "completed", !.nextRunAt = Nil]
  ELSE [schedule EXCEPT !.nextRunAt = ComputeNextRunAfter(schedule.recurrence, "UTC",
                                        schedule.firstRunAt, scheduledFor)]

\* The schedule after one of its executions, due at scheduledFor, has ended.
\* The recurrence is evaluated in UTC whatever the schedule's time zone is.
AdvancedSchedule(schedule, scheduledFor) ==
  IF schedule.type # "recurring"
  THEN [schedule EXCEPT !.status = "completed", !.nextRunAt = Nil]
  ELSE IF schedule.status = "active"
  THEN [schedule EXCEPT !.nextRunAt = ComputeNextRunAfter(schedule.recurrence, "UTC",
                                        schedule.firstRunAt, scheduledFor)]
  ELSE schedule

\* Seeded fault: the owner is not cleared.
Ended_KeepsOwner(exec, status, finalOutcome) ==
  [exec EXCEPT !.status = status, !.finalOutcome = finalOutcome]

\* The execution after it has ended.
Ended(exec, status, finalOutcome) ==
  [exec EXCEPT !.status = status, !.finalOutcome = finalOutcome, !.owner = Nil]

\* Seeded fault: an execution that has ended can be ended again.
FinishExecution_Again(d, tenant, id, status, finalOutcome) ==
  LET exec == GetExecution(d, tenant, id)
      d1 == PutExecution(d, tenant, id, Ended(exec, status, finalOutcome))
      schedule == GetSchedule(d1, tenant, exec.schedule)
      newSchedule == AdvancedSchedule(schedule, exec.scheduledFor)
  IN  IF exec = Nil THEN Fail(d, "not_found")
      ELSE IF schedule = Nil THEN Fail(d1, "not_found")
      ELSE IF newSchedule.nextRunAt = Invalid THEN Fail(d1, "validation")
      ELSE Ok(PutSchedule(d1, tenant, exec.schedule, newSchedule))

\* The common part of complete_execution and fail_execution_timeout.
FinishExecution(d, tenant, id, status, finalOutcome) ==
  LET exec == GetExecution(d, tenant, id)
      d1 == PutExecution(d, tenant, id, Ended(exec, status, finalOutcome))
      schedule == GetSchedule(d1, tenant, exec.schedule)
      newSchedule == AdvancedSchedule(schedule, exec.scheduledFor)
  IN  IF exec = Nil THEN Fail(d, "not_found")
      ELSE IF IsTerminal(exec.status) THEN Fail(d, "conflict")
      ELSE IF schedule = Nil THEN Fail(d1, "not_found")
      ELSE IF newSchedule.nextRunAt = Invalid THEN Fail(d1, "validation")
      ELSE Ok(PutSchedule(d1, tenant, exec.schedule, newSchedule))

ApplyCompleteExecution(d, cmd) ==
  IF Missing({cmd.tenant, cmd.execution, cmd.finalStatus, cmd.finalOutcome})
  THEN Fail(d, "validation")
  ELSE IF ~ IsTerminal(cmd.finalStatus) THEN Fail(d, "validation")
  ELSE FinishExecution(d, cmd.tenant, cmd.execution, cmd.finalStatus, cmd.finalOutcome)

ApplyFailExecutionTimeout(d, cmd) ==
  IF Missing({cmd.tenant, cmd.execution, cmd.finalOutcome}) THEN Fail(d, "validation")
  ELSE FinishExecution(d, cmd.tenant, cmd.execution, "failed_max_retries", cmd.finalOutcome)

----------------------------------------------------------------------------
Dispatch(d, cmd, proposedAt) ==
  CASE cmd.type = "create_tenant" -> ApplyCreateTenant(d, cmd)
    [] cmd.type = "create_schedule" -> ApplyCreateSchedule(d, cmd)
    [] cmd.type = "update_schedule" -> ApplyUpdateSchedule(d, cmd)
    [] cmd.type = "pause_schedule" -> ApplyPauseSchedule(d, cmd)
    [] cmd.type = "cancel_schedule" -> ApplyCancelSchedule(d, cmd)
    [] cmd.type = "resume_schedule" -> ApplyResumeSchedule(d, cmd, proposedAt)
    [] cmd.type = "claim_execution" -> ApplyClaimExecution(d, cmd)
    [] cmd.type = "adopt_execution" -> ApplyAdoptExecution(d, cmd)
    [] cmd.type = "record_attempt" -> ApplyRecordAttempt(d, cmd)
    [] cmd.type = "complete_execution" -> ApplyCompleteExecution(d, cmd)
    [] cmd.type = "fail_execution_timeout" -> ApplyFailExecutionTimeout(d, cmd)
=============================================================================
