---------------------------- MODULE Consistency ----------------------------
(***************************************************************************)
(* What a database must satisfy between two commands.  The predicates are  *)
(* stated for a database value d, so that they can be asked of the single  *)
(* state machine and of every replica.                                     *)
(***************************************************************************)
EXTENDS Commands

\* The index keys of schedules, executions and attempts are exactly the ones
\* their rows call for.
SchedulesIndexed(d) ==
  \A t \in Tenants, id \in ScheduleIds, st \in ScheduleStatuses :
    <<t, st, id>> \in d.schedulesByStatus <=>
      d.schedules[<<t, id>>] # Nil /\ d.schedules[<<t, id>>].status = st

ExecutionsIndexedByStatus(d) ==
  \A t \in Tenants, id \in ExecutionIds, st \in ExecutionStatuses :
    <<t, st, id>> \in d.executionsByStatus <=>
      d.executions[<<t, id>>] # Nil /\ d.executions[<<t, id>>].status = st

ExecutionsIndexedBySchedule(d) ==
  \A t \in Tenants, id \in ExecutionIds, s \in ScheduleIds :
    <<t, s, id>> \in d.executionsBySchedule <=>
      d.executions[<<t, id>>] # Nil /\ d.executions[<<t, id>>].schedule = s

AttemptsIndexed(d) ==
  \A t \in Tenants, id \in AttemptIds, e \in ExecutionIds :
    <<t, e, id>> \in d.attemptsByExecution <=>
      d.attempts[<<t, id>>] # Nil /\ d.attempts[<<t, id>>].execution = e

\* A scan of an index finds every row and never meets a key without a row.
IndexesMirror(d) ==
  /\ SchedulesIndexed(d)
  /\ ExecutionsIndexedByStatus(d)
  /\ ExecutionsIndexedBySchedule(d)
  /\ AttemptsIndexed(d)

\* No two executions of a schedule are due at the same time.
OccurrencesUnique(d) ==
  \A t \in Tenants : \A i, j \in ExecutionIds :
    LET x == d.executions[<<t, i>>]
        y == d.executions[<<t, j>>]
    IN  (/\ x # Nil
         /\ y # Nil
         /\ x.schedule = y.schedule
         /\ x.scheduledFor = y.scheduledFor) => i = j

\* An execution belongs to a schedule and has an owner exactly while it is
\* in flight.
ExecutionsOwned(d) ==
  \A t \in Tenants, id \in ExecutionIds :
    LET x == d.executions[<<t, id>>]
    IN  x # Nil => /\ d.schedules[<<t, x.schedule>>] # Nil
                   /\ x.status = "in_flight" <=> x.owner # Nil

\* An attempt belongs to an execution.
AttemptsOwned(d) ==
  \A t \in Tenants, id \in AttemptIds :
    LET a == d.attempts[<<t, id>>]
    IN  a # Nil => d.executions[<<t, a.execution>>] # Nil

\* The attempts of an execution are numbered 1..attemptCount without gaps or
\* repeats, and the execution points at the last of them.
AttemptOf(d, t, id, a) ==
  d.attempts[<<t, a>>] # Nil /\ d.attempts[<<t, a>>].execution = id

NumberedUpTo(d, t, id, count) ==
  /\ \A a \in AttemptIds :
       AttemptOf(d, t, id, a) => d.attempts[<<t, a>>].number \in 1..count
  /\ \A a, b \in AttemptIds :
       /\ AttemptOf(d, t, id, a)
       /\ AttemptOf(d, t, id, b)
       /\ d.attempts[<<t, a>>].number = d.attempts[<<t, b>>].number
       => a = b
  /\ \A n \in 1..count : \E a \in AttemptIds :
       AttemptOf(d, t, id, a) /\ d.attempts[<<t, a>>].number = n

LastAttemptIs(d, t, id, count, last, retryAt) ==
  IF count = 0 THEN last = Nil /\ retryAt = Nil
  ELSE /\ last \in AttemptIds
       /\ AttemptOf(d, t, id, last)
       /\ d.attempts[<<t, last>>].number = count
       /\ d.attempts[<<t, last>>].retryAt = retryAt

AttemptsNumbered(d) ==
  \A t \in Tenants, id \in ExecutionIds :
    LET x == d.executions[<<t, id>>]
    IN  x # Nil =>
          /\ NumberedUpTo(d, t, id, x.attemptCount)
          /\ LastAttemptIs(d, t, id, x.attemptCount, x.lastAttemptID, x.lastRetryAt)

\* A schedule that is not active has no next run.
Quiet(schedule) == schedule.status # "active" => schedule.nextRunAt = Nil

SchedulesQuiet(d) ==
  \A t \in Tenants, id \in ScheduleIds :
    d.schedules[<<t, id>>] # Nil => Quiet(d.schedules[<<t, id>>])

\* What every sequence of commands keeps, a log that is replayed over its own
\* effects included.  Uniqueness of occurrences rests on the schedule index.
Intact(d) ==
  /\ d \in DB
  /\ IndexesMirror(d)
  /\ OccurrencesUnique(d)
  /\ ExecutionsOwned(d)
  /\ AttemptsOwned(d)
  /\ SchedulesQuiet(d)

\* The inductive invariant of the state machine.  The numbering rests on
\* attempts having owners.
Consistent(d) == Intact(d) /\ AttemptsNumbered(d)

----------------------------------------------------------------------------
(* What a command may do to the database: from d to n.                      *)

\* An execution keeps its occurrence, and everything once it has ended; an
\* attempt never changes.
ExecutionsKept(d, n) ==
  \A t \in Tenants, id \in ExecutionIds :
    LET x == d.executions[<<t, id>>]
        y == n.executions[<<t, id>>]
    IN  x # Nil => /\ y # Nil
                   /\ y.schedule = x.schedule
                   /\ y.scheduledFor = x.scheduledFor
                   /\ IsTerminal(x.status) => y = x

AttemptsKept(d, n) ==
  \A t \in Tenants, id \in AttemptIds :
    d.attempts[<<t, id>>] # Nil => n.attempts[<<t, id>>] = d.attempts[<<t, id>>]

\* The only status changes of a schedule: active to paused and back, active
\* or paused to canceled, and anything to completed unless it recurs.
StatusChangeAllowed(old, new) ==
  \/ new.status = old.status
  \/ old.status = "active" /\ new.status = "paused"
  \/ old.status = "paused" /\ new.status = "active"
  \/ old.status \in {"active", "paused"} /\ new.status = "canceled"
  \/ old.type # "recurring" /\ new.status = "completed"

SchedulesKept(d, n) ==
  \A t \in Tenants, id \in ScheduleIds :
    LET old == d.schedules[<<t, id>>]
        new == n.schedules[<<t, id>>]
    IN  old # Nil => new # Nil /\ StatusChangeAllowed(old, new)

----------------------------------------------------------------------------
\* The occurrences of a recurring schedule that are due before time x.
SlotsBefore(schedule, x, times) ==
  {s \in times : /\ s < x
                 /\ ComputeLatestRunOnOrBefore(schedule.recurrence, schedule.timezone,
                                               schedule.firstRunAt, s) = s}
=============================================================================
