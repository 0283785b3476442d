---------------------------- MODULE StateMachine ----------------------------
(***************************************************************************)
(* internal/statemachine: one replica's state machine, fed one log entry   *)
(* after another.  Each action applies one entry in one bbolt transaction. *)
(*                                                                         *)
(* The log is what the API handlers and the workers of all nodes propose,  *)
(* interleaved in any order: a pause may land between a claim and its      *)
(* completion, an entry of a deposed leader after its successor's.  The    *)
(* clock of the proposer is any of Times, whatever came before it.  Every  *)
(* well-formed entry may come at any time, more than the workers propose:  *)
(* what holds here does not rest on the workers asking before they write.  *)
(***************************************************************************)
EXTENDS Consistency

CONSTANTS
  Specs,      \* what create_schedule may ask for
  Settings,   \* what update_schedule may ask for
  Times,      \* instants of occurrences and proposer clocks
  RetryTimes  \* instants a worker asks to retry at

ASSUME InputAssumption ==
  /\ Times \subseteq Int
  /\ RetryTimes \subseteq Int
  /\ Specs \subseteq
       [scheduleType : STRING, firstRunAt : Int, recurrence : Recurrences \cup {Nil},
        timezone : STRING, catchUpPolicy : STRING, callbackURL : CallbackURLs,
        headers : SUBSET HeaderKeys, maxAttempts : Int, callTimeout : Int \cup {Nil}]
  /\ Settings \subseteq
       [callbackURL : CallbackURLs \cup {Nil}, headers : (SUBSET HeaderKeys) \cup {Nil},
        maxAttempts : Int \cup {Nil}, callTimeout : Int \cup {Nil}]

VARIABLES
  db,       \* the database
  offered   \* <<tenant, schedule, time>>: occurrences a due scan has seen

vars == <<db, offered>>

\* The occurrences a scan of d can return, for some tenant and clock.
Offers(d) ==
  {o \in Tenants \X ScheduleIds \X Times :
     /\ d.tenants[o[1]] # Nil
     /\ o[2] \in ListSchedulesDue(d, o[1], o[3])
     /\ d.schedules[<<o[1], o[2]>>].nextRunAt = o[3]}

Init ==
  /\ db = EmptyDB
  /\ offered = {}

\* Apply: Dispatch runs in a transaction that is rolled back on an error.
Apply(cmd, proposedAt) ==
  LET r == Dispatch(db, cmd, proposedAt)
  IN  /\ db' = IF r.err = "none" THEN r.db ELSE db
      /\ offered' = offered \cup Offers(db')

----------------------------------------------------------------------------
(* One action per log entry type.  Only resume_schedule uses the time it    *)
(* was proposed at for more than an audit field; the others pass Nil.       *)

CreateTenant ==
  \E t \in Tenants, h \in KeyHashes : Apply(CreateTenantCommand(t, h), Nil)

CreateSchedule ==
  \E t \in Tenants, id \in ScheduleIds, spec \in Specs :
    Apply(CreateScheduleCommand(t, id, spec), Nil)

UpdateSchedule ==
  \E t \in Tenants, id \in ScheduleIds, u \in Settings :
    Apply(UpdateScheduleCommand(t, id, u), Nil)

PauseSchedule ==
  \E t \in Tenants, id \in ScheduleIds : Apply(PauseScheduleCommand(t, id), Nil)

CancelSchedule ==
  \E t \in Tenants, id \in ScheduleIds : Apply(CancelScheduleCommand(t, id), Nil)

ResumeSchedule ==
  \E t \in Tenants, id \in ScheduleIds, now \in Times :
    Apply(ResumeScheduleCommand(t, id), now)

\* A worker claims an occurrence that some due scan returned, however long
\* ago, under an identifier from ulid.Make.
ClaimExecution ==
  \E o \in offered, id \in ExecutionIds, n \in Nodes :
    /\ \A t \in Tenants : GetExecution(db, t, id) = Nil
    /\ Apply(ClaimExecutionCommand(o[1], o[2], id, o[3], n), Nil)

AdoptExecution ==
  \E t \in Tenants, id \in ExecutionIds, from, to \in Nodes :
    Apply(AdoptExecutionCommand(t, id, from, to), Nil)

\* The worker sets a retry time exactly when the outcome is retry.  The URL is
\* the one that the schedule had when the worker read it; for one that does not
\* parse there is no call to record.
RecordAttempt ==
  \E t \in Tenants, id \in ExecutionIds, a \in AttemptIds, n \in Nodes, out \in Outcomes :
    \E url \in CallbackURLs \ {"malformed"}, retryAt \in IF out = "retry" THEN RetryTimes ELSE {Nil} :
      /\ \A u \in Tenants : GetAttempt(db, u, a) = Nil
      /\ Apply(RecordAttemptCommand(t, id, a, n, url, out, retryAt), Nil)

CompleteExecution ==
  \E t \in Tenants, id \in ExecutionIds, out \in {"success", "terminal_failure"} :
    Apply(CompleteExecutionCommand(t, id, out), Nil)

FailExecutionTimeout ==
  \E t \in Tenants, id \in ExecutionIds : Apply(FailExecutionTimeoutCommand(t, id), Nil)

Next ==
  \/ CreateTenant
  \/ CreateSchedule
  \/ UpdateSchedule
  \/ PauseSchedule
  \/ CancelSchedule
  \/ ResumeSchedule
  \/ ClaimExecution
  \/ AdoptExecution
  \/ RecordAttempt
  \/ CompleteExecution
  \/ FailExecutionTimeout

Spec == Init /\ [][Next]_vars

----------------------------------------------------------------------------
(* Properties.                                                              *)

\* Every row and index key has its type; in particular no stored schedule
\* carries a header key reserved for the scheduler, in any spelling, or a
\* call timeout out of range, whether it came from create or from update.
TypeOK ==
  /\ db \in DB
  /\ offered \subseteq Tenants \X ScheduleIds \X Times

\* The four index buckets that Put... maintains by hand agree with the rows
\* after every command.
IndexesMirrorRows == IndexesMirror(db)

\* claim_execution creates at most one execution per schedule and due time,
\* even for a claim from a scan that is out of date.
OneExecutionPerOccurrence == OccurrencesUnique(db)

\* An execution is owned exactly while it is in flight: adoption, recording
\* and both ways to end it keep owner and status in step.
OwnedIffInFlight == ExecutionsOwned(db)

\* record_attempt numbers attempts consecutively across owners, and the
\* execution's summary of its last attempt is that attempt's.
AttemptLedger == AttemptsOwned(db) /\ AttemptsNumbered(db)

\* A schedule that is paused, canceled or completed has no next run, even if
\* an execution claimed before ends after.
QuietUnlessActive == SchedulesQuiet(db)

\* While a recurring catch_up_all schedule is active, every occurrence before
\* its next run has been executed to an end and none from it on has, however
\* often it was paused and resumed: nothing is skipped, nothing repeated.  An
\* interval has to be positive for that; no code checks that it is.
CatchUpAllComplete ==
  \A t \in Tenants, id \in ScheduleIds :
    LET s == db.schedules[<<t, id>>]
        ended == {e.scheduledFor : e \in
                    {x \in ListExecutionsBySchedule(db, t, id) : IsTerminal(x.status)}}
    IN  (/\ s # Nil
         /\ s.type = "recurring"
         /\ s.catchUpPolicy = "catch_up_all"
         /\ s.recurrence.cadence = "interval" => s.recurrence.every > 0
         /\ s.status = "active")
        => ended = SlotsBefore(s, s.nextRunAt, Times)

\* A schedule that is active has a next run: "Resume a paused schedule"
\* (README.md:73) sets it going again, and the tests of resume_schedule fail
\* with "NextRunAt is nil" (internal/command/schedule_test.go:955).
ActiveHasNextRun ==
  \A t \in Tenants, id \in ScheduleIds :
    LET s == db.schedules[<<t, id>>]
    IN  s # Nil /\ s.status = "active" => s.nextRunAt # Nil

\* Once an execution has ended, nothing about it changes, and neither does
\* any attempt that was recorded; an execution never changes its occurrence.
FinishedIsFrozen == [][ExecutionsKept(db, db') /\ AttemptsKept(db, db')]_vars

\* The only status changes of a schedule: active to paused and back, active
\* or paused to canceled, and anything to completed when an execution of a
\* schedule that is not recurring ends.
ScheduleLifecycle == [][SchedulesKept(db, db')]_vars
=============================================================================
