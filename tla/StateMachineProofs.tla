------------------------- MODULE StateMachineProofs -------------------------
(***************************************************************************)
(* The state machine keeps its invariants, for any number of tenants,      *)
(* schedules, executions, attempts and nodes and any set of instants.      *)
(***************************************************************************)
EXTENDS StateMachine, CommandProofs

\* A leaf may take the provers half a minute.
USE SMTT(30), ZenonT(30)

\* The inductive invariant: the database is consistent and every occurrence a
\* worker has seen belongs to a schedule that exists.
IInv ==
  /\ Consistent(db)
  /\ offered \subseteq Tenants \X ScheduleIds \X Times
  /\ \A o \in offered : db.schedules[<<o[1], o[2]>>] # Nil

\* What a step of the state machine does to the database.
LegalStep ==
  /\ IInv'
  /\ ExecutionsKept(db, db')
  /\ AttemptsKept(db, db')
  /\ SchedulesKept(db, db')

\* A due scan returns schedules that exist.
LEMMA OffersExist ==
  ASSUME NEW d, Consistent(d)
  PROVE  /\ Offers(d) \subseteq Tenants \X ScheduleIds \X Times
         /\ \A o \in Offers(d) : d.schedules[<<o[1], o[2]>>] # Nil
<1>1. Offers(d) \subseteq Tenants \X ScheduleIds \X Times
  BY DEF Offers
<1>2. ASSUME NEW o \in Offers(d)
      PROVE  d.schedules[<<o[1], o[2]>>] # Nil
  <2>1. o \in Tenants \X ScheduleIds \X Times /\ o[2] \in ListSchedulesDue(d, o[1], o[3])
    BY DEF Offers
  <2>2. <<o[1], "active", o[2]>> \in d.schedulesByStatus
    BY <2>1 DEF ListSchedulesDue
  <2>3. o[1] \in Tenants /\ o[2] \in ScheduleIds /\ "active" \in ScheduleStatuses
    BY <2>1 DEF ScheduleStatuses
  <2> QED
    BY <2>2, <2>3 DEF Consistent, Intact, IndexesMirror, SchedulesIndexed
<1> QED
  BY <1>1, <1>2

\* Apply keeps the invariant if the command it dispatches is legal; a command
\* that is rejected leaves the database as it was.
LEMMA ApplyLegal ==
  ASSUME IInv, NEW cmd, NEW now, Apply(cmd, now),
         Dispatch(db, cmd, now).err = "none" => Legal(db, Dispatch(db, cmd, now).db)
  PROVE  LegalStep
<1>1. Legal(db, db')
  BY StutterLegal DEF Apply, IInv, Consistent
<1>2. offered' = offered \cup Offers(db')
  BY DEF Apply
<1>3. Consistent(db')
  BY <1>1 DEF IInv, Legal, Consistent
<1>4. /\ Offers(db') \subseteq Tenants \X ScheduleIds \X Times
      /\ \A o \in Offers(db') : db'.schedules[<<o[1], o[2]>>] # Nil
  BY <1>3, OffersExist
<1>5. \A o \in offered : db'.schedules[<<o[1], o[2]>>] # Nil
  BY <1>1 DEF IInv, Legal, SchedulesKept
<1>6. IInv'
  BY <1>2, <1>3, <1>4, <1>5 DEF IInv
<1> QED
  BY <1>1, <1>6 DEF Legal, LegalStep

----------------------------------------------------------------------------
(* One lemma per action.                                                    *)

\* Each action applies a legal command: one lemma per action.
LEMMA CreateTenantStep ==
  ASSUME IInv, CreateTenant
  PROVE  LegalStep
<1>1. PICK t \in Tenants, h \in KeyHashes :
        Apply(CreateTenantCommand(t, h), Nil)
  BY DEF CreateTenant
<1> DEFINE cmd == CreateTenantCommand(t, h)
<1>2. Dispatch(db, cmd, Nil) = ApplyCreateTenant(db, cmd)
  BY DEF Dispatch, CreateTenantCommand
<1>3. Dispatch(db, cmd, Nil).err = "none" => Legal(db, Dispatch(db, cmd, Nil).db)
  BY <1>2, CreateTenantLegal DEF IInv, Consistent, CreateTenantCommand
<1> QED
  BY <1>1, <1>3, ApplyLegal

\* A step of CreateSchedule is legal.
LEMMA CreateScheduleStep ==
  ASSUME IInv, CreateSchedule
  PROVE  LegalStep
<1>1. PICK t \in Tenants, id \in ScheduleIds, spec \in Specs :
        Apply(CreateScheduleCommand(t, id, spec), Nil)
  BY DEF CreateSchedule
<1> DEFINE cmd == CreateScheduleCommand(t, id, spec)
<1>2. Dispatch(db, cmd, Nil) = ApplyCreateSchedule(db, cmd)
  BY DEF Dispatch, CreateScheduleCommand
<1>3. Dispatch(db, cmd, Nil).err = "none" => Legal(db, Dispatch(db, cmd, Nil).db)
  BY <1>2, InputAssumption, CreateScheduleLegal DEF IInv, Consistent, CreateScheduleCommand
<1> QED
  BY <1>1, <1>3, ApplyLegal

\* A step of UpdateSchedule is legal.
LEMMA UpdateScheduleStep ==
  ASSUME IInv, UpdateSchedule
  PROVE  LegalStep
<1>1. PICK t \in Tenants, id \in ScheduleIds, u \in Settings :
        Apply(UpdateScheduleCommand(t, id, u), Nil)
  BY DEF UpdateSchedule
<1> DEFINE cmd == UpdateScheduleCommand(t, id, u)
<1>2. Dispatch(db, cmd, Nil) = ApplyUpdateSchedule(db, cmd)
  BY DEF Dispatch, UpdateScheduleCommand
<1>3. Dispatch(db, cmd, Nil).err = "none" => Legal(db, Dispatch(db, cmd, Nil).db)
  BY <1>2, InputAssumption, UpdateScheduleLegal DEF IInv, Consistent, UpdateScheduleCommand
<1> QED
  BY <1>1, <1>3, ApplyLegal

\* A step of PauseSchedule is legal.
LEMMA PauseScheduleStep ==
  ASSUME IInv, PauseSchedule
  PROVE  LegalStep
<1>1. PICK t \in Tenants, id \in ScheduleIds :
        Apply(PauseScheduleCommand(t, id), Nil)
  BY DEF PauseSchedule
<1> DEFINE cmd == PauseScheduleCommand(t, id)
<1>2. Dispatch(db, cmd, Nil) = ApplyPauseSchedule(db, cmd)
  BY DEF Dispatch, PauseScheduleCommand
<1>3. Dispatch(db, cmd, Nil).err = "none" => Legal(db, Dispatch(db, cmd, Nil).db)
  BY <1>2, PauseScheduleLegal DEF IInv, Consistent, PauseScheduleCommand
<1> QED
  BY <1>1, <1>3, ApplyLegal

\* A step of CancelSchedule is legal.
LEMMA CancelScheduleStep ==
  ASSUME IInv, CancelSchedule
  PROVE  LegalStep
<1>1. PICK t \in Tenants, id \in ScheduleIds :
        Apply(CancelScheduleCommand(t, id), Nil)
  BY DEF CancelSchedule
<1> DEFINE cmd == CancelScheduleCommand(t, id)
<1>2. Dispatch(db, cmd, Nil) = ApplyCancelSchedule(db, cmd)
  BY DEF Dispatch, CancelScheduleCommand
<1>3. Dispatch(db, cmd, Nil).err = "none" => Legal(db, Dispatch(db, cmd, Nil).db)
  BY <1>2, CancelScheduleLegal DEF IInv, Consistent, CancelScheduleCommand
<1> QED
  BY <1>1, <1>3, ApplyLegal

\* A step of ResumeSchedule is legal.
LEMMA ResumeScheduleStep ==
  ASSUME IInv, ResumeSchedule
  PROVE  LegalStep
<1>1. PICK t \in Tenants, id \in ScheduleIds, now \in Times :
        Apply(ResumeScheduleCommand(t, id), now)
  BY DEF ResumeSchedule
<1> DEFINE cmd == ResumeScheduleCommand(t, id)
<1>2. Dispatch(db, cmd, now) = ApplyResumeSchedule(db, cmd, now)
  BY DEF Dispatch, ResumeScheduleCommand
<1>3. Dispatch(db, cmd, now).err = "none" => Legal(db, Dispatch(db, cmd, now).db)
  BY <1>2, InputAssumption, ResumeScheduleLegal DEF IInv, Consistent, ResumeScheduleCommand
<1> QED
  BY <1>1, <1>3, ApplyLegal

\* The schedule of an offered occurrence exists, and the identifier is new.
LEMMA ClaimExecutionStep ==
  ASSUME IInv, ClaimExecution
  PROVE  LegalStep
<1>1. PICK o \in offered, id \in ExecutionIds, n \in Nodes :
        /\ \A t \in Tenants : GetExecution(db, t, id) = Nil
        /\ Apply(ClaimExecutionCommand(o[1], o[2], id, o[3], n), Nil)
  BY DEF ClaimExecution
<1> DEFINE cmd == ClaimExecutionCommand(o[1], o[2], id, o[3], n)
<1>2. Dispatch(db, cmd, Nil) = ApplyClaimExecution(db, cmd)
  BY DEF Dispatch, ClaimExecutionCommand
<1>3. /\ o[1] \in Tenants /\ o[2] \in ScheduleIds /\ o[3] \in Int
      /\ db.schedules[<<o[1], o[2]>>] # Nil
      /\ db.executions[<<o[1], id>>] = Nil
  BY <1>1, InputAssumption, Zenon DEF IInv, GetExecution
<1>4. Dispatch(db, cmd, Nil).err = "none" => Legal(db, Dispatch(db, cmd, Nil).db)
  BY <1>2, <1>3, ClaimExecutionLegal DEF IInv, Consistent, ClaimExecutionCommand
<1> QED
  BY <1>1, <1>4, ApplyLegal

\* A step of AdoptExecution is legal.
LEMMA AdoptExecutionStep ==
  ASSUME IInv, AdoptExecution
  PROVE  LegalStep
<1>1. PICK t \in Tenants, id \in ExecutionIds, from \in Nodes, to \in Nodes :
        Apply(AdoptExecutionCommand(t, id, from, to), Nil)
  BY DEF AdoptExecution
<1> DEFINE cmd == AdoptExecutionCommand(t, id, from, to)
<1>2. Dispatch(db, cmd, Nil) = ApplyAdoptExecution(db, cmd)
  BY DEF Dispatch, AdoptExecutionCommand
<1>3. Dispatch(db, cmd, Nil).err = "none" => Legal(db, Dispatch(db, cmd, Nil).db)
  BY <1>2, AdoptExecutionLegal DEF IInv, Consistent, AdoptExecutionCommand
<1> QED
  BY <1>1, <1>3, ApplyLegal

\* A step of RecordAttempt is legal.
LEMMA RecordAttemptStep ==
  ASSUME IInv, RecordAttempt
  PROVE  LegalStep
<1>1. PICK t \in Tenants, id \in ExecutionIds, a \in AttemptIds, n \in Nodes,
           out \in Outcomes, url \in CallbackURLs \ {"malformed"},
           retryAt \in RetryTimes \cup {Nil} :
        /\ \A u \in Tenants : GetAttempt(db, u, a) = Nil
        /\ Apply(RecordAttemptCommand(t, id, a, n, url, out, retryAt), Nil)
  BY DEF RecordAttempt
<1> DEFINE cmd == RecordAttemptCommand(t, id, a, n, url, out, retryAt)
<1>2. Dispatch(db, cmd, Nil) = ApplyRecordAttempt(db, cmd)
  BY DEF Dispatch, RecordAttemptCommand
<1>3. db.attempts[<<t, a>>] = Nil /\ retryAt \in Int \cup {Nil}
  BY <1>1, InputAssumption DEF GetAttempt
<1>4. Dispatch(db, cmd, Nil).err = "none" => Legal(db, Dispatch(db, cmd, Nil).db)
  BY <1>2, <1>3, RecordAttemptLegal DEF IInv, Consistent, RecordAttemptCommand
<1> QED
  BY <1>1, <1>4, ApplyLegal

\* A step of CompleteExecution is legal.
LEMMA CompleteExecutionStep ==
  ASSUME IInv, CompleteExecution
  PROVE  LegalStep
<1>1. PICK t \in Tenants, id \in ExecutionIds, out \in {"success", "terminal_failure"} :
        Apply(CompleteExecutionCommand(t, id, out), Nil)
  BY DEF CompleteExecution
<1> DEFINE cmd == CompleteExecutionCommand(t, id, out)
<1>2. Dispatch(db, cmd, Nil) = ApplyCompleteExecution(db, cmd)
  BY DEF Dispatch, CompleteExecutionCommand
<1>3. Dispatch(db, cmd, Nil).err = "none" => Legal(db, Dispatch(db, cmd, Nil).db)
  BY <1>2, CompleteExecutionLegal DEF IInv, Consistent, CompleteExecutionCommand, FinalOutcomes, Outcomes
<1> QED
  BY <1>1, <1>3, ApplyLegal

\* A step of FailExecutionTimeout is legal.
LEMMA FailExecutionTimeoutStep ==
  ASSUME IInv, FailExecutionTimeout
  PROVE  LegalStep
<1>1. PICK t \in Tenants, id \in ExecutionIds :
        Apply(FailExecutionTimeoutCommand(t, id), Nil)
  BY DEF FailExecutionTimeout
<1> DEFINE cmd == FailExecutionTimeoutCommand(t, id)
<1>2. Dispatch(db, cmd, Nil) = ApplyFailExecutionTimeout(db, cmd)
  BY DEF Dispatch, FailExecutionTimeoutCommand
<1>3. Dispatch(db, cmd, Nil).err = "none" => Legal(db, Dispatch(db, cmd, Nil).db)
  BY <1>2, FailExecutionTimeoutLegal DEF IInv, Consistent, FailExecutionTimeoutCommand, FinalOutcomes
<1> QED
  BY <1>1, <1>3, ApplyLegal

----------------------------------------------------------------------------
(* The theorems.                                                            *)

\* The state machine starts consistent.
LEMMA InitIInv == Init => IInv
BY EmptyDBConsistent DEF Init, IInv

\* Every step is legal.
LEMMA NextLegal ==
  ASSUME IInv, Next
  PROVE  LegalStep
<1>1. CASE CreateTenant
  BY <1>1, CreateTenantStep
<1>2. CASE CreateSchedule
  BY <1>2, CreateScheduleStep, SMTT(30)
<1>3. CASE UpdateSchedule
  BY <1>3, UpdateScheduleStep
<1>4. CASE PauseSchedule
  BY <1>4, PauseScheduleStep
<1>5. CASE CancelSchedule
  BY <1>5, CancelScheduleStep
<1>6. CASE ResumeSchedule
  BY <1>6, ResumeScheduleStep
<1>7. CASE ClaimExecution
  BY <1>7, ClaimExecutionStep
<1>8. CASE AdoptExecution
  BY <1>8, AdoptExecutionStep
<1>9. CASE RecordAttempt
  BY <1>9, RecordAttemptStep
<1>10. CASE CompleteExecution
  BY <1>10, CompleteExecutionStep
<1>11. CASE FailExecutionTimeout
  BY <1>11, FailExecutionTimeoutStep
<1> QED
  BY <1>1, <1>2, <1>3, <1>4, <1>5, <1>6, <1>7, <1>8, <1>9, <1>10, <1>11 DEF Next

\* A stuttering step preserves the invariant.
LEMMA StutterIInv == IInv /\ UNCHANGED vars => IInv'
BY DEF IInv, vars

\* The database is consistent after every command of every log, and what a
\* due scan has offered belongs to a schedule that exists.
THEOREM Invariance == Spec => []IInv
<1>1. IInv /\ [Next]_vars => IInv'
  BY NextLegal, StutterIInv DEF LegalStep
<1> QED
  BY <1>1, InitIInv, PTL DEF Spec

\* Every reachable database has its type: no stored schedule carries a header
\* key reserved for the scheduler or a call timeout out of range.
THEOREM TypeCorrect == Spec => []TypeOK
<1>1. IInv => TypeOK
  BY DEF IInv, Consistent, Intact, TypeOK
<1> QED
  BY <1>1, Invariance, PTL

\* The index buckets agree with the rows after every command.
THEOREM IndexesCorrect == Spec => []IndexesMirrorRows
<1>1. IInv => IndexesMirrorRows
  BY DEF IInv, Consistent, Intact, IndexesMirrorRows
<1> QED
  BY <1>1, Invariance, PTL

\* An occurrence of a schedule is never claimed twice, however stale the scan
\* behind a claim and in whatever order the entries reach the log.
THEOREM OccurrencesClaimedOnce == Spec => []OneExecutionPerOccurrence
<1>1. IInv => OneExecutionPerOccurrence
  BY DEF IInv, Consistent, Intact, OneExecutionPerOccurrence
<1> QED
  BY <1>1, Invariance, PTL

\* An execution has an owner exactly while it is in flight.
THEOREM OwnershipCorrect == Spec => []OwnedIffInFlight
<1>1. IInv => OwnedIffInFlight
  BY DEF IInv, Consistent, Intact, OwnedIffInFlight
<1> QED
  BY <1>1, Invariance, PTL

\* The attempts of an execution are numbered consecutively across owners and
\* its summary is that of the last one.
THEOREM LedgerCorrect == Spec => []AttemptLedger
<1>1. IInv => AttemptLedger
  BY DEF IInv, Consistent, Intact, AttemptLedger
<1> QED
  BY <1>1, Invariance, PTL

\* A schedule that is not active has no next run.
THEOREM InactiveIsQuiet == Spec => []QuietUnlessActive
<1>1. IInv => QuietUnlessActive
  BY DEF IInv, Consistent, Intact, QuietUnlessActive
<1> QED
  BY <1>1, Invariance, PTL

\* An execution that has ended, and an attempt once recorded, never change.
THEOREM HistoryIsFrozen == Spec => FinishedIsFrozen
<1>1. IInv /\ [Next]_vars => [ExecutionsKept(db, db') /\ AttemptsKept(db, db')]_vars
  BY NextLegal DEF LegalStep
<1> QED
  BY <1>1, Invariance, PTL DEF Spec, FinishedIsFrozen

\* A schedule's status only changes along its lifecycle.
THEOREM LifecycleRespected == Spec => ScheduleLifecycle
<1>1. IInv /\ [Next]_vars => [SchedulesKept(db, db')]_vars
  BY NextLegal DEF LegalStep
<1> QED
  BY <1>1, Invariance, PTL DEF Spec, ScheduleLifecycle
=============================================================================
