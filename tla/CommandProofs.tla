--------------------------- MODULE CommandProofs ---------------------------
(***************************************************************************)
(* Every write that the commands make, and so every command, keeps a       *)
(* database consistent.                                                    *)
(***************************************************************************)
EXTENDS Consistency, RecurrenceProofs

\* A leaf may take the provers half a minute.
USE SMTT(30), ZenonT(30)

----------------------------------------------------------------------------
(* What a Put of module Storage changes, bucket by bucket.                  *)

\* The database that New creates has its type.
LEMMA EmptyDBType == EmptyDB \in DB
BY DEF EmptyDB, DB

\* PutTenant writes one row of one bucket.
LEMMA PutTenantEffect ==
  ASSUME NEW d \in DB, NEW t \in Tenants, NEW h \in KeyHashes,
         NEW n, n = PutTenant(d, t, h)
  PROVE  /\ n \in DB
         /\ n.schedules = d.schedules
         /\ n.executions = d.executions
         /\ n.attempts = d.attempts
         /\ n.schedulesByStatus = d.schedulesByStatus
         /\ n.executionsByStatus = d.executionsByStatus
         /\ n.executionsBySchedule = d.executionsBySchedule
         /\ n.attemptsByExecution = d.attemptsByExecution
BY Zenon DEF PutTenant, DB

\* PutSchedule writes one row and replaces its status key.
LEMMA PutScheduleEffect ==
  ASSUME NEW d \in DB, NEW t \in Tenants, NEW id \in ScheduleIds, NEW row \in Schedule,
         NEW n, n = PutSchedule(d, t, id, row)
  PROVE  /\ n \in DB
         /\ n.tenants = d.tenants
         /\ n.executions = d.executions
         /\ n.attempts = d.attempts
         /\ n.executionsByStatus = d.executionsByStatus
         /\ n.executionsBySchedule = d.executionsBySchedule
         /\ n.attemptsByExecution = d.attemptsByExecution
         /\ n.schedules = [d.schedules EXCEPT ![<<t, id>>] = row]
         /\ n.schedulesByStatus =
              (d.schedulesByStatus \ (IF d.schedules[<<t, id>>] = Nil THEN {}
                                      ELSE {<<t, d.schedules[<<t, id>>].status, id>>}))
                \cup {<<t, row.status, id>>}
<1>1. row.status \in ScheduleStatuses
  BY DEF Schedule
<1>2. n.schedulesByStatus =
         (d.schedulesByStatus \ (IF d.schedules[<<t, id>>] = Nil THEN {}
                                 ELSE {<<t, d.schedules[<<t, id>>].status, id>>}))
           \cup {<<t, row.status, id>>}
  BY DEF PutSchedule, GetSchedule, DB
<1>3. n.schedules = [d.schedules EXCEPT ![<<t, id>>] = row]
  BY DEF PutSchedule, DB
<1>4. n.schedulesByStatus \in SUBSET (Tenants \X ScheduleStatuses \X ScheduleIds)
  BY <1>1, <1>2 DEF DB
<1>5. n.schedules \in [Tenants \X ScheduleIds -> Schedule \cup {Nil}]
  BY <1>3 DEF DB
<1>6. /\ n = [d EXCEPT !.schedules = n.schedules, !.schedulesByStatus = n.schedulesByStatus]
      /\ n.tenants = d.tenants
      /\ n.executions = d.executions
      /\ n.attempts = d.attempts
      /\ n.executionsByStatus = d.executionsByStatus
      /\ n.executionsBySchedule = d.executionsBySchedule
      /\ n.attemptsByExecution = d.attemptsByExecution
  BY DEF PutSchedule, DB
<1>7. n \in DB
  BY <1>4, <1>5, <1>6, Zenon DEF DB
<1> QED
  BY <1>2, <1>3, <1>6, <1>7

\* PutExecution writes one row, replaces its status key and adds its schedule
\* key.
LEMMA PutExecutionEffect ==
  ASSUME NEW d \in DB, NEW t \in Tenants, NEW id \in ExecutionIds, NEW row \in Execution,
         NEW n, n = PutExecution(d, t, id, row)
  PROVE  /\ n \in DB
         /\ n.tenants = d.tenants
         /\ n.schedules = d.schedules
         /\ n.attempts = d.attempts
         /\ n.schedulesByStatus = d.schedulesByStatus
         /\ n.attemptsByExecution = d.attemptsByExecution
         /\ n.executions = [d.executions EXCEPT ![<<t, id>>] = row]
         /\ n.executionsBySchedule = d.executionsBySchedule \cup {<<t, row.schedule, id>>}
         /\ n.executionsByStatus =
              (d.executionsByStatus \ (IF d.executions[<<t, id>>] = Nil THEN {}
                                       ELSE {<<t, d.executions[<<t, id>>].status, id>>}))
                \cup {<<t, row.status, id>>}
<1>1. row.status \in ExecutionStatuses /\ row.schedule \in ScheduleIds
  BY DEF Execution
<1>2. n.executionsByStatus =
         (d.executionsByStatus \ (IF d.executions[<<t, id>>] = Nil THEN {}
                                  ELSE {<<t, d.executions[<<t, id>>].status, id>>}))
           \cup {<<t, row.status, id>>}
  BY DEF PutExecution, GetExecution, DB
<1>3. n.executions = [d.executions EXCEPT ![<<t, id>>] = row]
  BY DEF PutExecution, DB
<1>4. n.executionsBySchedule = d.executionsBySchedule \cup {<<t, row.schedule, id>>}
  BY DEF PutExecution, DB
<1>5. n.executionsByStatus \in SUBSET (Tenants \X ExecutionStatuses \X ExecutionIds)
  BY <1>1, <1>2 DEF DB
<1>6. n.executionsBySchedule \in SUBSET (Tenants \X ScheduleIds \X ExecutionIds)
  BY <1>1, <1>4 DEF DB
<1>7. n.executions \in [Tenants \X ExecutionIds -> Execution \cup {Nil}]
  BY <1>3 DEF DB
<1>8. /\ n = [d EXCEPT !.executions = n.executions,
                       !.executionsByStatus = n.executionsByStatus,
                       !.executionsBySchedule = n.executionsBySchedule]
      /\ n.tenants = d.tenants
      /\ n.schedules = d.schedules
      /\ n.attempts = d.attempts
      /\ n.schedulesByStatus = d.schedulesByStatus
      /\ n.attemptsByExecution = d.attemptsByExecution
  BY DEF PutExecution, DB
<1>9. n \in DB
  BY <1>5, <1>6, <1>7, <1>8, Zenon DEF DB
<1> QED
  BY <1>2, <1>3, <1>4, <1>8, <1>9

\* PutAttempt writes one row and adds its execution key.
LEMMA PutAttemptEffect ==
  ASSUME NEW d \in DB, NEW t \in Tenants, NEW id \in AttemptIds, NEW row \in Attempt,
         NEW n, n = PutAttempt(d, t, id, row)
  PROVE  /\ n \in DB
         /\ n.tenants = d.tenants
         /\ n.schedules = d.schedules
         /\ n.executions = d.executions
         /\ n.schedulesByStatus = d.schedulesByStatus
         /\ n.executionsByStatus = d.executionsByStatus
         /\ n.executionsBySchedule = d.executionsBySchedule
         /\ n.attempts = [d.attempts EXCEPT ![<<t, id>>] = row]
         /\ n.attemptsByExecution = d.attemptsByExecution \cup {<<t, row.execution, id>>}
<1>1. row.execution \in ExecutionIds
  BY DEF Attempt
<1>2. n.attempts = [d.attempts EXCEPT ![<<t, id>>] = row]
  BY DEF PutAttempt, DB
<1>3. n.attemptsByExecution = d.attemptsByExecution \cup {<<t, row.execution, id>>}
  BY DEF PutAttempt, DB
<1>4. n.attemptsByExecution \in SUBSET (Tenants \X ExecutionIds \X AttemptIds)
  BY <1>1, <1>3 DEF DB
<1>5. n.attempts \in [Tenants \X AttemptIds -> Attempt \cup {Nil}]
  BY <1>2 DEF DB
<1>6. /\ n = [d EXCEPT !.attempts = n.attempts,
                       !.attemptsByExecution = n.attemptsByExecution]
      /\ n.tenants = d.tenants
      /\ n.schedules = d.schedules
      /\ n.executions = d.executions
      /\ n.schedulesByStatus = d.schedulesByStatus
      /\ n.executionsByStatus = d.executionsByStatus
      /\ n.executionsBySchedule = d.executionsBySchedule
  BY DEF PutAttempt, DB
<1>7. n \in DB
  BY <1>4, <1>5, <1>6, Zenon DEF DB
<1> QED
  BY <1>2, <1>3, <1>6, <1>7

----------------------------------------------------------------------------
(* Consistency.                                                             *)

\* The database that New creates is consistent.
LEMMA EmptyDBConsistent == Consistent(EmptyDB)
<1>1. IndexesMirror(EmptyDB)
  BY DEF IndexesMirror, SchedulesIndexed, ExecutionsIndexedByStatus,
         ExecutionsIndexedBySchedule, AttemptsIndexed, EmptyDB
<1>2. OccurrencesUnique(EmptyDB) /\ ExecutionsOwned(EmptyDB)
  BY DEF OccurrencesUnique, ExecutionsOwned, EmptyDB
<1>3. AttemptsOwned(EmptyDB) /\ AttemptsNumbered(EmptyDB)
  BY DEF AttemptsOwned, AttemptsNumbered, EmptyDB
<1>4. SchedulesQuiet(EmptyDB)
  BY DEF SchedulesQuiet, EmptyDB
<1> QED
  BY <1>1, <1>2, <1>3, <1>4, EmptyDBType DEF Consistent, Intact

\* What a command is held to: the database it leaves is intact, consistent if
\* it was before, and it changes no execution, attempt or schedule in a way it
\* may not.
Legal(d, n) ==
  /\ Intact(n)
  /\ AttemptsNumbered(d) => AttemptsNumbered(n)
  /\ ExecutionsKept(d, n)
  /\ AttemptsKept(d, n)
  /\ SchedulesKept(d, n)

\* A command that is rejected, and so rolled back, is legal.
LEMMA StutterLegal ==
  ASSUME NEW d, Intact(d)
  PROVE  Legal(d, d)
BY DEF Legal, ExecutionsKept, AttemptsKept, SchedulesKept, StatusChangeAllowed

\* The numbering depends on the attempts, and on the summary in the execution.
LEMMA LedgerOfAttempts ==
  ASSUME NEW d, NEW n, n.attempts = d.attempts
  PROVE  /\ \A t, id, a : AttemptOf(n, t, id, a) <=> AttemptOf(d, t, id, a)
         /\ \A t, id, count : NumberedUpTo(d, t, id, count) => NumberedUpTo(n, t, id, count)
         /\ \A t, id, count, last, retryAt :
              LastAttemptIs(d, t, id, count, last, retryAt)
                => LastAttemptIs(n, t, id, count, last, retryAt)
<1>1. \A t, id, a : AttemptOf(n, t, id, a) <=> AttemptOf(d, t, id, a)
  BY DEF AttemptOf
<1>2. \A t, id, count : NumberedUpTo(d, t, id, count) => NumberedUpTo(n, t, id, count)
  <2> SUFFICES ASSUME NEW t, NEW id, NEW count, NumberedUpTo(d, t, id, count)
               PROVE  NumberedUpTo(n, t, id, count)
    OBVIOUS
  <2>1. \A a \in AttemptIds :
          AttemptOf(n, t, id, a) => n.attempts[<<t, a>>].number \in 1..count
    BY <1>1, Zenon DEF NumberedUpTo
  <2>2. \A a, b \in AttemptIds :
          /\ AttemptOf(n, t, id, a)
          /\ AttemptOf(n, t, id, b)
          /\ n.attempts[<<t, a>>].number = n.attempts[<<t, b>>].number
          => a = b
    BY <1>1, Zenon DEF NumberedUpTo
  <2>3. \A k \in 1..count : \E a \in AttemptIds :
          AttemptOf(n, t, id, a) /\ n.attempts[<<t, a>>].number = k
    BY <1>1, Zenon DEF NumberedUpTo
  <2> QED
    BY <2>1, <2>2, <2>3, Zenon DEF NumberedUpTo
<1>3. \A t, id, count, last, retryAt :
        LastAttemptIs(d, t, id, count, last, retryAt)
          => LastAttemptIs(n, t, id, count, last, retryAt)
  BY <1>1 DEF LastAttemptIs
<1> QED
  BY <1>1, <1>2, <1>3

\* The numbering only depends on the executions and the attempts.
LEMMA AttemptsNumberedCongruence ==
  ASSUME NEW d, NEW n, AttemptsNumbered(d),
         n.executions = d.executions, n.attempts = d.attempts
  PROVE  AttemptsNumbered(n)
BY LedgerOfAttempts, Zenon DEF AttemptsNumbered

\* A new tenant disturbs no other bucket.
LEMMA PutTenantLegal ==
  ASSUME NEW d, Intact(d), NEW t \in Tenants, NEW h \in KeyHashes
  PROVE  Legal(d, PutTenant(d, t, h))
<1> DEFINE n == PutTenant(d, t, h)
<1>0. d \in DB
  BY DEF Intact
<1>1. /\ n \in DB
      /\ n.schedules = d.schedules
      /\ n.executions = d.executions
      /\ n.attempts = d.attempts
      /\ n.schedulesByStatus = d.schedulesByStatus
      /\ n.executionsByStatus = d.executionsByStatus
      /\ n.executionsBySchedule = d.executionsBySchedule
      /\ n.attemptsByExecution = d.attemptsByExecution
  BY <1>0, PutTenantEffect
<1> HIDE DEF n
<1>2. IndexesMirror(n)
  BY <1>1 DEF Intact, IndexesMirror, SchedulesIndexed, ExecutionsIndexedByStatus,
              ExecutionsIndexedBySchedule, AttemptsIndexed
<1>3. OccurrencesUnique(n) /\ ExecutionsOwned(n) /\ AttemptsOwned(n)
  BY <1>1 DEF Intact, OccurrencesUnique, ExecutionsOwned, AttemptsOwned
<1>4. ASSUME AttemptsNumbered(d) PROVE AttemptsNumbered(n)
  BY <1>1, <1>4, AttemptsNumberedCongruence
<1>5. SchedulesQuiet(n)
  BY <1>1 DEF Intact, SchedulesQuiet
<1>6. Intact(n)
  BY <1>1, <1>2, <1>3, <1>5 DEF Intact
<1>7. ExecutionsKept(d, n) /\ AttemptsKept(d, n) /\ SchedulesKept(d, n)
  BY <1>1 DEF ExecutionsKept, AttemptsKept, SchedulesKept, StatusChangeAllowed
<1> QED
  BY <1>4, <1>6, <1>7 DEF Legal, n

\* A well-typed schedule row may be written if it is quiet unless active and
\* its status may follow the old one: the status key follows it.
LEMMA PutScheduleLegal ==
  ASSUME NEW d, Intact(d), NEW t \in Tenants, NEW id \in ScheduleIds,
         NEW row \in Schedule, Quiet(row),
         d.schedules[<<t, id>>] # Nil => StatusChangeAllowed(d.schedules[<<t, id>>], row)
  PROVE  /\ Legal(d, PutSchedule(d, t, id, row))
         /\ PutSchedule(d, t, id, row).executions = d.executions
         /\ PutSchedule(d, t, id, row).attempts = d.attempts
<1> DEFINE n == PutSchedule(d, t, id, row)
<1>0. d \in DB
  BY DEF Intact
<1>1. /\ n \in DB
      /\ n.executions = d.executions
      /\ n.attempts = d.attempts
      /\ n.executionsByStatus = d.executionsByStatus
      /\ n.executionsBySchedule = d.executionsBySchedule
      /\ n.attemptsByExecution = d.attemptsByExecution
      /\ n.schedules = [d.schedules EXCEPT ![<<t, id>>] = row]
      /\ n.schedulesByStatus =
           (d.schedulesByStatus \ (IF d.schedules[<<t, id>>] = Nil THEN {}
                                   ELSE {<<t, d.schedules[<<t, id>>].status, id>>}))
             \cup {<<t, row.status, id>>}
  BY <1>0, PutScheduleEffect
<1> HIDE DEF n
<1>2. row # Nil
  BY RowAssumption
<1>3. /\ d.schedules \in [Tenants \X ScheduleIds -> Schedule \cup {Nil}]
      /\ \A u \in Tenants, j \in ScheduleIds :
           n.schedules[<<u, j>>] = IF u = t /\ j = id THEN row ELSE d.schedules[<<u, j>>]
  BY <1>0, <1>1 DEF DB
<1>4. SchedulesIndexed(n)
  <2> SUFFICES ASSUME NEW u \in Tenants, NEW j \in ScheduleIds, NEW st \in ScheduleStatuses
               PROVE  <<u, st, j>> \in n.schedulesByStatus <=>
                        n.schedules[<<u, j>>] # Nil /\ n.schedules[<<u, j>>].status = st
    BY Zenon DEF SchedulesIndexed
  <2>1. <<u, st, j>> \in d.schedulesByStatus <=>
          d.schedules[<<u, j>>] # Nil /\ d.schedules[<<u, j>>].status = st
    BY DEF Intact, IndexesMirror, SchedulesIndexed
  <2>2. CASE u = t /\ j = id
    BY <1>1, <1>2, <1>3, <2>1, <2>2, SMTT(30)
  <2>3. CASE ~ (u = t /\ j = id)
    BY <1>1, <1>3, <2>1, <2>3
  <2> QED
    BY <2>2, <2>3
<1>5. IndexesMirror(n)
  BY <1>1, <1>4 DEF Intact, IndexesMirror, ExecutionsIndexedByStatus,
                    ExecutionsIndexedBySchedule, AttemptsIndexed
<1>6. OccurrencesUnique(n) /\ AttemptsOwned(n)
  BY <1>1 DEF Intact, OccurrencesUnique, AttemptsOwned
<1>7. ExecutionsOwned(n)
  <2> SUFFICES ASSUME NEW u \in Tenants, NEW j \in ExecutionIds, n.executions[<<u, j>>] # Nil
               PROVE  /\ n.schedules[<<u, n.executions[<<u, j>>].schedule>>] # Nil
                      /\ n.executions[<<u, j>>].status = "in_flight"
                           <=> n.executions[<<u, j>>].owner # Nil
    BY DEF ExecutionsOwned
  <2>1. n.executions[<<u, j>>].schedule \in ScheduleIds
    BY <1>1 DEF DB, Execution
  <2> QED
    BY <1>1, <1>2, <1>3, <2>1 DEF Intact, ExecutionsOwned
<1>8. ASSUME AttemptsNumbered(d) PROVE AttemptsNumbered(n)
  BY <1>1, <1>8, AttemptsNumberedCongruence
<1>9. SchedulesQuiet(n)
  BY <1>3 DEF Intact, SchedulesQuiet
<1>10. ExecutionsKept(d, n) /\ AttemptsKept(d, n)
  BY <1>1 DEF ExecutionsKept, AttemptsKept
<1>11. SchedulesKept(d, n)
  BY <1>2, <1>3 DEF SchedulesKept, StatusChangeAllowed
<1> QED
  BY <1>1, <1>5, <1>6, <1>7, <1>8, <1>9, <1>10, <1>11 DEF Intact, Legal, n

\* The two execution indexes follow a row that is new or that keeps its
\* schedule; PutExecution never deletes a schedule key.
LEMMA PutExecutionIndexes ==
  ASSUME NEW d \in DB, IndexesMirror(d), NEW t \in Tenants, NEW id \in ExecutionIds,
         NEW row \in Execution,
         \/ d.executions[<<t, id>>] = Nil
         \/ row.schedule = d.executions[<<t, id>>].schedule
  PROVE  /\ PutExecution(d, t, id, row) \in DB
         /\ PutExecution(d, t, id, row).schedules = d.schedules
         /\ PutExecution(d, t, id, row).attempts = d.attempts
         /\ IndexesMirror(PutExecution(d, t, id, row))
         /\ \A u \in Tenants, j \in ExecutionIds :
              PutExecution(d, t, id, row).executions[<<u, j>>]
                = IF u = t /\ j = id THEN row ELSE d.executions[<<u, j>>]
<1> DEFINE n == PutExecution(d, t, id, row)
<1>1. /\ n \in DB
      /\ n.schedules = d.schedules
      /\ n.attempts = d.attempts
      /\ n.schedulesByStatus = d.schedulesByStatus
      /\ n.attemptsByExecution = d.attemptsByExecution
      /\ n.executions = [d.executions EXCEPT ![<<t, id>>] = row]
      /\ n.executionsBySchedule = d.executionsBySchedule \cup {<<t, row.schedule, id>>}
      /\ n.executionsByStatus =
           (d.executionsByStatus \ (IF d.executions[<<t, id>>] = Nil THEN {}
                                    ELSE {<<t, d.executions[<<t, id>>].status, id>>}))
             \cup {<<t, row.status, id>>}
  BY PutExecutionEffect
<1> HIDE DEF n
<1>2. row # Nil
  BY RowAssumption
<1>3. \A u \in Tenants, j \in ExecutionIds :
        n.executions[<<u, j>>] = IF u = t /\ j = id THEN row ELSE d.executions[<<u, j>>]
  BY <1>1 DEF DB
<1>4. ExecutionsIndexedByStatus(n)
  <2> SUFFICES ASSUME NEW u \in Tenants, NEW j \in ExecutionIds, NEW st \in ExecutionStatuses
               PROVE  <<u, st, j>> \in n.executionsByStatus <=>
                        n.executions[<<u, j>>] # Nil /\ n.executions[<<u, j>>].status = st
    BY Zenon DEF ExecutionsIndexedByStatus
  <2>1. <<u, st, j>> \in d.executionsByStatus <=>
          d.executions[<<u, j>>] # Nil /\ d.executions[<<u, j>>].status = st
    BY DEF IndexesMirror, ExecutionsIndexedByStatus
  <2>2. CASE u = t /\ j = id
    BY <1>1, <1>2, <1>3, <2>1, <2>2
  <2>3. CASE ~ (u = t /\ j = id)
    BY <1>1, <1>3, <2>1, <2>3
  <2> QED
    BY <2>2, <2>3
<1>5. ExecutionsIndexedBySchedule(n)
  <2> SUFFICES ASSUME NEW u \in Tenants, NEW j \in ExecutionIds, NEW s \in ScheduleIds
               PROVE  <<u, s, j>> \in n.executionsBySchedule <=>
                        n.executions[<<u, j>>] # Nil /\ n.executions[<<u, j>>].schedule = s
    BY Zenon DEF ExecutionsIndexedBySchedule
  <2>1. <<u, s, j>> \in d.executionsBySchedule <=>
          d.executions[<<u, j>>] # Nil /\ d.executions[<<u, j>>].schedule = s
    BY DEF IndexesMirror, ExecutionsIndexedBySchedule
  <2>2. CASE u = t /\ j = id
    BY <1>1, <1>2, <1>3, <2>1, <2>2
  <2>3. CASE ~ (u = t /\ j = id)
    BY <1>1, <1>3, <2>1, <2>3
  <2> QED
    BY <2>2, <2>3
<1>6. SchedulesIndexed(n) /\ AttemptsIndexed(n)
  BY <1>1 DEF IndexesMirror, SchedulesIndexed, AttemptsIndexed
<1> QED
  BY <1>1, <1>3, <1>4, <1>5, <1>6 DEF IndexesMirror, n

\* The attempt index follows an attempt that is new or that keeps its
\* execution; PutAttempt never deletes a key.
LEMMA PutAttemptIndexes ==
  ASSUME NEW d \in DB, IndexesMirror(d), NEW t \in Tenants, NEW a \in AttemptIds,
         NEW attempt \in Attempt,
         \/ d.attempts[<<t, a>>] = Nil
         \/ attempt.execution = d.attempts[<<t, a>>].execution
  PROVE  /\ PutAttempt(d, t, a, attempt) \in DB
         /\ IndexesMirror(PutAttempt(d, t, a, attempt))
         /\ PutAttempt(d, t, a, attempt).schedules = d.schedules
         /\ PutAttempt(d, t, a, attempt).executions = d.executions
         /\ \A u \in Tenants, b \in AttemptIds :
              PutAttempt(d, t, a, attempt).attempts[<<u, b>>]
                = IF u = t /\ b = a THEN attempt ELSE d.attempts[<<u, b>>]
<1> DEFINE n == PutAttempt(d, t, a, attempt)
<1>1. /\ n \in DB
      /\ n.schedules = d.schedules
      /\ n.executions = d.executions
      /\ n.schedulesByStatus = d.schedulesByStatus
      /\ n.executionsByStatus = d.executionsByStatus
      /\ n.executionsBySchedule = d.executionsBySchedule
      /\ n.attempts = [d.attempts EXCEPT ![<<t, a>>] = attempt]
      /\ n.attemptsByExecution = d.attemptsByExecution \cup {<<t, attempt.execution, a>>}
  BY PutAttemptEffect
<1> HIDE DEF n
<1>2. attempt # Nil
  BY RowAssumption
<1>3. \A u \in Tenants, b \in AttemptIds :
        n.attempts[<<u, b>>] = IF u = t /\ b = a THEN attempt ELSE d.attempts[<<u, b>>]
  BY <1>1 DEF DB
<1>4. AttemptsIndexed(n)
  <2> SUFFICES ASSUME NEW u \in Tenants, NEW b \in AttemptIds, NEW e \in ExecutionIds
               PROVE  <<u, e, b>> \in n.attemptsByExecution <=>
                        n.attempts[<<u, b>>] # Nil /\ n.attempts[<<u, b>>].execution = e
    BY Zenon DEF AttemptsIndexed
  <2>1. <<u, e, b>> \in d.attemptsByExecution <=>
          d.attempts[<<u, b>>] # Nil /\ d.attempts[<<u, b>>].execution = e
    BY DEF IndexesMirror, AttemptsIndexed
  <2>2. CASE u = t /\ b = a
    BY <1>1, <1>2, <1>3, <2>1, <2>2
  <2>3. CASE ~ (u = t /\ b = a)
    BY <1>1, <1>3, <2>1, <2>3
  <2> QED
    BY <2>2, <2>3
<1>5. /\ SchedulesIndexed(n)
      /\ ExecutionsIndexedByStatus(n)
      /\ ExecutionsIndexedBySchedule(n)
  BY <1>1, SMTT(30) DEF IndexesMirror, SchedulesIndexed, ExecutionsIndexedByStatus,
              ExecutionsIndexedBySchedule
<1> QED
  BY <1>1, <1>3, <1>4, <1>5 DEF IndexesMirror, n

\* Writing back an execution that keeps its occurrence and its attempt
\* summary: what adoption and both ways to end an execution do.
LEMMA RewriteExecutionLegal ==
  ASSUME NEW d, Intact(d), NEW t \in Tenants, NEW id \in ExecutionIds,
         NEW row \in Execution,
         d.executions[<<t, id>>] # Nil,
         ~ IsTerminal(d.executions[<<t, id>>].status),
         row.schedule = d.executions[<<t, id>>].schedule,
         row.scheduledFor = d.executions[<<t, id>>].scheduledFor,
         row.attemptCount = d.executions[<<t, id>>].attemptCount,
         row.lastAttemptID = d.executions[<<t, id>>].lastAttemptID,
         row.lastRetryAt = d.executions[<<t, id>>].lastRetryAt,
         row.status = "in_flight" <=> row.owner # Nil
  PROVE  /\ Legal(d, PutExecution(d, t, id, row))
         /\ PutExecution(d, t, id, row).schedules = d.schedules
<1> DEFINE n == PutExecution(d, t, id, row)
<1>0. d \in DB /\ IndexesMirror(d)
  BY DEF Intact
<1>1. n \in DB /\ n.schedules = d.schedules /\ n.attempts = d.attempts
  BY <1>0, PutExecutionIndexes
<1>2. IndexesMirror(n) /\ \A u \in Tenants, j \in ExecutionIds :
        n.executions[<<u, j>>] = IF u = t /\ j = id THEN row ELSE d.executions[<<u, j>>]
  BY <1>0, PutExecutionIndexes
<1> HIDE DEF n
<1>3. row # Nil
  BY RowAssumption
<1>4. OccurrencesUnique(n)
  BY <1>2, <1>3 DEF Intact, OccurrencesUnique
<1>5. ExecutionsOwned(n)
  BY <1>1, <1>2, <1>3 DEF Intact, ExecutionsOwned
<1>6. AttemptsOwned(n)
  <2> SUFFICES ASSUME NEW u \in Tenants, NEW a \in AttemptIds, n.attempts[<<u, a>>] # Nil
               PROVE  n.executions[<<u, n.attempts[<<u, a>>].execution>>] # Nil
    BY DEF AttemptsOwned
  <2>1. n.attempts[<<u, a>>].execution \in ExecutionIds
    BY <1>1, SMTT(30) DEF DB, Attempt
  <2> QED
    BY <1>1, <1>2, <1>3, <2>1 DEF Intact, AttemptsOwned
<1>7. ASSUME AttemptsNumbered(d) PROVE AttemptsNumbered(n)
  <2>1. /\ \A u, j, a : AttemptOf(n, u, j, a) <=> AttemptOf(d, u, j, a)
        /\ \A u, j, count : NumberedUpTo(d, u, j, count) => NumberedUpTo(n, u, j, count)
        /\ \A u, j, count, last, retryAt :
             LastAttemptIs(d, u, j, count, last, retryAt)
               => LastAttemptIs(n, u, j, count, last, retryAt)
    BY <1>1, LedgerOfAttempts
  <2> QED
    BY <1>2, <1>7, <2>1, SMTT(30) DEF AttemptsNumbered
<1>8. SchedulesQuiet(n) /\ AttemptsKept(d, n) /\ SchedulesKept(d, n)
  BY <1>1 DEF Intact, SchedulesQuiet, AttemptsKept, SchedulesKept, StatusChangeAllowed
<1>9. ExecutionsKept(d, n)
  BY <1>2, <1>3, SMTT(30) DEF ExecutionsKept
<1> QED
  BY <1>1, <1>2, <1>4, <1>5, <1>6, <1>7, <1>8, <1>9 DEF Intact, Legal, n

\* A new execution for an occurrence that has none.
LEMMA NewExecutionLegal ==
  ASSUME NEW d, Intact(d), NEW t \in Tenants, NEW id \in ExecutionIds,
         NEW row \in Execution,
         d.executions[<<t, id>>] = Nil,
         d.schedules[<<t, row.schedule>>] # Nil,
         \A j \in ExecutionIds :
           d.executions[<<t, j>>] # Nil /\ d.executions[<<t, j>>].schedule = row.schedule
             => d.executions[<<t, j>>].scheduledFor # row.scheduledFor,
         row.status = "in_flight", row.owner # Nil,
         row.attemptCount = 0, row.lastAttemptID = Nil, row.lastRetryAt = Nil
  PROVE  Legal(d, PutExecution(d, t, id, row))
<1> DEFINE n == PutExecution(d, t, id, row)
<1>0. d \in DB /\ IndexesMirror(d)
  BY DEF Intact
<1>1. n \in DB /\ n.schedules = d.schedules /\ n.attempts = d.attempts
  BY <1>0, PutExecutionIndexes
<1>2. IndexesMirror(n) /\ \A u \in Tenants, j \in ExecutionIds :
        n.executions[<<u, j>>] = IF u = t /\ j = id THEN row ELSE d.executions[<<u, j>>]
  BY <1>0, PutExecutionIndexes
<1> HIDE DEF n
<1>3. row # Nil
  BY RowAssumption
<1>4. OccurrencesUnique(n)
  BY <1>2, <1>3 DEF Intact, OccurrencesUnique
<1>5. ExecutionsOwned(n)
  BY <1>1, <1>2, <1>3 DEF Intact, ExecutionsOwned
<1>6. AttemptsOwned(n)
  <2> SUFFICES ASSUME NEW u \in Tenants, NEW a \in AttemptIds, n.attempts[<<u, a>>] # Nil
               PROVE  n.executions[<<u, n.attempts[<<u, a>>].execution>>] # Nil
    BY DEF AttemptsOwned
  <2>1. n.attempts[<<u, a>>].execution \in ExecutionIds
    BY <1>1, SMTT(30) DEF DB, Attempt
  <2> QED
    BY <1>1, <1>2, <1>3, <2>1 DEF Intact, AttemptsOwned
<1>7. ASSUME AttemptsNumbered(d) PROVE AttemptsNumbered(n)
  <2>1. /\ \A u, j, a : AttemptOf(n, u, j, a) <=> AttemptOf(d, u, j, a)
        /\ \A u, j, count : NumberedUpTo(d, u, j, count) => NumberedUpTo(n, u, j, count)
        /\ \A u, j, count, last, retryAt :
             LastAttemptIs(d, u, j, count, last, retryAt)
               => LastAttemptIs(n, u, j, count, last, retryAt)
    BY <1>1, LedgerOfAttempts
  <2>4. \A a \in AttemptIds : ~ AttemptOf(d, t, id, a)
    BY SMTT(30) DEF Intact, AttemptsOwned, AttemptOf
  <2>5. NumberedUpTo(n, t, id, 0)
    BY <2>1, <2>4 DEF NumberedUpTo
  <2>6. LastAttemptIs(n, t, id, 0, Nil, Nil)
    BY SMTT(30) DEF LastAttemptIs
  <2> QED
    BY <1>2, <1>7, <2>1, <2>5, <2>6, SMTT(30) DEF AttemptsNumbered
<1>8. SchedulesQuiet(n) /\ AttemptsKept(d, n) /\ SchedulesKept(d, n)
  BY <1>1 DEF Intact, SchedulesQuiet, AttemptsKept, SchedulesKept, StatusChangeAllowed
<1>9. ExecutionsKept(d, n)
  BY <1>2, <1>3 DEF ExecutionsKept
<1> QED
  BY <1>1, <1>2, <1>4, <1>5, <1>6, <1>7, <1>8, <1>9, SMTT(30) DEF Intact, Legal, n

\* The ledger of an execution depends on its own attempts only.
SameAttempts(d, n, t, id) ==
  \A b \in AttemptIds :
    /\ AttemptOf(n, t, id, b) <=> AttemptOf(d, t, id, b)
    /\ AttemptOf(n, t, id, b) => n.attempts[<<t, b>>] = d.attempts[<<t, b>>]

\* The ledger of one execution only depends on its attempts and its summary.
LEMMA LedgerCongruence ==
  ASSUME NEW d, NEW n, NEW t, NEW id, NEW count,
         SameAttempts(d, n, t, id),
         NumberedUpTo(d, t, id, count)
  PROVE  /\ NumberedUpTo(n, t, id, count)
         /\ \A last, retryAt : LastAttemptIs(d, t, id, count, last, retryAt)
                                => LastAttemptIs(n, t, id, count, last, retryAt)
<1>1. \A b \in AttemptIds :
        AttemptOf(n, t, id, b) => n.attempts[<<t, b>>].number \in 1..count
  BY Zenon DEF SameAttempts, NumberedUpTo
<1>2. \A a, b \in AttemptIds :
        /\ AttemptOf(n, t, id, a)
        /\ AttemptOf(n, t, id, b)
        /\ n.attempts[<<t, a>>].number = n.attempts[<<t, b>>].number
        => a = b
  BY Zenon DEF SameAttempts, NumberedUpTo
<1>3. \A i \in 1..count : \E a \in AttemptIds :
        AttemptOf(n, t, id, a) /\ n.attempts[<<t, a>>].number = i
  BY Zenon DEF SameAttempts, NumberedUpTo
<1>4. \A last, retryAt : LastAttemptIs(d, t, id, count, last, retryAt)
                           => LastAttemptIs(n, t, id, count, last, retryAt)
  BY ZenonT(30) DEF SameAttempts, LastAttemptIs
<1> QED
  BY <1>1, <1>2, <1>3, <1>4, Zenon DEF NumberedUpTo

\* An attempt, numbered one above the count, together with the updated summary
\* in its execution.  Only a new one leaves the numbers of the others in order.
LEMMA NewAttemptLegal ==
  ASSUME NEW d, Intact(d), NEW t \in Tenants, NEW id \in ExecutionIds,
         NEW a \in AttemptIds, NEW attempt \in Attempt, NEW row \in Execution,
         d.attempts[<<t, a>>] = Nil \/ d.attempts[<<t, a>>].execution = id,
         d.executions[<<t, id>>] # Nil,
         ~ IsTerminal(d.executions[<<t, id>>].status),
         attempt.execution = id,
         attempt.number = row.attemptCount,
         attempt.retryAt = row.lastRetryAt,
         row.attemptCount = d.executions[<<t, id>>].attemptCount + 1,
         row.lastAttemptID = a,
         row.schedule = d.executions[<<t, id>>].schedule,
         row.scheduledFor = d.executions[<<t, id>>].scheduledFor,
         row.status = "in_flight" <=> row.owner # Nil
  PROVE  LET n == PutExecution(PutAttempt(d, t, a, attempt), t, id, row)
         IN  /\ Intact(n) /\ ExecutionsKept(d, n) /\ SchedulesKept(d, n)
             /\ d.attempts[<<t, a>>] = Nil => Legal(d, n)
<1> DEFINE m == PutAttempt(d, t, a, attempt)
           n == PutExecution(m, t, id, row)
<1>0. d \in DB /\ IndexesMirror(d)
  BY SMTT(30) DEF Intact
<1>1. /\ m \in DB
      /\ IndexesMirror(m)
      /\ m.schedules = d.schedules
      /\ m.executions = d.executions
      /\ \A u \in Tenants, b \in AttemptIds :
           m.attempts[<<u, b>>] = IF u = t /\ b = a THEN attempt ELSE d.attempts[<<u, b>>]
  BY <1>0, PutAttemptIndexes, SMTT(30)
<1> HIDE DEF m
<1>2. n \in DB /\ n.schedules = d.schedules /\ n.attempts = m.attempts
  BY <1>1, PutExecutionIndexes, SMTT(30)
<1>3. IndexesMirror(n) /\ \A u \in Tenants, j \in ExecutionIds :
        n.executions[<<u, j>>] = IF u = t /\ j = id THEN row ELSE d.executions[<<u, j>>]
  BY <1>1, PutExecutionIndexes
<1> HIDE DEF n
<1>4. row # Nil /\ attempt # Nil
  BY RowAssumption, SMTT(30)
<1>5. OccurrencesUnique(n)
  BY <1>3, <1>4, SMTT(30) DEF Intact, OccurrencesUnique
<1>6. ExecutionsOwned(n)
  BY <1>2, <1>3, <1>4, SMTT(30) DEF Intact, ExecutionsOwned
<1>7. AttemptsOwned(n)
  <2> SUFFICES ASSUME NEW u \in Tenants, NEW b \in AttemptIds, n.attempts[<<u, b>>] # Nil
               PROVE  n.executions[<<u, n.attempts[<<u, b>>].execution>>] # Nil
    BY DEF AttemptsOwned
  <2>1. n.attempts[<<u, b>>].execution \in ExecutionIds
    BY <1>2, SMTT(30) DEF DB, Attempt
  <2> QED
    BY <1>1, <1>2, <1>3, <1>4, <2>1, SMTT(30) DEF Intact, AttemptsOwned
<1>8. ASSUME AttemptsNumbered(d), d.attempts[<<t, a>>] = Nil PROVE AttemptsNumbered(n)
  <2> DEFINE count == d.executions[<<t, id>>].attemptCount
  <2>0. count \in Nat
    BY <1>0, SMTT(30) DEF DB, Execution
  <2> SUFFICES ASSUME NEW u \in Tenants, NEW j \in ExecutionIds, n.executions[<<u, j>>] # Nil
               PROVE  LET x == n.executions[<<u, j>>]
                      IN  /\ NumberedUpTo(n, u, j, x.attemptCount)
                          /\ LastAttemptIs(n, u, j, x.attemptCount, x.lastAttemptID, x.lastRetryAt)
    BY SMTT(30) DEF AttemptsNumbered
  <2>1. CASE u = t /\ j = id
    <3>1. \A b \in AttemptIds :
            AttemptOf(n, t, id, b) <=> b = a \/ AttemptOf(d, t, id, b)
      BY <1>1, <1>2, <1>4, SMTT(30) DEF AttemptOf
    <3>2. NumberedUpTo(d, t, id, count)
      BY <1>8, SMTT(30) DEF AttemptsNumbered
    <3>3. NumberedUpTo(n, t, id, count + 1)
      <4>1. \A b \in AttemptIds : AttemptOf(d, t, id, b) =>
              n.attempts[<<t, b>>] = d.attempts[<<t, b>>] /\ b # a
        BY <1>1, <1>2, <1>8 DEF AttemptOf
      <4>2. n.attempts[<<t, a>>].number = count + 1
        BY <1>1, <1>2, SMTT(30)
      <4>3. \A b \in AttemptIds :
              AttemptOf(n, t, id, b) => n.attempts[<<t, b>>].number \in 1..(count + 1)
        BY <2>0, <3>1, <3>2, <4>1, <4>2, SMTT(30) DEF NumberedUpTo
      <4>4. ASSUME NEW b \in AttemptIds, NEW c \in AttemptIds,
                   AttemptOf(n, t, id, b), AttemptOf(n, t, id, c),
                   n.attempts[<<t, b>>].number = n.attempts[<<t, c>>].number
            PROVE  b = c
        <5>1. ASSUME NEW e \in AttemptIds, AttemptOf(d, t, id, e)
              PROVE  n.attempts[<<t, e>>].number # count + 1
          BY <2>0, <3>2, <4>1, <5>1, SMTT(30) DEF NumberedUpTo
        <5>2. CASE b = a \/ c = a
          BY <3>1, <4>2, <4>4, <5>1, <5>2, ZenonT(30)
        <5>3. CASE b # a /\ c # a
          BY <3>1, <3>2, <4>1, <4>4, <5>3, ZenonT(30) DEF NumberedUpTo
        <5> QED
          BY <5>2, <5>3, SMTT(30)
      <4>5. ASSUME NEW i \in 1..(count + 1)
            PROVE  \E b \in AttemptIds :
                     AttemptOf(n, t, id, b) /\ n.attempts[<<t, b>>].number = i
        <5>1. CASE i = count + 1
          BY <3>1, <4>2, <5>1
        <5>2. CASE i # count + 1
          <6>1. i \in 1..count
            BY <2>0, <5>2
          <6>2. PICK b \in AttemptIds : AttemptOf(d, t, id, b) /\ d.attempts[<<t, b>>].number = i
            BY <3>2, <6>1 DEF NumberedUpTo
          <6> QED
            BY <3>1, <4>1, <6>2
        <5> QED
          BY <5>1, <5>2
      <4> QED
        BY <4>3, <4>4, <4>5, SMTT(30) DEF NumberedUpTo
    <3>4. LastAttemptIs(n, t, id, count + 1, a, row.lastRetryAt)
      BY <1>1, <1>2, <2>0, <3>1 DEF LastAttemptIs
    <3> QED
      BY <1>3, <2>1, <3>3, <3>4
  <2>2. CASE ~ (u = t /\ j = id)
    <3> DEFINE x == d.executions[<<u, j>>]
    <3>1. SameAttempts(d, n, u, j)
      BY <1>1, <1>2, <1>4, <1>8, <2>2 DEF AttemptOf, SameAttempts
    <3>2. n.executions[<<u, j>>] = x
      BY <1>3, <2>2, SMTT(30)
    <3>3. /\ NumberedUpTo(d, u, j, x.attemptCount)
          /\ LastAttemptIs(d, u, j, x.attemptCount, x.lastAttemptID, x.lastRetryAt)
      BY <1>8, <3>2, SMTT(30) DEF AttemptsNumbered
    <3> HIDE DEF x
    <3>4. /\ NumberedUpTo(n, u, j, x.attemptCount)
          /\ \A last, retryAt : LastAttemptIs(d, u, j, x.attemptCount, last, retryAt)
                                 => LastAttemptIs(n, u, j, x.attemptCount, last, retryAt)
      BY <3>1, <3>3, LedgerCongruence
    <3> QED
      BY <3>2, <3>3, <3>4
  <2> QED
    BY <2>1, <2>2
<1>9. SchedulesQuiet(n) /\ SchedulesKept(d, n)
  BY <1>2 DEF Intact, SchedulesQuiet, SchedulesKept, StatusChangeAllowed
<1>10. ExecutionsKept(d, n)
  BY <1>3, <1>4 DEF ExecutionsKept
<1>11. d.attempts[<<t, a>>] = Nil => AttemptsKept(d, n)
  BY <1>1, <1>2 DEF AttemptsKept
<1>12. Intact(n)
  BY <1>2, <1>3, <1>5, <1>6, <1>7, <1>9, Zenon DEF Intact
<1> QED
  BY <1>8, <1>9, <1>10, <1>11, <1>12, Zenon DEF Legal, n, m

----------------------------------------------------------------------------
(* The commands.                                                            *)

\* Rows of a consistent database, and what the entry points may write.
LEMMA RowTypes ==
  ASSUME NEW d, Intact(d), NEW t \in Tenants
  PROVE  /\ \A id \in ScheduleIds : d.schedules[<<t, id>>] # Nil =>
              d.schedules[<<t, id>>] \in Schedule /\ Quiet(d.schedules[<<t, id>>])
         /\ \A id \in ExecutionIds : d.executions[<<t, id>>] # Nil =>
              d.executions[<<t, id>>] \in Execution
BY DEF Intact, DB, SchedulesQuiet

\* create_tenant writes one tenant row.
LEMMA CreateTenantLegal ==
  ASSUME NEW d, Intact(d), NEW cmd, cmd.id \in Tenants, cmd.apiKeyHash \in KeyHashes,
         NEW r, r = ApplyCreateTenant(d, cmd), r.err = "none"
  PROVE  Legal(d, r.db)
<1>1. r.db = PutTenant(d, cmd.id, cmd.apiKeyHash)
  BY DEF ApplyCreateTenant, Ok, Fail
<1> QED
  BY <1>1, PutTenantLegal

\* create_schedule writes an active schedule that did not exist.
LEMMA CreateScheduleLegal ==
  ASSUME NEW d, Intact(d), NEW cmd, cmd.tenant \in Tenants, cmd.id \in ScheduleIds,
         cmd.scheduleType \in STRING, cmd.firstRunAt \in Int,
         cmd.recurrence \in Recurrences \cup {Nil}, cmd.timezone \in STRING,
         cmd.catchUpPolicy \in STRING, cmd.callbackURL \in CallbackURLs,
         cmd.headers \in SUBSET HeaderKeys,
         cmd.maxAttempts \in Int, cmd.callTimeout \in Int \cup {Nil},
         NEW r, r = ApplyCreateSchedule(d, cmd), r.err = "none"
  PROVE  Legal(d, r.db) /\ r.db.schedules[<<cmd.tenant, cmd.id>>] # Nil
<1> DEFINE nextRun == IF cmd.scheduleType = "once" THEN cmd.firstRunAt
                      ELSE ComputeNextRunOnOrAfter(cmd.recurrence, cmd.timezone,
                                                   cmd.firstRunAt, cmd.firstRunAt)
           row == [type |-> cmd.scheduleType, firstRunAt |-> cmd.firstRunAt,
                   recurrence |-> cmd.recurrence, timezone |-> cmd.timezone,
                   catchUpPolicy |-> cmd.catchUpPolicy,
                   callbackURL |-> cmd.callbackURL, headers |-> cmd.headers,
                   maxAttempts |-> cmd.maxAttempts, callTimeout |-> cmd.callTimeout,
                   status |-> "active", nextRunAt |-> nextRun]
<1>1. nextRun \in Int \cup {Invalid}
  BY OnOrAfterType
<1> HIDE DEF nextRun
<1>2. /\ r.db = PutSchedule(d, cmd.tenant, cmd.id, row)
      /\ d.schedules[<<cmd.tenant, cmd.id>>] = Nil
      /\ nextRun # Invalid
      /\ ValidHeaders(cmd.headers)
      /\ cmd.callTimeout = Nil \/ ValidCallTimeout(cmd.callTimeout)
  BY DEF ApplyCreateSchedule, Ok, Fail, GetSchedule, nextRun
<1>3. cmd.headers \in SUBSET FreeHeaderKeys
  BY <1>2 DEF ValidHeaders, FreeHeaderKeys
<1>4. cmd.callTimeout \in (MinCallTimeout..MaxCallTimeout) \cup {Nil}
  BY <1>2 DEF ValidCallTimeout
<1>5. row \in Schedule /\ Quiet(row)
  BY <1>1, <1>2, <1>3, <1>4 DEF Schedule, ScheduleStatuses, Quiet
<1> HIDE DEF row
<1>6. d \in DB /\ row # Nil
  BY <1>5, RowAssumption DEF Intact
<1>7. r.db.schedules = [d.schedules EXCEPT ![<<cmd.tenant, cmd.id>>] = row]
  BY <1>2, <1>5, <1>6, PutScheduleEffect
<1>8. r.db.schedules[<<cmd.tenant, cmd.id>>] = row
  BY <1>6, <1>7 DEF DB
<1> QED
  BY <1>2, <1>5, <1>6, <1>8, PutScheduleLegal

\* update_schedule changes settings, never status or next run.
LEMMA UpdateScheduleLegal ==
  ASSUME NEW d, Intact(d), NEW cmd, cmd.tenant \in Tenants, cmd.id \in ScheduleIds,
         cmd.callbackURL \in CallbackURLs \cup {Nil},
         cmd.headers \in (SUBSET HeaderKeys) \cup {Nil}, cmd.maxAttempts \in Int \cup {Nil},
         cmd.callTimeout \in Int \cup {Nil},
         NEW r, r = ApplyUpdateSchedule(d, cmd), r.err = "none"
  PROVE  Legal(d, r.db)
<1> DEFINE existing == d.schedules[<<cmd.tenant, cmd.id>>]
           callbackURL == IF cmd.callbackURL = Nil THEN existing.callbackURL
                          ELSE cmd.callbackURL
           headers == IF cmd.headers = Nil THEN existing.headers ELSE cmd.headers
           maxAttempts == IF cmd.maxAttempts = Nil THEN existing.maxAttempts
                          ELSE cmd.maxAttempts
           callTimeout == IF cmd.callTimeout = Nil THEN existing.callTimeout
                          ELSE IF cmd.callTimeout = 0 THEN Nil ELSE cmd.callTimeout
           row == [existing EXCEPT !.callbackURL = callbackURL, !.headers = headers,
                                   !.maxAttempts = maxAttempts, !.callTimeout = callTimeout]
<1>1. /\ existing # Nil
      /\ cmd.headers # Nil => ValidHeaders(cmd.headers)
      /\ cmd.callTimeout \in {Nil, 0} \/ ValidCallTimeout(cmd.callTimeout)
  BY DEF ApplyUpdateSchedule, Ok, Fail, GetSchedule
<1>2. existing \in Schedule /\ Quiet(existing)
  BY <1>1, RowTypes
<1>3. r.db = PutSchedule(d, cmd.tenant, cmd.id, row)
  BY <1>2 DEF ApplyUpdateSchedule, Ok, Fail, GetSchedule, Schedule
<1> HIDE DEF existing
<1>4. headers \in SUBSET FreeHeaderKeys
  BY <1>1, <1>2 DEF ValidHeaders, FreeHeaderKeys, Schedule
<1>5. maxAttempts \in Int /\ callbackURL \in CallbackURLs
  BY <1>2 DEF Schedule
<1>6. callTimeout \in (MinCallTimeout..MaxCallTimeout) \cup {Nil}
  BY <1>1, <1>2 DEF ValidCallTimeout, Schedule
<1> HIDE DEF callbackURL, headers, maxAttempts, callTimeout
<1>7. row \in Schedule /\ Quiet(row) /\ StatusChangeAllowed(existing, row)
  BY <1>2, <1>4, <1>5, <1>6, Zenon DEF Schedule, Quiet, StatusChangeAllowed
<1> HIDE DEF row
<1> QED
  BY <1>3, <1>7, PutScheduleLegal DEF existing

\* pause_schedule clears the next run of an active schedule.
LEMMA PauseScheduleLegal ==
  ASSUME NEW d, Intact(d), NEW cmd, cmd.tenant \in Tenants, cmd.id \in ScheduleIds,
         NEW r, r = ApplyPauseSchedule(d, cmd), r.err = "none"
  PROVE  Legal(d, r.db)
<1> DEFINE existing == d.schedules[<<cmd.tenant, cmd.id>>]
           row == [existing EXCEPT !.status = "paused", !.nextRunAt = Nil]
<1>1. existing # Nil
  BY DEF ApplyPauseSchedule, Ok, Fail, GetSchedule
<1>2. existing \in Schedule
  BY <1>1, RowTypes
<1>3. \/ r.db = d
      \/ r.db = PutSchedule(d, cmd.tenant, cmd.id, row) /\ existing.status = "active"
  BY <1>2 DEF ApplyPauseSchedule, Ok, Fail, GetSchedule, Schedule, ScheduleStatuses
<1>4. existing.status = "active" =>
        row \in Schedule /\ Quiet(row) /\ StatusChangeAllowed(existing, row)
  BY <1>2, Zenon DEF Schedule, ScheduleStatuses, Quiet, StatusChangeAllowed
<1> HIDE DEF row
<1> QED
  BY <1>3, <1>4, PutScheduleLegal, StutterLegal

\* cancel_schedule clears the next run of an active or paused schedule.
LEMMA CancelScheduleLegal ==
  ASSUME NEW d, Intact(d), NEW cmd, cmd.tenant \in Tenants, cmd.id \in ScheduleIds,
         NEW r, r = ApplyCancelSchedule(d, cmd), r.err = "none"
  PROVE  Legal(d, r.db)
<1> DEFINE existing == d.schedules[<<cmd.tenant, cmd.id>>]
           row == [existing EXCEPT !.status = "canceled", !.nextRunAt = Nil]
<1>1. existing # Nil
  BY DEF ApplyCancelSchedule, Ok, Fail, GetSchedule
<1>2. existing \in Schedule
  BY <1>1, RowTypes
<1>3. \/ r.db = d
      \/ /\ r.db = PutSchedule(d, cmd.tenant, cmd.id, row)
         /\ existing.status \in {"active", "paused"}
  BY <1>2 DEF ApplyCancelSchedule, Ok, Fail, GetSchedule, Schedule, ScheduleStatuses
<1>4. existing.status \in {"active", "paused"} =>
        row \in Schedule /\ Quiet(row) /\ StatusChangeAllowed(existing, row)
  BY <1>2, Zenon DEF Schedule, ScheduleStatuses, Quiet, StatusChangeAllowed
<1> HIDE DEF row
<1> QED
  BY <1>3, <1>4, PutScheduleLegal, StutterLegal

\* A scan of the schedule index returns executions, but for missing rows.
LEMMA ListedRows ==
  ASSUME NEW d, Intact(d), NEW t \in Tenants, NEW s
  PROVE  \A x \in ListExecutionsBySchedule(d, t, s) : x = Nil \/ x \in Execution
<1>1. SUFFICES ASSUME NEW x \in ListExecutionsBySchedule(d, t, s)
               PROVE  x = Nil \/ x \in Execution
  OBVIOUS
<1>2. PICK id \in ExecutionIds : x = d.executions[<<t, id>>]
  BY <1>1, Zenon DEF ListExecutionsBySchedule, ExecutionIdsBySchedule, GetExecution
<1> QED
  BY <1>2, RowTypes

\* The anchor of catch_up_all is a time or nothing.
LEMMA AnchorType ==
  ASSUME NEW rows \in SUBSET Execution
  PROVE  MostRecentTerminal(rows) \in Int \cup {Nil}
<1> DEFINE times == {e.scheduledFor : e \in {x \in rows : IsTerminal(x.status)}}
           latest == {x \in times : \A y \in times : y <= x}
<1>1. latest \subseteq Int
  BY DEF Execution
<1>2. MostRecentTerminal(rows) = IF latest = {} THEN Nil ELSE CHOOSE x \in latest : TRUE
  BY DEF MostRecentTerminal
<1> HIDE DEF latest
<1>3. latest # {} => (CHOOSE x \in latest : TRUE) \in latest
  OBVIOUS
<1> QED
  BY <1>1, <1>2, <1>3, Zenon

\* A resumed schedule has a next run, none, or an error in its place.
LEMMA ResumedNextRunType ==
  ASSUME NEW s \in Schedule, NEW anchor \in Int \cup {Nil}, NEW at \in Int
  PROVE  ResumedNextRun(s, anchor, at) \in Int \cup {Nil, Invalid}
<1>1. s.recurrence \in Recurrences \cup {Nil} /\ s.firstRunAt \in Int
  BY DEF Schedule
<1>2. /\ ComputeNextRunOnOrAfter(s.recurrence, s.timezone, s.firstRunAt, s.firstRunAt)
           \in Int \cup {Invalid}
      /\ ComputeNextRunAfter(s.recurrence, s.timezone, s.firstRunAt, at)
           \in Int \cup {Invalid}
      /\ ComputeLatestRunOnOrBefore(s.recurrence, s.timezone, s.firstRunAt, at)
           \in Int \cup {Nil, Invalid}
  BY <1>1, OnOrAfterType, AfterType, LatestType
<1>3. anchor # Nil => ComputeNextRunAfter(s.recurrence, s.timezone, s.firstRunAt, anchor)
                        \in Int \cup {Invalid}
  BY <1>1, AfterType
<1> QED
  BY <1>1, <1>2, <1>3 DEF ResumedNextRun

\* resume_schedule takes a paused schedule back to active.
LEMMA ResumeScheduleLegal ==
  ASSUME NEW d, Intact(d), NEW cmd, cmd.tenant \in Tenants, cmd.id \in ScheduleIds,
         NEW at \in Int,
         NEW r, r = ApplyResumeSchedule(d, cmd, at), r.err = "none"
  PROVE  Legal(d, r.db)
<1> DEFINE existing == d.schedules[<<cmd.tenant, cmd.id>>]
           rows == ListExecutionsBySchedule(d, cmd.tenant, cmd.id)
           resumed == ResumedNextRun(existing, MostRecentTerminal(rows), at)
           nextRun == IF existing.type = "once" THEN existing.firstRunAt ELSE resumed
           row == [existing EXCEPT !.status = "active", !.nextRunAt = nextRun]
<1>1. existing # Nil
  BY DEF ApplyResumeSchedule, Ok, Fail, GetSchedule
<1>2. existing \in Schedule
  BY <1>1, RowTypes, SMTT(30)
<1>3. \/ r.db = d
      \/ /\ r.db = PutSchedule(d, cmd.tenant, cmd.id, row)
         /\ existing.status = "paused"
         /\ existing.type = "once" \/ ~ MissingRow(rows)
         /\ nextRun # Invalid
  <2> HIDE DEF rows
  <2> QED
    BY <1>2 DEF ApplyResumeSchedule, Ok, Fail, GetSchedule, Schedule, ScheduleStatuses, rows
<1>4. ~ MissingRow(rows) => rows \in SUBSET Execution
  BY ListedRows, Zenon DEF MissingRow
<1> HIDE DEF rows
<1>5. ~ MissingRow(rows) => resumed \in Int \cup {Nil, Invalid}
  BY <1>2, <1>4, AnchorType, ResumedNextRunType, Zenon
<1> HIDE DEF resumed
<1>6. (existing.type = "once" \/ ~ MissingRow(rows)) /\ nextRun # Invalid
        => nextRun \in Int \cup {Nil}
  BY <1>2, <1>5 DEF Schedule
<1> HIDE DEF nextRun
<1>7. nextRun \in Int \cup {Nil} /\ existing.status = "paused" =>
        row \in Schedule /\ Quiet(row) /\ StatusChangeAllowed(existing, row)
  BY <1>2, Zenon DEF Schedule, ScheduleStatuses, Quiet, StatusChangeAllowed
<1> HIDE DEF row
<1> QED
  BY <1>3, <1>6, <1>7, PutScheduleLegal, StutterLegal

\* The collision scan sees every execution of the schedule, because the
\* index mirrors the rows.
LEMMA ClaimExecutionLegal ==
  ASSUME NEW d, Intact(d), NEW cmd, cmd.tenant \in Tenants, cmd.id \in ExecutionIds,
         cmd.schedule \in ScheduleIds, cmd.scheduledFor \in Int, cmd.owner \in Nodes,
         d.schedules[<<cmd.tenant, cmd.schedule>>] # Nil,
         d.executions[<<cmd.tenant, cmd.id>>] = Nil,
         NEW r, r = ApplyClaimExecution(d, cmd), r.err = "none"
  PROVE  Legal(d, r.db)
<1> DEFINE row == [schedule |-> cmd.schedule, scheduledFor |-> cmd.scheduledFor,
                   owner |-> cmd.owner, status |-> "in_flight", attemptCount |-> 0,
                   lastAttemptID |-> Nil, lastRetryAt |-> Nil, finalOutcome |-> Nil]
<1>1. /\ r.db = PutExecution(d, cmd.tenant, cmd.id, row)
      /\ ~ Claimed(ListExecutionsBySchedule(d, cmd.tenant, cmd.schedule), cmd.scheduledFor)
  BY DEF ApplyClaimExecution, Ok, Fail
<1>2. row \in Execution /\ row.owner # Nil
  <2>1. cmd.owner # Nil
    BY RowAssumption
  <2>2. row \in Execution
    BY DEF Execution, ExecutionStatuses
  <2> QED
    BY <2>1, <2>2
<1>3. \A j \in ExecutionIds :
        /\ d.executions[<<cmd.tenant, j>>] # Nil
        /\ d.executions[<<cmd.tenant, j>>].schedule = row.schedule
        => d.executions[<<cmd.tenant, j>>].scheduledFor # row.scheduledFor
  BY <1>1, Zenon DEF Intact, IndexesMirror, ExecutionsIndexedBySchedule, Claimed,
              ListExecutionsBySchedule, ExecutionIdsBySchedule, GetExecution
<1>4. /\ d.schedules[<<cmd.tenant, row.schedule>>] # Nil
      /\ row.status = "in_flight"
      /\ row.attemptCount = 0
      /\ row.lastAttemptID = Nil
      /\ row.lastRetryAt = Nil
  OBVIOUS
<1> HIDE DEF row
<1> QED
  BY <1>1, <1>2, <1>3, <1>4, NewExecutionLegal

\* adopt_execution passes an execution in flight to another owner.
LEMMA AdoptExecutionLegal ==
  ASSUME NEW d, Intact(d), NEW cmd, cmd.tenant \in Tenants,
         cmd.execution \in ExecutionIds, cmd.newOwner \in Nodes,
         NEW r, r = ApplyAdoptExecution(d, cmd), r.err = "none"
  PROVE  Legal(d, r.db)
<1> DEFINE exec == d.executions[<<cmd.tenant, cmd.execution>>]
           row == [exec EXCEPT !.owner = cmd.newOwner]
<1>1. exec # Nil /\ exec.status = "in_flight"
  BY DEF ApplyAdoptExecution, Ok, Fail, GetExecution
<1>2. exec \in Execution /\ cmd.newOwner # Nil
  BY <1>1, RowTypes, RowAssumption
<1>3. r.db = PutExecution(d, cmd.tenant, cmd.execution, row)
  BY <1>2 DEF ApplyAdoptExecution, Ok, Fail, GetExecution, Execution
<1>4. row \in Execution /\ row.status = "in_flight" /\ row.owner # Nil
  BY <1>1, <1>2 DEF Execution
<1>5. /\ row.schedule = exec.schedule
      /\ row.scheduledFor = exec.scheduledFor
      /\ row.attemptCount = exec.attemptCount
      /\ row.lastAttemptID = exec.lastAttemptID
      /\ row.lastRetryAt = exec.lastRetryAt
  BY <1>2 DEF Execution
<1>6. ~ IsTerminal(exec.status)
  BY <1>1 DEF IsTerminal
<1> HIDE DEF row
<1> QED
  BY <1>1, <1>3, <1>4, <1>5, <1>6, RewriteExecutionLegal

\* record_attempt adds the next attempt to the ledger of its execution; over an
\* attempt of the same identifier, it leaves the database intact.
LEMMA RecordAttemptLegal ==
  ASSUME NEW d, Intact(d), NEW cmd, cmd.tenant \in Tenants,
         cmd.execution \in ExecutionIds, cmd.id \in AttemptIds, cmd.node \in Nodes,
         cmd.outcome \in Outcomes, cmd.retryAt \in Int \cup {Nil},
         \/ d.attempts[<<cmd.tenant, cmd.id>>] = Nil
         \/ d.attempts[<<cmd.tenant, cmd.id>>].execution = cmd.execution,
         NEW r, r = ApplyRecordAttempt(d, cmd), r.err = "none"
  PROVE  /\ Intact(r.db) /\ ExecutionsKept(d, r.db) /\ SchedulesKept(d, r.db)
         /\ d.attempts[<<cmd.tenant, cmd.id>>] = Nil => Legal(d, r.db)
<1> DEFINE exec == d.executions[<<cmd.tenant, cmd.execution>>]
           attempt == [execution |-> cmd.execution, node |-> cmd.node,
                       number |-> exec.attemptCount + 1,
                       outcome |-> cmd.outcome, retryAt |-> cmd.retryAt]
           row == [exec EXCEPT !.attemptCount = exec.attemptCount + 1,
                               !.lastAttemptID = cmd.id, !.lastRetryAt = cmd.retryAt]
<1>1. exec # Nil /\ exec.status = "in_flight" /\ exec.owner = cmd.node
  BY DEF ApplyRecordAttempt, Ok, Fail, GetExecution
<1>2. exec \in Execution /\ cmd.node # Nil
  BY <1>1, RowTypes, RowAssumption
<1>3. r.db = PutExecution(PutAttempt(d, cmd.tenant, cmd.id, attempt),
                          cmd.tenant, cmd.execution, row)
  BY <1>2 DEF ApplyRecordAttempt, Ok, Fail, GetExecution, Counted, Execution
<1>4. /\ attempt \in Attempt
      /\ attempt.execution = cmd.execution
      /\ attempt.number = row.attemptCount
      /\ attempt.retryAt = row.lastRetryAt
  BY <1>2 DEF Attempt, Execution
<1>5. row \in Execution /\ row.status = "in_flight" /\ row.owner # Nil
  <2>1. exec.attemptCount + 1 \in Nat /\ cmd.id \in AttemptIds \cup {Nil}
    BY <1>2 DEF Execution
  <2>2. row.status = exec.status /\ row.owner = exec.owner
    BY <1>2 DEF Execution
  <2> DEFINE count == exec.attemptCount + 1
  <2> HIDE DEF count
  <2>3. row = [exec EXCEPT !.attemptCount = count, !.lastAttemptID = cmd.id,
                           !.lastRetryAt = cmd.retryAt]
    BY DEF count
  <2>4. count \in Nat
    BY <2>1 DEF count
  <2> HIDE DEF row
  <2> QED
    BY <1>1, <1>2, <2>1, <2>2, <2>3, <2>4, Zenon DEF Execution
<1>6. /\ row.schedule = exec.schedule
      /\ row.scheduledFor = exec.scheduledFor
      /\ row.attemptCount = exec.attemptCount + 1
      /\ row.lastAttemptID = cmd.id
  BY <1>2 DEF Execution
<1>7. ~ IsTerminal(exec.status)
  BY <1>1 DEF IsTerminal
<1> HIDE DEF row, attempt
<1> QED
  BY <1>1, <1>3, <1>4, <1>5, <1>6, <1>7, NewAttemptLegal, Zenon

\* complete_execution and fail_execution_timeout: the execution, then its
\* schedule.
LEMMA FinishExecutionLegal ==
  ASSUME NEW d, Intact(d), NEW t \in Tenants, NEW id \in ExecutionIds,
         NEW status, IsTerminal(status), NEW outcome \in FinalOutcomes,
         NEW r, r = FinishExecution(d, t, id, status, outcome), r.err = "none"
  PROVE  Legal(d, r.db)
<1> DEFINE exec == d.executions[<<t, id>>]
           row == Ended(exec, status, outcome)
           m == PutExecution(d, t, id, row)
           schedule == m.schedules[<<t, exec.schedule>>]
           advanced == AdvancedSchedule(schedule, exec.scheduledFor)
<1>1. /\ exec # Nil
      /\ ~ IsTerminal(exec.status)
      /\ schedule # Nil
      /\ advanced.nextRunAt # Invalid
      /\ r.db = PutSchedule(m, t, exec.schedule, advanced)
  <2> HIDE DEF row, advanced
  <2> QED
    BY Zenon DEF FinishExecution, Ok, Fail, GetExecution, GetSchedule, row, advanced
<1>2. exec \in Execution
  BY <1>1, RowTypes, Zenon
<1>3. row \in Execution /\ row.status # "in_flight" /\ row.owner = Nil
  BY <1>2, Zenon DEF Ended, Execution, ExecutionStatuses, IsTerminal
<1>4. /\ row.schedule = exec.schedule
      /\ row.scheduledFor = exec.scheduledFor
      /\ row.attemptCount = exec.attemptCount
      /\ row.lastAttemptID = exec.lastAttemptID
      /\ row.lastRetryAt = exec.lastRetryAt
  BY <1>2 DEF Ended, Execution
<1> HIDE DEF row
<1>5. Legal(d, m) /\ m.schedules = d.schedules
  BY <1>1, <1>3, <1>4, RewriteExecutionLegal, Zenon
<1> HIDE DEF m
<1>6. exec.schedule \in ScheduleIds /\ exec.scheduledFor \in Int
  BY <1>2 DEF Execution
<1>7. schedule \in Schedule /\ Quiet(schedule)
  BY <1>1, <1>5, <1>6, RowTypes, Zenon DEF Legal
<1> HIDE DEF schedule
<1>8. advanced \in Schedule /\ Quiet(advanced) /\ StatusChangeAllowed(schedule, advanced)
  <2> DEFINE next == ComputeNextRunAfter(schedule.recurrence, "UTC",
                                         schedule.firstRunAt, exec.scheduledFor)
  <2>1. next \in Int \cup {Invalid}
    BY <1>6, <1>7, AfterType DEF Schedule
  <2>2. CASE schedule.type # "recurring"
    BY <1>7, <2>2, Zenon DEF AdvancedSchedule, Schedule, ScheduleStatuses, Quiet, StatusChangeAllowed
  <2>3. CASE schedule.type = "recurring" /\ schedule.status = "active"
    <3>1. advanced = [schedule EXCEPT !.nextRunAt = next]
      BY <2>3 DEF AdvancedSchedule
    <3> HIDE DEF next, advanced
    <3>2. next # Invalid
      BY <1>1, <1>7, <3>1 DEF Schedule
    <3> QED
      BY <1>7, <2>1, <2>3, <3>1, <3>2 DEF Schedule, Quiet, StatusChangeAllowed
  <2>4. CASE schedule.type = "recurring" /\ schedule.status # "active"
    BY <1>7, <2>4 DEF AdvancedSchedule, StatusChangeAllowed
  <2> QED
    BY <2>2, <2>3, <2>4, Zenon
<1> HIDE DEF advanced
<1>9. /\ Legal(m, r.db)
      /\ r.db.executions = m.executions
      /\ r.db.attempts = m.attempts
  <2> DEFINE sid == exec.schedule
  <2>1. sid \in ScheduleIds /\ Intact(m) /\ schedule = m.schedules[<<t, sid>>]
    BY <1>5, <1>6, Zenon DEF Legal, schedule
  <2>2. r.db = PutSchedule(m, t, sid, advanced)
    BY <1>1
  <2> HIDE DEF sid, exec
  <2>3. m.schedules[<<t, sid>>] # Nil => StatusChangeAllowed(m.schedules[<<t, sid>>], advanced)
    BY <1>8, <2>1, Zenon
  <2> QED
    BY <1>8, <2>1, <2>2, <2>3, PutScheduleLegal
<1>10. ExecutionsKept(d, r.db) /\ AttemptsKept(d, r.db)
  <2>1. ExecutionsKept(d, m) /\ AttemptsKept(d, m)
    BY <1>5 DEF Legal
  <2>2. ExecutionsKept(d, r.db)
    BY <1>9, <2>1, ZenonT(30) DEF ExecutionsKept
  <2>3. AttemptsKept(d, r.db)
    BY <1>9, <2>1, Zenon DEF AttemptsKept
  <2> QED
    BY <2>2, <2>3
<1>11. SchedulesKept(d, r.db)
  BY <1>5, <1>9, Zenon DEF Legal, SchedulesKept
<1> QED
  BY <1>5, <1>9, <1>10, <1>11 DEF Legal

\* complete_execution ends an execution and advances its schedule.
LEMMA CompleteExecutionLegal ==
  ASSUME NEW d, Intact(d), NEW cmd, cmd.tenant \in Tenants,
         cmd.execution \in ExecutionIds, cmd.finalOutcome \in FinalOutcomes,
         NEW r, r = ApplyCompleteExecution(d, cmd), r.err = "none"
  PROVE  Legal(d, r.db)
<1>1. /\ r = FinishExecution(d, cmd.tenant, cmd.execution, cmd.finalStatus, cmd.finalOutcome)
      /\ IsTerminal(cmd.finalStatus)
  BY DEF ApplyCompleteExecution, Fail
<1> QED
  BY <1>1, FinishExecutionLegal

\* fail_execution_timeout does the same with another status.
LEMMA FailExecutionTimeoutLegal ==
  ASSUME NEW d, Intact(d), NEW cmd, cmd.tenant \in Tenants,
         cmd.execution \in ExecutionIds, cmd.finalOutcome \in FinalOutcomes,
         NEW r, r = ApplyFailExecutionTimeout(d, cmd), r.err = "none"
  PROVE  Legal(d, r.db)
<1>1. /\ r = FinishExecution(d, cmd.tenant, cmd.execution, "failed_max_retries",
                             cmd.finalOutcome)
      /\ IsTerminal("failed_max_retries")
  BY DEF ApplyFailExecutionTimeout, Fail, IsTerminal
<1> QED
  BY <1>1, FinishExecutionLegal
=============================================================================
