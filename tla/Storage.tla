------------------------------ MODULE Storage ------------------------------
(***************************************************************************)
(* internal/storage: the bbolt tables and their secondary indexes.         *)
(*                                                                         *)
(* A database value d is a record with one field per bucket.  A table maps *)
(* every key to a row or to Nil; an index bucket is the set of its keys.   *)
(* A key is the tuple of its parts: the code joins them with ":", which is *)
(* the same thing as long as no identifier contains a ":".                 *)
(*                                                                         *)
(* A row keeps the fields that the code reads back to decide something.    *)
(* Payload, retry backoff, the request and response of an attempt, and the *)
(* timestamps kept for audit are only ever copied.                         *)
(***************************************************************************)
EXTENDS Recurrence

CONSTANTS
  Tenants, ScheduleIds, ExecutionIds, AttemptIds,   \* identifiers
  Nodes,                                            \* cluster members
  KeyHashes,                                        \* API key hashes
  CanonicalKey                                      \* header key -> canonical form

----------------------------------------------------------------------------
(* Rows.                                                                    *)

ScheduleStatuses == {"active", "paused", "canceled", "completed"}

ExecutionStatuses == {"in_flight", "succeeded", "failed_terminal", "failed_max_retries"}

Outcomes == {"success", "retry", "terminal_failure"}

FinalOutcomes == Outcomes \cup {"timed out"}

MinCallTimeout == 1
MaxCallTimeout == 300

ReservedHeaderKeys ==
  {"Content-Type", "X-Scheduler-Idempotency-Key", "X-Scheduler-Attempt-Id"}

HeaderKeys == DOMAIN CanonicalKey

\* Header keys that do not collide with a key the scheduler sets itself.
FreeHeaderKeys == {k \in HeaderKeys : CanonicalKey[k] \notin ReservedHeaderKeys}

\* Nothing is checked of a callback URL: it may be empty, or one that
\* http.NewRequest does not parse.
CallbackURLs == {"usable", "", "malformed"}

Schedule ==
  [type : STRING, firstRunAt : Int, recurrence : Recurrences \cup {Nil},
   timezone : STRING, catchUpPolicy : STRING, callbackURL : CallbackURLs,
   headers : SUBSET FreeHeaderKeys, maxAttempts : Int,
   callTimeout : (MinCallTimeout..MaxCallTimeout) \cup {Nil},
   status : ScheduleStatuses, nextRunAt : Int \cup {Nil}]

Execution ==
  [schedule : ScheduleIds, scheduledFor : Int, owner : Nodes \cup {Nil},
   status : ExecutionStatuses, attemptCount : Nat,
   lastAttemptID : AttemptIds \cup {Nil}, lastRetryAt : Int \cup {Nil},
   finalOutcome : FinalOutcomes \cup {Nil}]

Attempt ==
  [execution : ExecutionIds, node : Nodes, number : Nat \ {0},
   outcome : Outcomes, retryAt : Int \cup {Nil}]

ASSUME RowAssumption ==
  /\ Nil \notin Schedule \cup Execution \cup Attempt \cup KeyHashes
  /\ Nil \notin Nodes \cup AttemptIds
  /\ Nil \notin Recurrences

----------------------------------------------------------------------------
(* The database.                                                            *)

DB ==
  [tenants : [Tenants -> KeyHashes \cup {Nil}],
   schedules : [Tenants \X ScheduleIds -> Schedule \cup {Nil}],
   executions : [Tenants \X ExecutionIds -> Execution \cup {Nil}],
   attempts : [Tenants \X AttemptIds -> Attempt \cup {Nil}],
   schedulesByStatus : SUBSET (Tenants \X ScheduleStatuses \X ScheduleIds),
   executionsByStatus : SUBSET (Tenants \X ExecutionStatuses \X ExecutionIds),
   executionsBySchedule : SUBSET (Tenants \X ScheduleIds \X ExecutionIds),
   attemptsByExecution : SUBSET (Tenants \X ExecutionIds \X AttemptIds)]

\* New: every bucket exists and is empty.
EmptyDB ==
  [tenants |-> [t \in Tenants |-> Nil],
   schedules |-> [k \in Tenants \X ScheduleIds |-> Nil],
   executions |-> [k \in Tenants \X ExecutionIds |-> Nil],
   attempts |-> [k \in Tenants \X AttemptIds |-> Nil],
   schedulesByStatus |-> {}, executionsByStatus |-> {},
   executionsBySchedule |-> {}, attemptsByExecution |-> {}]

GetTenant(d, t) == d.tenants[t]
GetSchedule(d, t, id) == d.schedules[<<t, id>>]
GetExecution(d, t, id) == d.executions[<<t, id>>]
GetAttempt(d, t, id) == d.attempts[<<t, id>>]

PutTenant(d, t, keyHash) == [d EXCEPT !.tenants[t] = keyHash]

\* Seeded fault: the status key of the old row stays.
PutSchedule_KeepsOldKey(d, t, id, row) ==
  [d EXCEPT !.schedules[<<t, id>>] = row,
            !.schedulesByStatus = @ \cup {<<t, row.status, id>>}]

\* The status key of the old row is deleted before the new one is written.
PutSchedule(d, t, id, row) ==
  LET old == GetSchedule(d, t, id)
      oldKeys == IF old = Nil THEN {} ELSE {<<t, old.status, id>>}
  IN  [d EXCEPT !.schedules[<<t, id>>] = row,
                !.schedulesByStatus = (@ \ oldKeys) \cup {<<t, row.status, id>>}]

PutExecution(d, t, id, row) ==
  LET old == GetExecution(d, t, id)
      oldKeys == IF old = Nil THEN {} ELSE {<<t, old.status, id>>}
  IN  [d EXCEPT !.executions[<<t, id>>] = row,
                !.executionsByStatus = (@ \ oldKeys) \cup {<<t, row.status, id>>},
                !.executionsBySchedule = @ \cup {<<t, row.schedule, id>>}]

PutAttempt(d, t, id, row) ==
  [d EXCEPT !.attempts[<<t, id>>] = row,
            !.attemptsByExecution = @ \cup {<<t, row.execution, id>>}]

----------------------------------------------------------------------------
(* Scans.  Each walks the keys of an index bucket with a given prefix and   *)
(* fails if a key has no row.                                               *)

ExecutionIdsBySchedule(d, t, s) ==
  {id \in ExecutionIds : <<t, s, id>> \in d.executionsBySchedule}

ListExecutionsBySchedule(d, t, s) ==
  {GetExecution(d, t, id) : id \in ExecutionIdsBySchedule(d, t, s)}

\* The error of a scan that meets an index entry without a row.
MissingRow(rows) == Nil \in rows

\* The active schedules of t whose next run is not after now.
ListSchedulesDue(d, t, now) ==
  {id \in ScheduleIds :
     /\ <<t, "active", id>> \in d.schedulesByStatus
     /\ GetSchedule(d, t, id).nextRunAt # Nil
     /\ GetSchedule(d, t, id).nextRunAt <= now}
=============================================================================
