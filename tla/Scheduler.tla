----------------------------- MODULE Scheduler -----------------------------
(***************************************************************************)
(* internal/scheduler/worker.go on every node of the cluster: the recovery *)
(* of what the previous leader left behind, the tick that claims what is   *)
(* due and picks up what is in flight, and the pool of tasks that call the *)
(* receiver and record what came of it.                                    *)
(*                                                                         *)
(* db is the database that the committed log determines (module Replicas   *)
(* is about the replicas).  A node that can commit is elected.  One that   *)
(* was deposed and does not know it goes on reading the database it had;   *)
(* its proposals wait until it steps down and fail then, but one of them   *)
(* may have reached the others before: the next leader commits it.         *)
(*                                                                         *)
(* Rows are visited in any order, which is wider than the key order of the *)
(* code.  The timeout task is left out: nothing queues one.                *)
(***************************************************************************)
EXTENDS Commands, Sequences, FiniteSets

CONSTANTS
  Settings,       \* the settings that are looked at
  MaxAttempts,    \* the schedules' limit on attempts
  MaxTime,        \* the last instant of the clock
  Backoff,        \* the delay before a retry
  QueueSize,      \* capacity of taskCh
  PoolSize,       \* goroutines that run tasks
  MaxDepositions, \* how often a leader loses leadership or crashes
  MaxEdits,       \* commands from clients
  MaxFaults       \* proposals and barriers that Raft does not take in time

\* What a client can ask for, and create_schedule accepts.
Acceptable(spec) ==
  /\ spec.scheduleType \in STRING /\ spec.firstRunAt \in Int
  /\ spec.recurrence \in Recurrences \cup {Nil} /\ spec.timezone \in STRING
  /\ spec.catchUpPolicy \in STRING /\ spec.callbackURL \in CallbackURLs
  /\ spec.headers \subseteq HeaderKeys
  /\ spec.callTimeout \in Int \cup {Nil}
  /\ \A t \in Tenants, s \in ScheduleIds :
       ApplyCreateSchedule(EmptyDB, CreateScheduleCommand(t, s, spec)).err = "none"

\* Identifiers of attempts are numbers of a fixed width: any of them have a greatest.
ASSUME IdAssumption ==
  /\ AttemptIds \subseteq Nat
  /\ \A ids \in SUBSET AttemptIds : ids # {} => \E a \in ids : \A b \in ids : b <= a

ASSUME SchedulerAssumption ==
  /\ KeyHashes # {} /\ Nil \notin DB /\ MaxAttempts \in Int
  /\ \A x \in Settings : /\ x.spec.maxAttempts = MaxAttempts /\ Acceptable(x.spec)
                         /\ x.skewed \in BOOLEAN /\ x.disturbances \in Nat
  /\ {MaxTime, Backoff, MaxDepositions, MaxEdits, MaxFaults} \subseteq Nat
  /\ {QueueSize, PoolSize} \subseteq Nat \ {0}

VARIABLES
  setting,      \* what the schedules are created with, whether the clocks of the
                \* nodes disagree, and the bound on depositions, edits and faults
  db,           \* the database after the committed log
  now,          \* the clock
  elected,      \* the node that can commit, or Nil
  role,         \* node -> what raft.State() says
  stale,        \* node -> the database a deposed leader still reads, or Nil
  notices,      \* node -> announcements on their way to the supervisor
  worker,       \* node -> the goroutine of Worker.Run
  queue,        \* node -> taskCh
  running,      \* node -> the tasks in the pool
  answered,     \* occurrences with a callback that was answered with success
  depositions, edits, faults    \* counters for the bounds

clusterVars == <<elected, role, stale, notices>>
poolVars == <<queue, running>>
boundVars == <<setting, depositions, edits, faults>>
vars == <<db, now, clusterVars, worker, poolVars, answered, boundVars>>

NoWorker ==
  [pc |-> "none", canceled |-> FALSE, tenants |-> {}, tenant |-> Nil, todo |-> {},
   item |-> Nil, sent |-> FALSE]

\* Tenants and schedules have been created, and nobody leads yet.
Init ==
  /\ setting \in Settings
  /\ LET row(k) == GetSchedule(ApplyCreateSchedule(EmptyDB,
                     CreateScheduleCommand(k[1], k[2], setting.spec)).db, k[1], k[2])
     IN  db = [EmptyDB EXCEPT
                 !.tenants = [t \in Tenants |-> CHOOSE h \in KeyHashes : TRUE],
                 !.schedules = [k \in Tenants \X ScheduleIds |-> row(k)],
                 !.schedulesByStatus = Tenants \X {"active"} \X ScheduleIds]
  /\ now = 0
  /\ elected = Nil
  /\ role = [n \in Nodes |-> "follower"]
  /\ stale = [n \in Nodes |-> Nil]
  /\ notices = [n \in Nodes |-> <<>>]
  /\ worker = [n \in Nodes |-> NoWorker]
  /\ queue = [n \in Nodes |-> <<>>]
  /\ running = [n \in Nodes |-> {}]
  /\ answered = {}
  /\ depositions = 0 /\ edits = 0 /\ faults = 0

\* The bounds allow one more of a kind of which there were count.
Disturbable(count, max) ==
  count < max /\ depositions + edits + faults < setting.disturbances

----------------------------------------------------------------------------
(* Leadership, as Raft (external) hands it out.                             *)

\* Raft's loop waits for room in the channel before it goes on, so a node
\* whose last announcement is still in the channel does not lead.
Elect(n) ==
  /\ elected = Nil
  /\ role[n] = "follower"
  /\ notices[n] = <<>>
  /\ elected' = n
  /\ role' = [role EXCEPT ![n] = "leader"]
  /\ notices' = [notices EXCEPT ![n] = <<"leader">>]
  /\ UNCHANGED <<db, now, stale, worker, poolVars, answered, boundVars>>

\* The leader can no longer commit, but does not know.  It reads on without a
\* barrier, because it has had one in its term.
Depose(n) ==
  /\ elected = n
  /\ Disturbable(depositions, MaxDepositions)
  /\ depositions' = depositions + 1
  /\ elected' = Nil
  /\ stale' = [stale EXCEPT ![n] = db]
  /\ UNCHANGED <<db, now, role, notices, worker, poolVars, answered, setting, edits, faults>>

StepDown(n) ==
  /\ stale[n] # Nil
  /\ stale' = [stale EXCEPT ![n] = Nil]
  /\ role' = [role EXCEPT ![n] = "follower"]
  /\ notices' = [notices EXCEPT ![n] = Append(@, "follower")]
  /\ UNCHANGED <<db, now, elected, worker, poolVars, answered, boundVars>>

\* The process of n ends and is started again.
Crash(n) ==
  /\ role[n] = "leader" \/ worker[n] # NoWorker
  /\ IF elected = n
     THEN /\ Disturbable(depositions, MaxDepositions)
          /\ depositions' = depositions + 1
          /\ elected' = Nil
     ELSE UNCHANGED <<depositions, elected>>
  /\ role' = [role EXCEPT ![n] = "follower"]
  /\ stale' = [stale EXCEPT ![n] = Nil]
  /\ notices' = [notices EXCEPT ![n] = <<>>]
  /\ worker' = [worker EXCEPT ![n] = NoWorker]
  /\ queue' = [queue EXCEPT ![n] = <<>>]
  /\ running' = [running EXCEPT ![n] = {}]
  /\ UNCHANGED <<db, now, answered, setting, edits, faults>>

\* The database after a command with result r, which is rolled back on an error.
Applied(r) == IF r.err = "none" THEN r.db ELSE db

\* RaftNode.Propose of a command with result r: what may come of it.  A failure
\* to commit is the error "failed", and the only one to expect for a proposal
\* that was sent before and left unanswered.
Propose(n, r, sent) ==
  LET failed(count) == [db |-> db, err |-> "failed", faults |-> count]
  IN  IF n = elected /\ ~ sent
      THEN {[db |-> Applied(r), err |-> r.err, faults |-> faults]}
             \cup IF Disturbable(faults, MaxFaults) THEN {failed(faults + 1)} ELSE {}
      ELSE IF n = elected \/ role[n] = "follower" THEN {failed(faults)}
      ELSE {}

\* A deposed leader's proposal has reached the next one, but not its answer.
SendUnanswered(n, r, sent) ==
  /\ elected = Nil /\ stale[n] # Nil /\ ~ sent
  /\ db' = Applied(r)

\* The leader-gated reads of RaftNode.
CanRead(n) == n = elected \/ stale[n] # Nil
View(n) == IF n = elected THEN db ELSE stale[n]

----------------------------------------------------------------------------
(* Supervisor.Run; module Supervisor has it with its channel and shutdown.  *)

\* Seeded fault: the announcement is taken while a canceled worker winds down.
StartWorker_Lost(n) ==
  /\ notices[n] # <<>> /\ Head(notices[n]) = "leader"
  /\ notices' = [notices EXCEPT ![n] = Tail(@)]
  /\ worker' = [worker EXCEPT ![n] = IF @.pc = "none" THEN [@ EXCEPT !.pc = "recover"] ELSE @]
  /\ UNCHANGED <<db, now, elected, role, stale, poolVars, answered, boundVars>>

StartWorker(n) ==
  /\ notices[n] # <<>> /\ Head(notices[n]) = "leader"
  /\ ~ worker[n].canceled
  /\ notices' = [notices EXCEPT ![n] = Tail(@)]
  /\ worker' = [worker EXCEPT ![n] = IF @.pc = "none" THEN [@ EXCEPT !.pc = "recover"] ELSE @]
  /\ UNCHANGED <<db, now, elected, role, stale, poolVars, answered, boundVars>>

CancelWorker(n) ==
  /\ notices[n] # <<>> /\ Head(notices[n]) = "follower"
  /\ ~ worker[n].canceled
  /\ notices' = [notices EXCEPT ![n] = Tail(@)]
  /\ worker' = [worker EXCEPT ![n].canceled = @ \/ worker[n].pc # "none"]
  /\ UNCHANGED <<db, now, elected, role, stale, poolVars, answered, boundVars>>

WorkerStopped(n) ==
  /\ worker[n].canceled /\ worker[n].pc = "returned"
  /\ worker' = [worker EXCEPT ![n] = NoWorker]
  /\ UNCHANGED <<db, now, clusterVars, poolVars, answered, boundVars>>

----------------------------------------------------------------------------
(* Worker.runRecover.                                                       *)

Goto(n, w) == worker' = [worker EXCEPT ![n] = w]

\* The worker at pc, with nothing left to do there.
Cleared(w, pc) == [NoWorker EXCEPT !.pc = pc, !.canceled = w.canceled]

\* A step of the worker's own goroutine that only reads.
Reads == UNCHANGED <<db, now, clusterVars, poolVars, answered, boundVars>>

ListTenants(d) == {t \in Tenants : GetTenant(d, t) # Nil}

\* ListExecutionsByStatus for the executions in flight: a copy of the rows.
ListInFlight(d, t) ==
  {[tenant |-> t, id |-> id, row |-> GetExecution(d, t, id)] :
     id \in {e \in ExecutionIds : <<t, "in_flight", e>> \in d.executionsByStatus}}

\* Attempts are listed in the order of their identifiers; the last one, or Nil.
LastListed(d, t, e) ==
  LET ids == {a \in AttemptIds : <<t, e, a>> \in d.attemptsByExecution}
  IN  IF ids = {} THEN Nil
      ELSE GetAttempt(d, t, CHOOSE a \in ids : \A b \in ids : b <= a)

\* classifyOne and adoptOrComplete: the command for a row left in flight, or
\* Nil.  Whether a retry is due makes no difference to it.
RecoverCommand(n, d, r) ==
  LET last == LastListed(d, r.tenant, r.id)
  IN  IF last # Nil /\ last.outcome # "retry"
      THEN CompleteExecutionCommand(r.tenant, r.id, last.outcome)
      ELSE IF r.row.owner = n THEN Nil
      ELSE AdoptExecutionCommand(r.tenant, r.id, r.row.owner, n)

\* The first read of a term waits for a barrier, unless a request of the API
\* was first; later reads of the term need none.  The barrier of a deposed
\* leader is answered when it steps down, and that of a leader may fail.
Recover(n) ==
  LET w == worker[n]
      failed == Goto(n, Cleared(w, "returned"))
  IN
  /\ w.pc = "recover"
  /\ \/ /\ CanRead(n)
        /\ Goto(n, [w EXCEPT !.pc = "recovering", !.tenants = ListTenants(View(n))])
        /\ UNCHANGED faults
     \/ /\ role[n] = "follower"
        /\ failed
        /\ UNCHANGED faults
     \/ /\ n = elected /\ Disturbable(faults, MaxFaults)
        /\ failed
        /\ faults' = faults + 1
  /\ UNCHANGED <<db, now, clusterVars, poolVars, answered, setting, depositions, edits>>

RecoverTenant(n) ==
  LET w == worker[n] IN
  /\ w.pc = "recovering" /\ w.todo = {}
  /\ \E t \in w.tenants :
       Goto(n, IF w.canceled \/ ~ CanRead(n) THEN Cleared(w, "returned")
               ELSE [w EXCEPT !.tenants = @ \ {t}, !.todo = ListInFlight(View(n), t)])
  /\ Reads

RecoverRow(n) ==
  LET w == worker[n] IN
  /\ w.pc = "recovering"
  /\ \E r \in w.todo :
       LET cmd == RecoverCommand(n, View(n), r)
           rest == [w EXCEPT !.todo = @ \ {r}]
       IN  Goto(n, IF w.canceled \/ ~ CanRead(n) THEN Cleared(w, "returned")
                   ELSE IF cmd = Nil THEN rest
                   ELSE [rest EXCEPT !.pc = "adopting", !.item = cmd])
  /\ Reads

\* What applying the command gives.
RecoverResult(cmd) ==
  IF cmd.type = "adopt_execution" THEN ApplyAdoptExecution(db, cmd)
  ELSE ApplyCompleteExecution(db, cmd)

\* A conflict means that another node was faster; any other error ends Run.
AdoptOrComplete(n) ==
  LET w == worker[n] IN
  /\ w.pc = "adopting"
  /\ \E x \in Propose(n, RecoverResult(w.item), w.sent) :
       /\ db' = x.db /\ faults' = x.faults
       /\ Goto(n, IF x.err \in {"none", "conflict"}
                  THEN [w EXCEPT !.pc = "recovering", !.item = Nil]
                  ELSE Cleared(w, "returned"))
  /\ UNCHANGED <<now, clusterVars, poolVars, answered, setting, depositions, edits>>

Recovered(n) ==
  LET w == worker[n] IN
  /\ w.pc = "recovering" /\ w.todo = {} /\ w.tenants = {}
  /\ Goto(n, Cleared(w, "idle"))
  /\ Reads

----------------------------------------------------------------------------
(* Worker.steadyState and runTick.                                          *)

Task(kind, tenant, id, row) ==
  [kind |-> kind, tenant |-> tenant, id |-> id, schedule |-> row.schedule,
   number |-> row.attemptCount + 1, pc |-> "queued", limit |-> Nil,
   url |-> Nil, attempt |-> Nil, outcome |-> Nil, retryAt |-> Nil, sent |-> FALSE]

StartTick(n) ==
  LET w == worker[n] IN
  /\ w.pc = "idle"
  /\ Goto(n, IF w.canceled \/ ~ CanRead(n) THEN Cleared(w, "closing")
             ELSE [w EXCEPT !.pc = "scanning", !.tenants = ListTenants(View(n))])
  /\ Reads

\* A tenant whose schedules cannot be read is passed over.
ScanDue(n) ==
  LET w == worker[n] IN
  /\ w.pc = "scanning"
  /\ \E t \in w.tenants :
       LET rest == [w EXCEPT !.tenants = @ \ {t}]
           due == {[schedule |-> s, scheduledFor |-> GetSchedule(View(n), t, s).nextRunAt] :
                     s \in ListSchedulesDue(View(n), t, now)}
       IN  Goto(n, IF w.canceled THEN Cleared(w, "closing")
                   ELSE IF ~ CanRead(n) THEN rest
                   ELSE [rest EXCEPT !.pc = "claiming", !.tenant = t, !.todo = due])
  /\ Reads

\* ulid.Make: an identifier that no execution of the tenant has; Nil once the
\* identifiers of the instance are used up.
NewExecutionId(t) ==
  LET free == {e \in ExecutionIds : GetExecution(db, t, e) = Nil}
  IN  IF free = {} THEN Nil ELSE CHOOSE e \in free : TRUE

\* What applying the claim of occurrence s gives.
ClaimResult(n, t, s) ==
  ApplyClaimExecution(db, ClaimExecutionCommand(t, s.schedule, NewExecutionId(t),
                                                s.scheduledFor, n))

\* The occurrence is claimed, and then called for by a task.
Claim(n) ==
  LET w == worker[n] IN
  /\ w.pc = "claiming"
  /\ \E s \in IF w.sent THEN {w.item} ELSE w.todo :
       LET id == NewExecutionId(w.tenant)
           rest == [w EXCEPT !.todo = @ \ {s}, !.item = Nil, !.sent = FALSE]
       IN  IF w.canceled /\ ~ w.sent
           THEN Goto(n, Cleared(w, "closing")) /\ UNCHANGED <<db, faults>>
           ELSE \E x \in Propose(n, ClaimResult(n, w.tenant, s), w.sent) :
                  /\ db' = x.db /\ faults' = x.faults
                  /\ Goto(n, IF x.err # "none" THEN rest
                             ELSE [rest EXCEPT !.pc = "sending", !.item =
                                     Task("fresh", w.tenant, id, GetExecution(x.db, w.tenant, id))])
  /\ UNCHANGED <<now, clusterVars, poolVars, answered, setting, depositions, edits>>

\* Sending to taskCh waits for room, without a look at the context.
Send(n) ==
  LET w == worker[n] IN
  /\ w.pc = "sending"
  /\ Len(queue[n]) < QueueSize
  /\ queue' = [queue EXCEPT ![n] = Append(@, w.item)]
  /\ Goto(n, [w EXCEPT !.pc = IF w.item.kind = "fresh" THEN "claiming" ELSE "visiting",
                       !.item = Nil])
  /\ UNCHANGED <<db, now, clusterVars, running, answered, boundVars>>

ScanInFlight(n) ==
  LET w == worker[n] IN
  /\ w.pc = "claiming" /\ w.todo = {}
  /\ Goto(n, IF CanRead(n)
             THEN [w EXCEPT !.pc = "visiting", !.todo = ListInFlight(View(n), w.tenant)]
             ELSE [w EXCEPT !.pc = "scanning", !.tenant = Nil])
  /\ Reads

\* Seeded fault: finalizing is left to the recovery of the next leader.
NeedsFinalize_Never(row) == FALSE

\* An attempt that asks for no retry is to be finalized.
NeedsFinalize(row) == row.lastAttemptID # Nil /\ row.lastRetryAt = Nil

\* Seeded fault: a row without an attempt passes for one whose retry is due.
RetryDue_NeverTried(row) == row.lastRetryAt = Nil \/ row.lastRetryAt <= now

RetryDue(row) == row.lastRetryAt # Nil /\ row.lastRetryAt <= now

Visit(n) ==
  LET w == worker[n] IN
  /\ w.pc = "visiting"
  /\ \E r \in w.todo :
       LET rest == [w EXCEPT !.todo = @ \ {r}]
           sending(kind) == [rest EXCEPT !.pc = "sending",
                                         !.item = Task(kind, r.tenant, r.id, r.row)]
       IN  Goto(n, IF w.canceled THEN Cleared(w, "closing")
                   ELSE IF NeedsFinalize(r.row) THEN sending("finalize")
                   ELSE IF RetryDue(r.row) /\ CanRead(n) THEN sending("retry")
                   ELSE rest)
  /\ Reads

NextTenant(n) ==
  LET w == worker[n] IN
  /\ w.pc = "visiting" /\ w.todo = {}
  /\ Goto(n, [w EXCEPT !.pc = "scanning", !.tenant = Nil])
  /\ Reads

PoolIdle(n) == queue[n] = <<>> /\ running[n] = {}

\* The tick ends when every task it has sent is done.
EndTick(n) ==
  LET w == worker[n] IN
  /\ w.pc = "scanning" /\ w.tenants = {}
  /\ PoolIdle(n)
  /\ Goto(n, Cleared(w, "idle"))
  /\ Reads

\* The channel is closed; the pool takes what is left in it.
Close(n) ==
  LET w == worker[n] IN
  /\ w.pc = "closing"
  /\ PoolIdle(n)
  /\ Goto(n, Cleared(w, "returned"))
  /\ Reads

----------------------------------------------------------------------------
(* runPool and the tasks.                                                   *)

Recorded == {a \in AttemptIds : \E t \in Tenants : GetAttempt(db, t, a) # Nil}
InUse(n) == {k.attempt : k \in running[n]} \ {Nil}

\* Seeded fault: identifiers say nothing about the order of attempts.
NewAttemptIds_Random(n) == AttemptIds \ (Recorded \cup UNION {InUse(m) : m \in Nodes})

\* ulid.Make: later attempts get greater identifiers, on all nodes as long as
\* their clocks agree, and otherwise on each node by itself.
NewAttemptIds(n) ==
  LET used == Recorded \cup UNION {InUse(m) : m \in Nodes}
      mine == {a \in Recorded : \E t \in Tenants : GetAttempt(db, t, a) # Nil
                                  /\ GetAttempt(db, t, a).node = n} \cup InUse(n)
      later == {a \in AttemptIds : \A b \in used : a > b}
  IN  IF setting.skewed THEN {a \in AttemptIds \ used : \A b \in mine : a > b}
      ELSE {a \in later : \A b \in later : a <= b}

\* Seeded fault: an attempt beyond the limit gets the outcome of an execution.
Classify_TimedOut(ok, number, limit) ==
  IF ok THEN "success"
  ELSE IF limit > 0 /\ number >= limit THEN "timed_out"
  ELSE "retry"

\* Seeded fault: the last attempt that is allowed is never made.
Classify_OneEarly(ok, number, limit) ==
  IF ok THEN "success"
  ELSE IF limit > 0 /\ number + 1 >= limit THEN "terminal_failure"
  ELSE "retry"

\* classifyAttemptOutcome.
Classify(ok, number, limit) ==
  IF ok THEN "success"
  ELSE IF limit > 0 /\ number >= limit THEN "terminal_failure"
  ELSE "retry"

Replace(n, k, ks) == running' = [running EXCEPT ![n] = (@ \ {k}) \cup ks]

\* runFinalize up to its proposal: nothing is left of the task if there is
\* nothing to finalize.
Finalizing(n, k) ==
  LET last == LastListed(View(n), k.tenant, k.id)
  IN  IF last = Nil \/ last.outcome = "retry" THEN {}
      ELSE {[k EXCEPT !.pc = "completing", !.outcome = last.outcome]}

\* A fresh task or a retry up to its call with attempt identifier a: it ends if
\* the schedule is not active, and if no request can be made for its URL.
Calling(n, k, a) ==
  LET schedule == GetSchedule(View(n), k.tenant, k.schedule)
  IN  IF schedule = Nil \/ schedule.status # "active" THEN {}
      ELSE IF schedule.callbackURL = "malformed" THEN {}
      ELSE {[k EXCEPT !.pc = "calling", !.attempt = a, !.url = schedule.callbackURL,
                      !.limit = schedule.maxAttempts]}

\* What may be left of task k after what it does before its first call or
\* proposal: nothing if the context is done or if it cannot read.
Started(n, k) ==
  IF worker[n].canceled \/ ~ CanRead(n) THEN {{}}
  ELSE IF k.kind = "finalize" THEN {Finalizing(n, k)}
  ELSE {Calling(n, k, a) : a \in NewAttemptIds(n)}

\* Seeded fault: the pool takes no task once the context is done.
StartTask_StopsEarly(n) ==
  /\ queue[n] # <<>>
  /\ Cardinality(running[n]) < PoolSize
  /\ ~ worker[n].canceled
  /\ queue' = [queue EXCEPT ![n] = Tail(@)]
  /\ \E ks \in Started(n, Head(queue[n])) : running' = [running EXCEPT ![n] = @ \cup ks]
  /\ UNCHANGED <<db, now, clusterVars, worker, answered, boundVars>>

\* runPool: a goroutine that is free takes the next task.
StartTask(n) ==
  /\ queue[n] # <<>>
  /\ Cardinality(running[n]) < PoolSize
  /\ queue' = [queue EXCEPT ![n] = Tail(@)]
  /\ \E ks \in Started(n, Head(queue[n])) : running' = [running EXCEPT ![n] = @ \cup ks]
  /\ UNCHANGED <<db, now, clusterVars, worker, answered, boundVars>>

\* The call is given up because the context is done.
Abort(n, k) ==
  /\ k.pc = "calling"
  /\ worker[n].canceled
  /\ Replace(n, k, {})
  /\ UNCHANGED <<db, now, clusterVars, worker, queue, answered, boundVars>>

\* The receiver answers, with success or not, or the call times out or fails.
Respond(n, k) ==
  /\ k.pc = "calling"
  /\ \E ok \in IF k.url = "" THEN {FALSE} ELSE BOOLEAN :
       LET outcome == Classify(ok, k.number, k.limit)
           at == IF now + Backoff > MaxTime THEN MaxTime ELSE now + Backoff
           occurrence == <<k.tenant, k.schedule, GetExecution(db, k.tenant, k.id).scheduledFor>>
       IN  /\ Replace(n, k, {[k EXCEPT !.pc = "recording", !.outcome = outcome,
                                       !.retryAt = IF outcome = "retry" THEN at ELSE Nil]})
           /\ answered' = IF ok THEN answered \cup {occurrence} ELSE answered
  /\ UNCHANGED <<db, now, clusterVars, worker, queue, boundVars>>

\* What applying the proposal of task k gives.
TaskResult(n, k) ==
  IF k.pc = "recording"
  THEN ApplyRecordAttempt(db, RecordAttemptCommand(k.tenant, k.id, k.attempt, n, k.url,
                                                   k.outcome, k.retryAt))
  ELSE ApplyCompleteExecution(db, CompleteExecutionCommand(k.tenant, k.id, k.outcome))

\* The attempt is recorded, whether or not the context is done by now; an
\* attempt that was recorded and asks for no retry completes the execution.
RecordAttempt(n, k) ==
  /\ k.pc = "recording"
  /\ \E x \in Propose(n, TaskResult(n, k), k.sent) :
       /\ db' = x.db /\ faults' = x.faults
       /\ Replace(n, k, IF x.err # "none" \/ worker[n].canceled \/ k.outcome = "retry" THEN {}
                        ELSE {[k EXCEPT !.pc = "completing"]})
  /\ UNCHANGED <<now, clusterVars, worker, queue, answered, setting, depositions, edits>>

CompleteExecution(n, k) ==
  /\ k.pc = "completing"
  /\ \E x \in Propose(n, TaskResult(n, k), k.sent) : db' = x.db /\ faults' = x.faults
  /\ Replace(n, k, {})
  /\ UNCHANGED <<now, clusterVars, worker, queue, answered, setting, depositions, edits>>

----------------------------------------------------------------------------
(* Proposals of a deposed leader that are committed after all.              *)

WorkerUnanswered(n) ==
  LET w == worker[n] IN
  /\ \/ /\ w.pc = "adopting"
        /\ SendUnanswered(n, RecoverResult(w.item), w.sent)
        /\ Goto(n, [w EXCEPT !.sent = TRUE])
     \/ /\ w.pc = "claiming" /\ ~ w.canceled
        /\ \E s \in w.todo :
             /\ SendUnanswered(n, ClaimResult(n, w.tenant, s), w.sent)
             /\ Goto(n, [w EXCEPT !.item = s, !.sent = TRUE])
  /\ UNCHANGED <<now, clusterVars, poolVars, answered, boundVars>>

TaskUnanswered(n, k) ==
  /\ k.pc \in {"recording", "completing"}
  /\ SendUnanswered(n, TaskResult(n, k), k.sent)
  /\ Replace(n, k, {[k EXCEPT !.sent = TRUE]})
  /\ UNCHANGED <<now, clusterVars, worker, queue, answered, boundVars>>

----------------------------------------------------------------------------
(* Clients and time.                                                        *)

\* The API on the leader: pause, resume or cancel.
Edit ==
  /\ elected # Nil
  /\ Disturbable(edits, MaxEdits)
  /\ edits' = edits + 1
  /\ \E t \in Tenants, s \in ScheduleIds :
       \E r \in {ApplyPauseSchedule(db, PauseScheduleCommand(t, s)),
                 ApplyResumeSchedule(db, ResumeScheduleCommand(t, s), now),
                 ApplyCancelSchedule(db, CancelScheduleCommand(t, s))} :
         db' = Applied(r)
  /\ UNCHANGED <<now, clusterVars, worker, poolVars, answered, setting, depositions, faults>>

Tick ==
  /\ now < MaxTime
  /\ now' = now + 1
  /\ UNCHANGED <<db, clusterVars, worker, poolVars, answered, boundVars>>

----------------------------------------------------------------------------
SupervisorStep(n) == StartWorker(n) \/ CancelWorker(n) \/ WorkerStopped(n)

WorkerStep(n) ==
  \/ Recover(n) \/ RecoverTenant(n) \/ RecoverRow(n) \/ AdoptOrComplete(n) \/ Recovered(n)
  \/ StartTick(n) \/ ScanDue(n) \/ Claim(n) \/ Send(n) \/ ScanInFlight(n) \/ Visit(n)
  \/ NextTenant(n) \/ EndTick(n) \/ Close(n)

TaskStep(n, k) == Abort(n, k) \/ Respond(n, k) \/ RecordAttempt(n, k) \/ CompleteExecution(n, k)

NodeStep(n) ==
  \/ Elect(n) \/ Depose(n) \/ StepDown(n) \/ Crash(n)
  \/ SupervisorStep(n)
  \/ WorkerStep(n) \/ WorkerUnanswered(n)
  \/ StartTask(n)
  \/ \E k \in running[n] : TaskStep(n, k) \/ TaskUnanswered(n, k)

Next == Edit \/ Tick \/ \E n \in Nodes : NodeStep(n)

Safety == Init /\ [][Next]_vars

\* Goroutines are scheduled, a call is answered or times out, and Raft goes on:
\* a cluster without a leader elects one, and a leader that cannot reach the
\* others notices.  Nothing makes a leader lose leadership or a client send a
\* command.
Fairness ==
  /\ WF_vars(Tick)
  /\ WF_vars(\E n \in Nodes : Elect(n) \/ StepDown(n))
  /\ \A n \in Nodes :
       /\ WF_vars(SupervisorStep(n))
       /\ WF_vars(WorkerStep(n))
       /\ WF_vars(StartTask(n) \/ \E k \in running[n] : TaskStep(n, k))

Spec == Safety /\ Fairness

----------------------------------------------------------------------------
(* Properties.                                                              *)

WorkerStates ==
  {"none", "recover", "recovering", "adopting", "idle", "scanning", "claiming",
   "sending", "visiting", "closing", "returned"}

Tasks ==
  [kind : {"fresh", "retry", "finalize"}, tenant : Tenants, id : ExecutionIds,
   schedule : ScheduleIds, number : Nat, limit : Int \cup {Nil}, url : CallbackURLs \cup {Nil},
   pc : {"queued", "calling", "recording", "completing"},
   attempt : AttemptIds \cup {Nil}, outcome : Outcomes \cup {Nil},
   retryAt : 0..MaxTime \cup {Nil}, sent : BOOLEAN]

\* Every variable has its type.
TypeOK ==
  /\ db \in DB
  /\ now \in 0..MaxTime
  /\ elected \in Nodes \cup {Nil}
  /\ role \in [Nodes -> {"leader", "follower"}]
  /\ stale \in [Nodes -> DB \cup {Nil}]
  /\ notices \in [Nodes -> Seq({"leader", "follower"})]
  /\ \A n \in Nodes : /\ worker[n].pc \in WorkerStates
                      /\ worker[n].canceled \in BOOLEAN
                      /\ worker[n].tenants \subseteq Tenants
                      /\ Len(queue[n]) <= QueueSize
                      /\ Cardinality(running[n]) <= PoolSize
  /\ queue \in [Nodes -> Seq(Tasks)]
  /\ running \in [Nodes -> SUBSET Tasks]

\* A task that calls the receiver, or is about to, and has not recorded it yet.
Calls(k) == k.kind # "finalize" /\ k.pc \in {"queued", "calling", "recording"}

SameCall(j, k) == Calls(j) /\ Calls(k) /\ j.tenant = k.tenant /\ j.id = k.id

\* A node has at most one task for an execution that calls the receiver,
\* although a task may be recorded while the tick that sent it still scans:
\* an occurrence is not called for twice at once by the node that owns it.
OneCallPerNode ==
  \A n \in Nodes :
    /\ \A j, k \in running[n] : SameCall(j, k) => j = k
    /\ \A i, j \in DOMAIN queue[n] : SameCall(queue[n][i], queue[n][j]) => i = j
    /\ \A k \in running[n], i \in DOMAIN queue[n] : ~ SameCall(k, queue[n][i])

\* With clocks that agree, the attempt that recovery and finalizing take for
\* the last one, by its identifier, is the one that the execution has counted
\* last, whichever nodes have recorded the attempts.
LastListedIsLast ==
  \A t \in Tenants, e \in ExecutionIds :
    /\ ~ setting.skewed
    /\ GetExecution(db, t, e) # Nil /\ GetExecution(db, t, e).lastAttemptID # Nil
    => LastListed(db, t, e) = GetAttempt(db, t, GetExecution(db, t, e).lastAttemptID)

Occurrences == Tenants \X ScheduleIds \X (0..MaxTime)

ExecutionsOf(d, o) ==
  {x \in {GetExecution(d, o[1], e) : e \in ExecutionIds} :
     x # Nil /\ x.schedule = o[2] /\ x.scheduledFor = o[3]}

\* How far the occurrence with execution x of tenant t has come.
Progress(d, t, x) ==
  [phase |-> CASE x.status = "in_flight" -> "in_flight"
               [] x.status = "succeeded" -> "succeeded"
               [] OTHER -> "failed",
   tries |-> x.attemptCount,
   last |-> IF x.lastAttemptID = Nil THEN Nil ELSE GetAttempt(d, t, x.lastAttemptID).outcome]

RunOf(d, o) ==
  LET runs == {Progress(d, o[1], x) : x \in ExecutionsOf(d, o)}
  IN  IF runs = {} THEN [phase |-> "due", tries |-> 0, last |-> Nil]
      ELSE CHOOSE r \in runs : TRUE

\* A limit that is not positive is none.
Ledger == INSTANCE OccurrenceLedger
            WITH Limit <- IF MaxAttempts > 0 THEN MaxAttempts ELSE 0, None <- Nil,
                 run <- [o \in Occurrences |-> RunOf(db, o)],
                 answered <- answered \cap Occurrences

\* The workers of all nodes together keep the ledger: across deposed leaders
\* that do not know it, proposals committed without an answer and crashes, an
\* occurrence is run once, tried again only after a retry and within its
\* limit, and ends with the outcome of its last attempt.
KeepsLedger == Ledger!Spec

Active(t, s) == GetSchedule(db, t, s).status = "active"

\* The worker of the leader has returned although nobody canceled it, after a
\* read or a proposal of its recovery failed: nothing starts another one before
\* leadership changes.
LeaderFailed ==
  \E n \in Nodes : n = elected /\ worker[n].pc = "returned" /\ ~ worker[n].canceled

FirstOccurrences == Tenants \X ScheduleIds \X {x.spec.firstRunAt : x \in Settings}

\* Unless the cluster ends up with a leader whose worker has failed, the first
\* occurrence of a schedule, once due, is claimed or its schedule is paused or
\* canceled: no deposition, crash or proposal that is not taken makes a worker
\* that runs miss it, and a worker that has failed holds it up until leadership
\* changes, not longer.
DueIsClaimed ==
  []<>~ LeaderFailed => \A o \in FirstOccurrences :
    (Active(o[1], o[2]) /\ GetSchedule(db, o[1], o[2]).nextRunAt = o[3] /\ o[3] <= now)
      ~> (ExecutionsOf(db, o) # {} \/ ~ Active(o[1], o[2]))

InProgress(t, e) ==
  LET x == GetExecution(db, t, e)
  IN  x # Nil /\ x.status = "in_flight" /\ Active(t, x.schedule)

\* Unless the cluster ends up with a leader whose worker has failed, an execution
\* that has an attempt comes to its end or its schedule is paused or canceled: the
\* recovery and the ticks of whoever leads pick it up.  An execution without an
\* attempt may stay in flight for ever, as the worker's log says.
AttemptedEnds ==
  []<>~ LeaderFailed => \A t \in Tenants, e \in ExecutionIds :
    (InProgress(t, e) /\ GetExecution(db, t, e).attemptCount > 0) ~> ~ InProgress(t, e)

\* The workers whose context is done all return, also one that waits for its pool
\* or for a proposal at that time: no supervisor waits for ever.
CanceledWorkerStops ==
  (\E n \in Nodes : worker[n].canceled) ~> (\A n \in Nodes : ~ worker[n].canceled)
=============================================================================
