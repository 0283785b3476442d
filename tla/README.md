# A TLA+ model of raft-billing

raft-billing is a multi-tenant task scheduler: clients create schedules over
HTTP, every change is a command in a Raft log, each node applies the log to a
bbolt database, and the leader's worker claims due occurrences, calls the
callback URL, records the attempts and completes the executions. This directory
models it in TLA+. TLC checks small instances, and TLAPS proves the central
invariants for every value of the constants. Paths below are relative to `src/`.

## The system

| Part | State | Operations | Hard part |
|---|---|---|---|
| `internal/model` | – | the three `Compute…` functions over four cadences, `DelayForAttempt` | zones, summer time, short months, overflow |
| `internal/storage` | four row buckets, four index buckets | `Put…`, `Get…`, scans, pages | indexes are kept by hand |
| `internal/command` | – | eleven commands | each must be right after any sequence of the others |
| `internal/statemachine` | the open database | `Apply`, `Snapshot`, `Persist`, `Restore` | snapshots beside `Apply`, crashes in `Restore`, replay |
| `internal/raftnode`, `node` | database handle, `readyTerm` | `New`, `Propose`, leader-gated reads | stale handle, leadership lost between check and read |
| `internal/scheduler` | task channel, worker context | due scan, claim, dispatch, retry, finalize, recover; supervisor start/stop | at-least-once calls, late entries of a deposed leader, progress |
| `internal/api` | token buckets | handlers, rate limit, cursor pages | ambiguous proposals, lists that change between pages |
| `internal/config`, `cmd` | – | start-up | – |

The parts interact in four places. Raft calls into the state machine. Raft announces
leadership to the supervisor over a channel with one slot, and the supervisor starts
and stops the worker. Worker and handlers propose commands and read through
`RaftNode`, whose reads are for the leader only. Handlers and workers of several
nodes meet in the log.

Raft and bbolt are external. Raft is reduced to what the code sees of it: one
committed log, delivered in order; the newest local snapshot handed to `Restore` at
start; terms, elections, a leader that was replaced and does not know it yet; a
proposal or barrier that fails, and an entry that is committed although its proposer
was told it failed. No timing is assumed: Raft's leader lease makes the time in which
a replaced leader does not know it short, and the models let it last. bbolt is reduced
to serial transactions that are atomic and durable.

## Modules

| Module | Models |
|---|---|
| `Recurrence` | `model/recurrence.go`, on a scaled calendar |
| `Storage` | rows, indexes, `Put…`/`Get…` and the scans that the commands and the due scan use |
| `Commands` | the eleven `Apply…` functions and `Dispatch` |
| `Consistency` | what a database must satisfy, as predicates on a database value |
| `StateMachine` | one replica fed with log entries; one action per entry type |
| `Replicas` | several replicas: `Apply`, snapshots, `Restore` in two steps, crash, the three ways a start can go |
| `RunSequence` | the run times of one recurring schedule over its life |
| `LeaderReads` | `ensureCaughtUpAsLeader` and the read methods, step by step, while Raft elects, commits and applies |
| `Supervisor` | `Supervisor.Run`, the notify channel, `Scheduler.Start`/`Shutdown` and the order of `Node.Shutdown`, on one node |
| `Scheduler` | `worker.go` on every node, composed with `Commands`: recovery, tick, queue, pool, tasks; elections, crashes, late entries |
| `OccurrenceLedger` | abstract: what the scheduler promises for an occurrence |
| `RetryBackoff` | `DelayForAttempt` with integers of a given width |
| `API` | the thirteen handlers with leader check, credentials, rate answer, read or proposal; composed with `Commands` |
| `RateLimiter` | the token buckets and the identities they are kept under |
| `Paging` | the four `List…Page` functions as one, over a bucket that changes |
| `MC…` | the instances for TLC. `MCNode` and `MCAPI` hold several parts that share no state; in a behaviour one of them moves (`part`) and the others stay as they begin |
| `…Proofs` | lemmas and theorems about the module they extend |

`Commands` is the core. An `Apply…` operator takes a database and a command and
returns the database with the writes made so far and the kind of error, with the
checks in the code's order. `StateMachine!Apply` puts the transaction around it
and drops the writes if there was an error. `Replicas` uses the same operators on
the database of every node, `RunSequence` uses those that compute the next run, and
`Scheduler` and `API` propose to one database, the one that the committed log
determines.

**Scheduler.** A worker's `pc` names the place in `Worker.Run`, `runRecover` or `runTick`
where it is; `queue` is `taskCh`, `running` the pool. Each read and each proposal is a
step of its own, because leadership may change at each. A replaced leader goes on
reading the database it had (`stale`), calling and proposing, until it steps down; one
proposal of each goroutine may then turn out to have been committed
(`SendUnanswered`). The first read of a term, which is recovery's, waits for a barrier,
and the worker returns for good if that fails. Tasks read the schedule, call (`calling`), record
(`recording`) and complete (`completing`), with the checks of the context where the code
has them. A task ends without a call if no request can be made for the schedule's
callback URL, and an attempt at an empty URL fails and is refused by `record_attempt`. Rows
are visited in any order. ULIDs are numbers that grow, over all nodes or, if clocks
disagree (`setting.skewed`), over each node alone.

**Supervisor.** `sv` is the place in `Run`. Raft's main loop waits while the channel is
full, so nothing is announced and no proposal is answered meanwhile; a worker may be
waiting for its proposal when it is canceled.

**API.** One step per call that can fail or see a change: `requireLeader`, the credential
check with its read, the handler's read or its proposal. A read is one step here;
`LeaderReads` has its inside. The rate limiter lets through or refuses at will. Keys are
model values; a stored hash is told apart from the key it is made of only by
`KeyMatches`.

**LeaderReads.** A database is the number of entries applied to it. `floor` remembers
what clients had been told when a read was called; no step depends on it.

**RateLimiter, RetryBackoff.** Tokens are counted in fractions (`Unit` to a token), time in
ticks, so that the float arithmetic of the code is exact; rounding is left out. The
delay is a rational product, truncated, and converted to an integer of `Width` bits;
out of range the Go specification leaves the result to the implementation, and the
model takes both ends of the range.

**Data that is abstracted.** Rows keep the fields that a command branches on or a
property relates. Payloads, audit times and messages are left out. Of a callback URL it
matters whether it is empty, which `record_attempt` refuses, or malformed, so that
`http.NewRequestWithContext` fails; no command checks it before. A bucket
key is a tuple; the code joins the parts with ":", which is the same as long as
identifiers do not contain it. Header keys keep their spelling, because
`validateHeaders` canonicalises them before comparing. `record_attempt`'s checks
for times and a status that the worker always sets are left out. The execution status
`pending` is declared by the code and never assigned.

**The calendar.** An instant is a number of units, a second is `SecondLength` units
and a day `DayLength`. Months alternate between two lengths, weeks have seven days,
a zone has one period of summer time. Go's `time.Date`, `In` and `AddDate` are
modelled by what they do with offsets, truncation to seconds included. The number of
seconds of an interval and the day of a month are any integers: the code takes them
from the request as they are. It reaches them through pointers, and a request that
leaves out the one its cadence needs makes `Apply` dereference nil, which ends the
process; such recurrences are not modelled. Quotients are exact; the code divides in
float64.

**What the environment may do in `StateMachine`.** Every well-formed entry may come
at any time and in any order: this covers API calls, workers of several nodes, and
late or repeated entries of a deposed leader. A claim is for an occurrence that
some past due scan returned (`offered`), as `runTick` builds it, under an
identifier not used before (`ulid.Make`). Proposer clocks are arbitrary.

## Runs

| Run | Instance | Shows |
|---|---|---|
| `statemachine` | 1 tenant, 1 schedule, 2 executions, 2 attempts, 2 nodes, times 0..2; a schedule that runs once, or recurs at every instant under `catch_up_all` or `catch_up_latest_only`, or has no policy and an interval of 0; 55,292 states | `TypeOK`, `IndexesMirrorRows`, `OneExecutionPerOccurrence`, `OwnedIffInFlight`, `AttemptLedger`, `QuietUnlessActive`, `CatchUpAllComplete`, `FinishedIsFrozen`, `ScheduleLifecycle` |
| `replicas` | 2 nodes, 2 logs of 4 entries, 2 restarts; 489,660 states | `TypeOK`, `FollowsLog`, `ReplayKeepsClaims` |
| `run_sequence` | 42 schedules: 5 recurrences in UTC under 3 policies with 2 first runs, 4 in two other zones under one policy, less those outside `Clear`; 56 instants; 60,389 states | `NextIsEarliest`, `AfterIsEarliest`, `LatestIsLatest`, `RunsOnCadence` |
| `scheduler` | 2 nodes; a schedule that runs once with 2 disturbances, or with 1 and clocks that disagree, or with 1 and a callback URL that is empty or malformed, or one that recurs, with 2 occurrences and 1 disturbance; 2 attempts allowed. A disturbance is a loss of leadership or crash, a pause, resume or cancel, or a proposal or barrier that fails. 428,824 states | `OneCallPerNode`, `LastListedIsLast`, `KeepsLedger` |
| `scheduler_live` | 2 nodes, a schedule that runs once, fair; 1 loss of leadership, crash, failing proposal or barrier, or, with a malformed URL, one that fails and a loss; 39,784 states | `TypeOK`, `DueIsClaimed`, `AttemptedEnds`, `CanceledWorkerStops` |
| `node`: supervisor | 4 changes of leadership, 1 failing worker, fair | `SupervisorTypeOK`, `OneWorker`, `WorkerFollowsLeadership`, `ShutdownEnds` |
| `node`: reads | 2 nodes, 2 readers, 2 terms, 1 entry, fair | `ReadsTypeOK`, `FreshReads`, `ReadsReturn` |
| `node`: lists | 4 keys of which 3 are listed, limits 0..3, fair | `PagingTypeOK`, `Exact`, `WalkEnds` |
| `node`: delays | 8 bits, 5 initial delays, 4 multipliers, 8 attempts; all of `node`: 85,887 states | `BacksOffInRange` |
| `api`: handlers | 2 nodes, 2 requests to all endpoints, 1 loss of leadership | `TypeOK`, `DefiniteAnswers`, `ShownKeyWorks`, `OwnTenantOnly` |
| `api`: rate limiter | 2 handlers; the admin key, a tenant and a tenant called `admin`; thirds of tokens, 3 ticks; all of `api`: 1,041,061 states | `LimiterTypeOK`, `WithinRate`, `OwnBudget`, `RetryAfterHolds` |

The types of the parts are checked as one invariant, `TypeOK` in `MCNode` and `MCTypeOK`
in `MCAPI`.

**Bounds.** They are the least at which the cases meet. Two executions and three
instants let a completed occurrence, one in flight and one to come exist together,
with pauses and resumes between. Two nodes and two attempts give an attempt before
and after an adoption. In `statemachine` the identifiers are symmetric; nothing
compares or orders them. Two restarts allow a crash in the middle of the `Restore`
of an earlier start. 56 instants are two whole months, one of each length, and hold
both changes of the clock. In `scheduler` two losses let leadership come back to the
node that had it; attempt identifiers are as many as the calls that the disturbances
allow. Two terms let a leader be replaced while reads of both are on their way; the
proof covers the rest. Two requests let one create a tenant and the other create it
too or use its key. Four changes fill Raft's hand, the channel and the supervisor. Three ticks
fill an empty bucket. Eight bits are passed by every multiplier above 1
within eight attempts; the width does not enter the argument.

**Deadlock** is checked in `statemachine` and `run_sequence`. The other models stop when
their bounds are used up, or when a request, a walk or a shutdown is over, so it is not
checked there; that nothing waits for ever is stated as liveness.

**Fairness.** `scheduler_live`: goroutines are scheduled (weak
fairness of the supervisor, the worker and the pool, each on each node), a call ends
because `callTimeout` bounds it, time passes, and Raft goes on: a cluster without a leader
elects one, and a replaced leader steps down when its lease ends. Nothing is assumed about
losing leadership, clients or which of several enabled steps of a worker is taken.
In `node`, supervisor: Raft's announcement, the supervisor's goroutine, `main`'s shutdown
and each worker are scheduled, each on its own, and a proposal ends by its timeout. Reads: committed entries are applied, a replaced leader hears of
it, and a reader gets the mutex in the end (strong fairness: `sync.Mutex` hands over to
a waiter that starves). Lists: the loop goes on, and so does a client that was given
a cursor. No fair action of a part can be taken before the part has moved, so that the
parts at rest do not make the fairness of `node` void.

**The ledger.** `OccurrenceLedger` is an abstract specification with one record per
occurrence: due, in flight, succeeded or failed, the number of tries and the last
outcome. `KeepsLedger` says that `Scheduler` implements it under the mapping `RunOf`,
which reads an occurrence's record off the database. Every step of every node is
a step of the ledger or changes nothing in it, crashes and late entries of replaced
leaders included: claimed once, tried within the limit, a success recorded only if the
receiver gave one, ended with the last outcome.

`CatchUpAllComplete` says that for a `catch_up_all` schedule the occurrences
executed are exactly those before the next run. `FollowsLog` says besides that a node which
is up has no half-written database. `ReplayKeepsClaims` says what
survives when a log is applied twice to the same database. `RunSequence` states
what a cadence means by looking at the wall clock at every instant, and holds the
code's arithmetic against it. Schedules whose slot falls into the hour that summer
time skips or repeats are excluded (`Clear`).

Each property of these runs is paired with a seeded fault (the operators with a
suffix such as `Claimed_IgnoresEnded`) under which TLC finds it violated.

### Disagreements between the code and its documentation

| Run | What TLC shows |
|---|---|
| `replicas_agree` | `scheduler.db` survives a restart and Raft's applied index does not. Without a snapshot the log is applied twice, and `record_attempt` counts twice: the node disagrees with its peers (`README.md:3`). |
| `up_node_can_read` | `Restore` replaces the state machine's database, but the `RaftNode` keeps the closed one. A node that restored a snapshot cannot read (`README.md:131`). |
| `keeps_local_time` | Completion computes the next run in `"UTC"`: a daily schedule with a zone leaves its local time when the clock changes (`recurrence_test.go:352`). |
| `keeps_weekday` | `computeWeeklyAfter` does not move to the weekday: a weekly schedule resumed with `skip_missed` changes its weekday for good (`recurrence_test.go:202`). |
| `active_has_next_run` | Resuming a recurring schedule without a catch-up policy leaves it active with no next run (`README.md:73`, `schedule_test.go:955`). |

`RunsOnCadence` and `AfterIsEarliest` leave out exactly what these runs show:
schedules in other zones, and weekly schedules that skip.

### What the other properties leave out

These are stated as narrowly as the code allows. Without the restriction TLC finds a
counterexample in each case. Two need another instance than the run's: an interval of 0
under `catch_up_all` for `CatchUpAllComplete`, and for `AttemptedEnds` a loss of leadership
and then a failing recovery, which is one disturbance more than `scheduler_live` allows with
a usable URL. With both allowed the properties of `scheduler_live` hold too (82,646 states);
the run has one because checking fairness on the larger graph takes about twice as long.

| Property | Restriction, and what happens outside it |
|---|---|
| `WorkerFollowsLeadership` | No worker has failed. One that returns an error while its node stays leader is not started again (`supervisor.go:40`): nothing is dispatched until the next election. |
| `DueIsClaimed`, `AttemptedEnds` | The cluster does not end up with a leader whose worker has failed. A barrier or a proposal that fails in recovery ends `Worker.Run` (`raftnode.go:52`, `worker.go:573-612`), and as above nothing starts another one before the next election. |
| `AttemptedEnds` | The execution has an attempt. One whose leader was lost between claim and first attempt is adopted, but `runTick` picks up only executions with a last attempt (`worker.go:784-802`): it stays in flight. So does one whose schedule has a callback URL that is empty or malformed: no attempt of it is ever recorded. |
| `AttemptedEnds`, `LastListedIsLast` | Clocks agree. Otherwise the attempt with the greatest ULID may not be the last one; finalizing then finds a retry and gives up (`worker.go:376`). |
| `DueIsClaimed` | It is about the first occurrence of a schedule, and the occurrence gets an execution. That the schedule goes on is not said: `catch_up_latest_only` resumes onto an occurrence that may have been executed (`schedule.go:321`), which no claim can take. |
| `CatchUpAllComplete`, `RunSequence` | The interval is positive. No code checks it: with 0 the run after any instant is the first run (`ZeroIntervalStalls`), which no claim can take again, and the schedule makes no progress. `RunSequence` assumes it (`CreatedAssumption`), because an interval of 0 has no slots to hold the code against. |
| `FollowsLog` | The node is up. A `Restore` that a crash interrupts leaves a torn file, and if bbolt refuses to open it the node does not start again (`StartFails`). |
| `BacksOffInRange` | The product fits a duration. Past that the delay may come out negative (`model/schedule.go:99`), and the retry is immediate. |
| `OwnBudget` | The credential is neither the admin key nor that of a tenant called `admin` where there is one. `create_tenant` accepts the name, and the two share a bucket (`auth.go:69`), contrary to "each tenant's own API key gets its own independent budget" (`README.md:94`). |
| `DefiniteAnswers`, `ShownKeyWorks` | The answer is not 503. A `create_tenant` that is committed after its proposal failed (`api.go:138`) leaves a tenant whose key nobody has seen. |
| `TypeOK` of `API` | 500 is among the answers although storage does not fail in the model: a read that finds its node no longer leader is answered with it (`api.go:114`). |

## Proofs

The proofs hold for all sets of tenants, schedules, executions, attempts, nodes and
times, all calendars and zones, all logs, rates and requests. They rest on the
assumptions stated in the modules: lengths are positive, zone `UTC` has offset 0, the
sentinels are not integers, rows and inputs are of their types. TLC evaluates each of
them on the instances of the runs.

- **Recurrence** (`RecurrenceProofs`). `IntervalAfterIsNextSlot`: the interval
  function returns the first multiple after an instant. `AfterIsLater`: the next run
  that a completion computes is later than the occurrence that ended, for every
  cadence, if an interval is positive. That it has to be is `ZeroIntervalStalls`. The monthly case uses
  that the month search starts at the month of the instant and looks only at candidates
  after it.
- **Commands** (`CommandProofs`). First lemmas about storage, then one per kind of write,
  then one per command: it takes an intact database to an intact one by a legal change.
  `Intact` is `Consistent` without the numbering of attempts, which a replay breaks;
  a legal change keeps the numbering where there was one. The other proof modules about
  databases rest on these lemmas.
- **State machine** (`StateMachineProofs`). The
  inductive invariant is `Consistent(db)` with the type of `offered` and the fact
  that an offered schedule exists. The single properties are not inductive:
  uniqueness of occurrences needs the schedule index, because the claim scans the
  index and not the rows; an execution's summary needs every attempt to belong to an
  execution; both need the types. There is one lemma per action. From `Invariance` follow
  `TypeCorrect`, `IndexesCorrect`, `OccurrencesClaimedOnce`, `OwnershipCorrect`,
  `LedgerCorrect`, `InactiveIsQuiet`, and from the legal changes `HistoryIsFrozen` and
  `LifecycleRespected`.
- **Replicas** (`ReplicaProofs`). The invariant `RInv` adds to `FollowsLog` that persisted
  and open snapshots hold the log's database at their index, and that a node that is
  restoring or torn has a snapshot, without which a start would take the torn file as it
  is. From `ReplicaInvariance` follows `ReplicasFollowLog`.
  `ReplaysKeepClaims` is about databases that the log is applied to again. There an entry
  meets the effects of later ones, and what it does depends on where those came
  from. The second invariant, `WInv`, says of every database in the system (files,
  open and persisted snapshots, the log's own) that it is intact, that every execution
  and attempt in it is the one of a claim or record of the log, and that the
  schedules which the entries up to its index create are there. A claim that is applied
  again then finds its own execution and is a conflict; an attempt that is recorded
  again belongs to the execution it belonged to; and no claim comes before its schedule.
  `HistoryAssumption` says which logs there are: commands have their types, an
  identifier is made for one claim or attempt (`ulid.Make`), and a claim comes
  after the creation of its schedule, because a worker claims what it has read. The
  histories of the run satisfy it. `ReplicasTypes` follows too.
- **Pages, supervisor** (`NodeProofs`). `WalkIsExact`: no row twice, none that stayed is missed, for
  every set of keys and every limit. The invariant adds what the loop has done so far:
  the rows of this page and of the pages before lie before the key it is at, and every
  row that stayed and was not returned lies at or after that key, or after the cursor
  between pages. `OneWorkerPerNode`: one worker at a time, and Raft and the database are not
  closed under a live one unless `Shutdown` gave up waiting, for any number of changes of
  leadership and failing workers. The invariant says that only the worker whose cancel
  function the supervisor holds may be live, that a supervisor that has returned has left
  none, and that a `Shutdown` that did not give up has seen it return. `NodeTypes` is the type of the three parts of `MCNode`.
- **Reads** (`LeaderReadsProofs`). `LeaderReadsAreFresh`: for any number of nodes, readers,
  terms and entries, without any assumption on timing. Neither property is inductive:
  a reader that has passed the barrier must know something about entries that are
  committed later. The invariant says that entries carry the terms of leaders; that a
  candidate who can still win has a later term than every entry; that a barrier of term
  b *seals* (every entry of an earlier term is within its index) and *closes* (no leader
  to come commits under an earlier term) the terms before b; and that what clients were
  told is in the leader's database or belongs to earlier terms. The theorem has
  `CaughtUp` besides `FreshReads`: what a barrier once per term is for. The mutex plays no part
  in it: it only saves barriers.
- **Rate limiter** (`LimiterProofs`). `RateRespected`, `BudgetsAreOwn`, `RetryAfterRespected`,
  for every rate, burst, set of identities and number of handlers that are between their
  lookup of the bucket and their take at the same time. The
  invariant keeps an account for every grant: the grants from it on, with the tokens
  left, were in the bucket then or have come in since. For budgets it adds the converse:
  the bucket was full at some time, and what has left it since went to its own
  credential's grants. `BudgetsAreOwn` has no assumption on the names of tenants; its
  exception is the one that `OwnBudget` states.
- **API** (`APIProofs`). `AnswersAreDefinite`, `ShownKeysWork`, `KeysOpenOwnTenant`, `APITypes`, for
  any cluster, requests and consistent initial database. The invariant says of each request
  what its place implies: that it proposes for its own tenant only, what its answer says
  about the database, which keys it has shown. It says of a deposed leader's database
  that its tenants have the same keys in the log's. `CommandProofs` gives what every
  command does to tenants.

Only model-checked: `CatchUpAllComplete` and the properties of `RunSequence` (they relate
what the arithmetic of the calendar returns to all instants between, by induction along
the slots), the safety properties of `Scheduler` (the refinement included), and
`BacksOffInRange`, which is about a power. `MCTypeOK` is the conjunction of two types
that are proved apart. All liveness properties are only model-checked, because the prover
has no rules for fairness and `ENABLED`.

## Not modelled

- `internal/config` and the part of `main` that reads it: values are read once and do not
  change. `api.Start`, `api.Shutdown`: the work is `net/http`'s.
- `runTimeout`: nothing in the code queues a timeout task. The command it would send is
  in `Commands` and `StateMachine`.
- Liveness of `Scheduler` with two executions, and a task channel that is full while the
  worker's context ends: the instances are beyond what TLC checks in minutes.
- Clients other than pause, resume and cancel in `Scheduler`: `update_schedule` has no
  endpoint, and creation precedes the run.
- A panic in a task or in recovery, which the code turns into an error or a log line.
- Bodies of requests, responses and callbacks, headers apart from the reserved ones,
  logging, JSON.
- The rounding of floating-point numbers in the rate limiter, the backoff and the interval
  cadence.
- Clocks that disagree, except for their effect on ULIDs (`Scheduler`) and on the times in
  the commands (`StateMachine`).
- Fractions of a second in `first_run_at`: the code truncates them, and nothing in the
  repository says what they should mean.
