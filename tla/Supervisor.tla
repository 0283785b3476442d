----------------------------- MODULE Supervisor -----------------------------
(***************************************************************************)
(* internal/scheduler/supervisor.go and scheduler.go: the loop that starts *)
(* a worker when its node becomes leader and stops it when it no longer    *)
(* is, and the shutdown of the node around it.                             *)
(*                                                                         *)
(* Raft (external) announces every change of leadership on a channel of    *)
(* capacity one and goes on only when the announcement is in the channel.  *)
(* While it waits it takes no proposals, so there is a cycle to be broken: *)
(* Raft waits for the supervisor to receive, the supervisor for its worker *)
(* to return, the worker for Raft to take its proposal.                    *)
(***************************************************************************)
EXTENDS Naturals, Sequences, FiniteSets

CONSTANTS
  MaxChanges,    \* changes of leadership
  MaxFailures    \* workers that return an error on a node that is leader

ASSUME BoundsAssumption == MaxChanges \in Nat /\ MaxFailures \in Nat

VARIABLES
  role,        \* raft.State(): "leader" or "follower"
  notice,      \* the announcement Raft is waiting to send: a role, or "none"
  notifyCh,    \* the channel
  changes,     \* changes of leadership so far
  sv,          \* Supervisor.Run is in "select", "stop" or "drain", or has "returned"
  current,     \* the worker sv.cancel belongs to, 0 if it is nil
  worker,      \* what each worker is doing, in the order they were started
  canceled,    \* the workers that sv.cancel was called for
  failures,    \* failed workers so far
  node,        \* "up", "signaled", "scheduler stopped", "raft stopped" or "down"
  timedOut     \* Scheduler.Shutdown gave up

leadershipVars == <<role, notice, notifyCh, changes>>
workerVars == <<worker, canceled, failures>>
nodeVars == <<node, timedOut>>
supervisorVars == <<leadershipVars, sv, current, workerVars, nodeVars>>

\* A worker is in Run, is waiting for a proposal, is on its way out after the
\* last proposal that was made when its context was canceled, or is done.
WorkerStates == {"running", "proposing", "leaving", "returned"}

SupervisorInit ==
  /\ role = "follower" /\ notice = "none" /\ notifyCh = <<>> /\ changes = 0
  /\ sv = "select" /\ current = 0
  /\ worker = <<>> /\ canceled = {} /\ failures = 0
  /\ node = "up" /\ timedOut = FALSE

RaftUp == node \notin {"raft stopped", "down"}

\* The context of worker i is done: the supervisor canceled it, or the signal
\* canceled the context that it derives from.
Done(i) == i \in canceled \/ node # "up"

Live == {i \in DOMAIN worker : worker[i] # "returned"}

----------------------------------------------------------------------------
(* Raft.                                                                    *)

\* Leadership is won or lost; the announcement comes before anything else.
ChangeRole ==
  /\ RaftUp /\ notice = "none"
  /\ changes < MaxChanges
  /\ changes' = changes + 1
  /\ role' = IF role = "leader" THEN "follower" ELSE "leader"
  /\ notice' = role'
  /\ UNCHANGED <<notifyCh, sv, current, workerVars, nodeVars>>

\* Seeded fault: the channel has room for more than one announcement.
Announce_Unbounded ==
  /\ notice # "none"
  /\ notifyCh' = Append(notifyCh, notice)
  /\ notice' = "none"
  /\ UNCHANGED <<role, changes, sv, current, workerVars, nodeVars>>

Announce ==
  /\ notice # "none"
  /\ notifyCh = <<>>
  /\ notifyCh' = <<notice>>
  /\ notice' = "none"
  /\ UNCHANGED <<role, changes, sv, current, workerVars, nodeVars>>

----------------------------------------------------------------------------
(* Supervisor.Run.                                                          *)

startWorker ==
  IF current # 0 THEN UNCHANGED <<worker, current>>
  ELSE /\ worker' = Append(worker, "running")
       /\ current' = Len(worker) + 1

BecameLeader ==
  /\ sv = "select"
  /\ notifyCh = <<"leader">>
  /\ notifyCh' = <<>>
  /\ startWorker
  /\ UNCHANGED <<role, notice, changes, sv, canceled, failures, nodeVars>>

\* stopWorker up to the wait.
LostLeadership ==
  /\ sv = "select"
  /\ notifyCh = <<"follower">>
  /\ notifyCh' = <<>>
  /\ IF current = 0 THEN UNCHANGED <<canceled, sv>>
     ELSE canceled' = canceled \cup {current} /\ sv' = "stop"
  /\ UNCHANGED <<role, notice, changes, current, worker, failures, nodeVars>>

\* Seeded fault: stopWorker does not wait for the worker.
Stopped_Early ==
  /\ sv = "stop"
  /\ sv' = "select"
  /\ current' = 0
  /\ UNCHANGED <<leadershipVars, workerVars, nodeVars>>

\* stopWorker after the wait.
Stopped ==
  /\ sv = "stop"
  /\ Live = {}
  /\ sv' = "select"
  /\ current' = 0
  /\ UNCHANGED <<leadershipVars, workerVars, nodeVars>>

\* Seeded fault: the context is looked at only while no worker is running.
ContextDone_WhenIdle ==
  /\ sv = "select"
  /\ node # "up"
  /\ current = 0
  /\ sv' = "returned"
  /\ UNCHANGED <<leadershipVars, current, workerVars, nodeVars>>

ContextDone ==
  /\ sv = "select"
  /\ node # "up"
  /\ IF current = 0 THEN sv' = "returned" /\ UNCHANGED canceled
     ELSE sv' = "drain" /\ canceled' = canceled \cup {current}
  /\ UNCHANGED <<leadershipVars, current, worker, failures, nodeVars>>

Drained ==
  /\ sv = "drain"
  /\ Live = {}
  /\ sv' = "returned"
  /\ UNCHANGED <<leadershipVars, current, workerVars, nodeVars>>

----------------------------------------------------------------------------
(* A worker, as far as the supervisor and Raft can tell.                    *)

\* A task whose callback has been answered records the attempt even if the
\* context is done by then; after that it looks at the context and leaves.
Propose(i) ==
  /\ worker[i] = "running"
  /\ worker' = [worker EXCEPT ![i] = "proposing"]
  /\ UNCHANGED <<leadershipVars, sv, current, canceled, failures, nodeVars>>

Proposed(i) == worker' = [worker EXCEPT ![i] = IF Done(i) THEN "leaving" ELSE "running"]

\* Raft's loop has taken the proposal and answers it, with an error if the
\* node is not the leader or Raft has been shut down.
Answer(i) ==
  /\ worker[i] = "proposing"
  /\ notice = "none"
  /\ Proposed(i)
  /\ UNCHANGED <<leadershipVars, sv, current, canceled, failures, nodeVars>>

\* Seeded fault: Propose waits for as long as it takes.
ProposeTimesOut_Never(i) == FALSE /\ UNCHANGED supervisorVars

\* proposeTimeout is over before Raft's loop has taken the proposal.
ProposeTimesOut(i) ==
  /\ worker[i] = "proposing"
  /\ notice # "none"
  /\ Proposed(i)
  /\ UNCHANGED <<leadershipVars, sv, current, canceled, failures, nodeVars>>

\* Run sees that its context is done, or that a read fails because the node
\* is not the leader.
Return(i) ==
  /\ worker[i] \in {"running", "leaving"}
  /\ Done(i) \/ role = "follower"
  /\ worker' = [worker EXCEPT ![i] = "returned"]
  /\ UNCHANGED <<leadershipVars, sv, current, canceled, failures, nodeVars>>

\* Run returns an error on the leader: the barrier before a read or a proposal
\* of the recovery times out.
Fail(i) ==
  /\ worker[i] = "running"
  /\ ~ Done(i) /\ role = "leader"
  /\ failures < MaxFailures
  /\ failures' = failures + 1
  /\ worker' = [worker EXCEPT ![i] = "returned"]
  /\ UNCHANGED <<leadershipVars, sv, current, canceled, nodeVars>>

----------------------------------------------------------------------------
(* main and Node.Shutdown.                                                  *)

\* The signal context is canceled, and with it the contexts derived from it.
Signal ==
  /\ node = "up"
  /\ node' = "signaled"
  /\ UNCHANGED <<leadershipVars, sv, current, workerVars, timedOut>>

\* Scheduler.Shutdown returns when the supervisor has.
SchedulerStops ==
  /\ node = "signaled"
  /\ sv = "returned"
  /\ node' = "scheduler stopped"
  /\ UNCHANGED <<leadershipVars, sv, current, workerVars, timedOut>>

\* Scheduler.Shutdown returns because the shutdown context has expired.
SchedulerTimesOut ==
  /\ node = "signaled"
  /\ sv # "returned"
  /\ node' = "scheduler stopped"
  /\ timedOut' = TRUE
  /\ UNCHANGED <<leadershipVars, sv, current, workerVars>>

\* RaftNode.Shutdown: Raft's loop ends and gives up the announcement.
RaftStops ==
  /\ node = "scheduler stopped"
  /\ node' = "raft stopped"
  /\ role' = "follower"
  /\ notice' = "none"
  /\ UNCHANGED <<notifyCh, changes, sv, current, workerVars, timedOut>>

\* StateMachine.Shutdown closes the database, whoever may still use it.
StorageCloses ==
  /\ node = "raft stopped"
  /\ node' = "down"
  /\ UNCHANGED <<leadershipVars, sv, current, workerVars, timedOut>>

----------------------------------------------------------------------------
\* What the code and the runtime go on to do by themselves.
Steps ==
  \/ Announce
  \/ BecameLeader \/ LostLeadership \/ Stopped \/ ContextDone \/ Drained
  \/ SchedulerStops \/ SchedulerTimesOut \/ RaftStops \/ StorageCloses

WorkerSteps(i) == Answer(i) \/ ProposeTimesOut(i) \/ Return(i)

SupervisorNext ==
  \/ Steps
  \/ \E i \in DOMAIN worker : WorkerSteps(i) \/ Propose(i) \/ Fail(i)
  \/ ChangeRole
  \/ Signal

SupervisorSafety == SupervisorInit /\ [][SupervisorNext]_supervisorVars

\* The goroutines of the node are scheduled; nothing makes leadership change,
\* a worker propose or fail, or the process receive a signal.  At most one
\* worker is started per change of leadership.
SupervisorFairness ==
  /\ WF_supervisorVars(Announce)
  /\ WF_supervisorVars(BecameLeader \/ LostLeadership \/ Stopped \/ ContextDone \/ Drained)
  /\ WF_supervisorVars(SchedulerStops \/ SchedulerTimesOut \/ RaftStops \/ StorageCloses)
  /\ \A i \in 1..MaxChanges : WF_supervisorVars(i \in DOMAIN worker /\ WorkerSteps(i))

----------------------------------------------------------------------------
(* Properties.                                                              *)

\* Every variable has its type.
SupervisorTypeOK ==
  /\ role \in {"leader", "follower"}
  /\ notice \in {"leader", "follower", "none"}
  /\ notifyCh \in {<<>>, <<"leader">>, <<"follower">>}
  /\ changes \in 0..MaxChanges
  /\ sv \in {"select", "stop", "drain", "returned"}
  /\ current \in 0..Len(worker)
  /\ worker \in Seq(WorkerStates)
  /\ canceled \subseteq DOMAIN worker
  /\ failures \in 0..MaxFailures
  /\ node \in {"up", "signaled", "scheduler stopped", "raft stopped", "down"}
  /\ timedOut \in BOOLEAN

\* However fast leadership comes and goes, a node has one worker at a time:
\* the next one starts only after the last task of the one before is done.
\* It has none when Raft and the database are closed, unless Scheduler.Shutdown
\* gave up waiting for it.
OneWorker ==
  /\ Cardinality(Live) <= 1
  /\ node \in {"raft stopped", "down"} /\ ~ timedOut => Live = {}

\* The worker ends up following leadership: once Raft settles, it is not
\* waiting, a leader has a worker whose context is not done, and on a follower
\* every worker has returned.  So the wait of Raft for the channel, of the
\* supervisor for the worker and of the worker for Raft does not last, and no
\* announcement is lost.  A leader whose worker has failed is left out.
WorkerFollowsLeadership ==
  LET settled == /\ notice = "none"
                 /\ role = "leader" => \E i \in Live : ~ Done(i)
                 /\ role = "follower" => Live = {}
  IN  <>[](node # "up" \/ failures > 0 \/ settled)

\* Shutting down comes to an end, and the supervisor returns, whatever the
\* worker is waiting for and even if Scheduler.Shutdown has given up on it.
ShutdownEnds == (node = "signaled") ~> (node = "down" /\ sv = "returned")
=============================================================================
