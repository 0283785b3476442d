------------------------------ MODULE Replicas ------------------------------
(***************************************************************************)
(* The replicas of the state machine: each node applies the committed log  *)
(* to its own scheduler.db, takes snapshots, installs the snapshot of a    *)
(* peer, crashes and starts again.                                         *)
(*                                                                         *)
(* Raft (an external library) is reduced to what its FSM interface shows:  *)
(* one committed log, entries handed to Apply in log order, and at start   *)
(* the newest local snapshot handed to Restore before any entry after it.  *)
(* The index up to which Raft has applied is kept in memory only, so it    *)
(* falls back to the snapshot's at every start, or to 0 without one, while *)
(* scheduler.db keeps whatever was committed to it.                        *)
(***************************************************************************)
EXTENDS Consistency, Sequences

CONSTANTS
  Entries,      \* log entries [cmd, proposedAt]
  Histories,    \* the logs that may come to be committed
  MaxStarts     \* how often nodes may be started again

----------------------------------------------------------------------------
(* The logs that handlers and workers make.                                 *)

\* The fields of a command have their types.
CommandOK(c) ==
  CASE c.type = "create_tenant" -> c.id \in Tenants /\ c.apiKeyHash \in KeyHashes
    [] c.type = "create_schedule" ->
         /\ c.tenant \in Tenants /\ c.id \in ScheduleIds
         /\ c.scheduleType \in STRING /\ c.firstRunAt \in Int
         /\ c.recurrence \in Recurrences \cup {Nil} /\ c.timezone \in STRING
         /\ c.catchUpPolicy \in STRING /\ c.callbackURL \in CallbackURLs
         /\ c.headers \in SUBSET HeaderKeys
         /\ c.maxAttempts \in Int /\ c.callTimeout \in Int \cup {Nil}
    [] c.type = "update_schedule" ->
         /\ c.tenant \in Tenants /\ c.id \in ScheduleIds
         /\ c.callbackURL \in CallbackURLs \cup {Nil}
         /\ c.headers \in (SUBSET HeaderKeys) \cup {Nil}
         /\ c.maxAttempts \in Int \cup {Nil} /\ c.callTimeout \in Int \cup {Nil}
    [] c.type \in {"pause_schedule", "cancel_schedule", "resume_schedule"} ->
         c.tenant \in Tenants /\ c.id \in ScheduleIds
    [] c.type = "claim_execution" ->
         /\ c.tenant \in Tenants /\ c.schedule \in ScheduleIds /\ c.id \in ExecutionIds
         /\ c.scheduledFor \in Int /\ c.owner \in Nodes
    [] c.type = "adopt_execution" ->
         c.tenant \in Tenants /\ c.execution \in ExecutionIds /\ c.newOwner \in Nodes
    [] c.type = "record_attempt" ->
         /\ c.tenant \in Tenants /\ c.execution \in ExecutionIds /\ c.id \in AttemptIds
         /\ c.node \in Nodes /\ c.outcome \in Outcomes /\ c.retryAt \in Int \cup {Nil}
    [] c.type \in {"complete_execution", "fail_execution_timeout"} ->
         /\ c.tenant \in Tenants /\ c.execution \in ExecutionIds
         /\ c.finalOutcome \in FinalOutcomes
    [] OTHER -> FALSE

\* The command c claims execution id of t for an occurrence, or records attempt
\* id of t for an execution.
Claims(c, t, id, schedule, scheduledFor) ==
  /\ c.type = "claim_execution" /\ c.tenant = t /\ c.id = id
  /\ c.schedule = schedule /\ c.scheduledFor = scheduledFor

Records(c, t, id, execution) ==
  c.type = "record_attempt" /\ c.tenant = t /\ c.id = id /\ c.execution = execution

\* The command c creates schedule id of t, unless it exists.
Creates(c, t, id) ==
  /\ c.type = "create_schedule" /\ c.tenant = t /\ c.id = id
  /\ ApplyCreateSchedule(EmptyDB, c).err = "none"

\* ulid.Make: an identifier is used for one execution and one attempt only.
\* A worker claims what it has found in the database, so the entry that has
\* created the schedule is before the claim.
HistoryOK(h) ==
  /\ \A k \in 1..Len(h) : CommandOK(h[k].cmd) /\ h[k].proposedAt \in Int
  /\ \A j, k \in 1..Len(h) :
       LET c == h[j].cmd
           d == h[k].cmd
       IN  /\ c.type = "claim_execution" /\ d.type = "claim_execution" =>
                (c.tenant = d.tenant /\ c.id = d.id =>
                   c.schedule = d.schedule /\ c.scheduledFor = d.scheduledFor)
           /\ c.type = "record_attempt" /\ d.type = "record_attempt" =>
                (c.tenant = d.tenant /\ c.id = d.id => c.execution = d.execution)
  /\ \A k \in 1..Len(h) : h[k].cmd.type = "claim_execution" =>
       \E j \in 1..(k - 1) : Creates(h[j].cmd, h[k].cmd.tenant, h[k].cmd.schedule)

ASSUME HistoryAssumption ==
  /\ Histories \subseteq Seq(Entries) /\ MaxStarts \in Nat
  /\ \A h \in Histories : HistoryOK(h)

----------------------------------------------------------------------------

VARIABLES
  log,        \* the committed entries
  ideal,      \* ideal[k] is the database after the first k entries
  mode,       \* node -> "up", "restoring" (in Restore) or "down"
  file,       \* node -> the content of scheduler.db
  torn,       \* node -> scheduler.db is truncated or partly written
  applied,    \* node -> index of the last entry handed to Apply
  reading,    \* node -> the snapshot taken but not yet persisted, or Nil
  snapshot,   \* node -> the newest persisted snapshot, or Nil
  replayed,   \* node -> entries have been applied to file a second time
  handle,     \* node -> RaftNode.storage refers to an open database
  starts      \* starts so far

vars == <<log, ideal, mode, file, torn, applied, reading, snapshot, replayed, handle, starts>>

Snapshots == [index : Nat, db : DB, replayed : BOOLEAN]

\* Apply: the transaction is rolled back if Dispatch returns an error.
ApplyEntry(d, entry) ==
  LET r == Dispatch(d, entry.cmd, entry.proposedAt)
  IN  IF r.err = "none" THEN r.db ELSE d

Init ==
  /\ log = <<>>
  /\ ideal = [k \in 0..0 |-> EmptyDB]
  /\ mode = [n \in Nodes |-> "up"]
  /\ file = [n \in Nodes |-> EmptyDB]
  /\ torn = [n \in Nodes |-> FALSE]
  /\ applied = [n \in Nodes |-> 0]
  /\ reading = [n \in Nodes |-> Nil]
  /\ snapshot = [n \in Nodes |-> Nil]
  /\ replayed = [n \in Nodes |-> FALSE]
  /\ handle = [n \in Nodes |-> TRUE]
  /\ starts = 0

\* RaftNode.Propose on the leader: the next entry of a history is committed.
Propose ==
  \E h \in Histories :
    LET next == Len(log) + 1
    IN  /\ next <= Len(h)
        /\ SubSeq(h, 1, Len(log)) = log
        /\ log' = Append(log, h[next])
        /\ ideal' = [k \in 0..next |-> IF k = next THEN ApplyEntry(ideal[k - 1], h[k])
                                       ELSE ideal[k]]
        /\ UNCHANGED <<mode, file, torn, applied, reading, snapshot, replayed, handle, starts>>

\* StateMachine.Apply on node n.
Apply(n) ==
  /\ mode[n] = "up"
  /\ applied[n] < Len(log)
  /\ file' = [file EXCEPT ![n] = ApplyEntry(@, log[applied[n] + 1])]
  /\ applied' = [applied EXCEPT ![n] = @ + 1]
  /\ UNCHANGED <<log, ideal, mode, torn, reading, snapshot, replayed, handle, starts>>

\* Snapshot: a read transaction is opened; Apply goes on beside it.
Snapshot(n) ==
  /\ mode[n] = "up"
  /\ reading[n] = Nil
  /\ applied[n] > 0
  /\ reading' = [reading EXCEPT ![n] =
       [index |-> applied[n], db |-> file[n], replayed |-> replayed[n]]]
  /\ UNCHANGED <<log, ideal, mode, file, torn, applied, snapshot, replayed, handle, starts>>

\* Seeded fault: what is written is the database of now under the old index.
Persist_Current(n) ==
  /\ mode[n] = "up"
  /\ reading[n] # Nil
  /\ snapshot' = [snapshot EXCEPT ![n] = [reading[n] EXCEPT !.db = file[n]]]
  /\ reading' = [reading EXCEPT ![n] = Nil]
  /\ UNCHANGED <<log, ideal, mode, file, torn, applied, replayed, handle, starts>>

\* Persist and Release: the database as the transaction sees it is written to
\* the snapshot store and the transaction is closed.
Persist(n) ==
  /\ mode[n] = "up"
  /\ reading[n] # Nil
  /\ snapshot' = [snapshot EXCEPT ![n] = reading[n]]
  /\ reading' = [reading EXCEPT ![n] = Nil]
  /\ UNCHANGED <<log, ideal, mode, file, torn, applied, replayed, handle, starts>>

\* Raft stores a newer snapshot of a peer and hands it to Restore, which
\* waits for the open transaction, closes the database and truncates it.
InstallSnapshot(n, m) ==
  /\ mode[n] = "up"
  /\ reading[n] = Nil
  /\ snapshot[m] # Nil
  /\ snapshot[m].index > applied[n]
  /\ snapshot' = [snapshot EXCEPT ![n] = snapshot[m]]
  /\ mode' = [mode EXCEPT ![n] = "restoring"]
  /\ torn' = [torn EXCEPT ![n] = TRUE]
  /\ handle' = [handle EXCEPT ![n] = FALSE]
  /\ UNCHANGED <<log, ideal, file, applied, reading, replayed, starts>>

\* Seeded fault: the first entry after the snapshot is taken for applied.
Restored_SkipsEntry(n) ==
  /\ mode[n] = "restoring"
  /\ mode' = [mode EXCEPT ![n] = "up"]
  /\ file' = [file EXCEPT ![n] = snapshot[n].db]
  /\ torn' = [torn EXCEPT ![n] = FALSE]
  /\ applied' = [applied EXCEPT ![n] = snapshot[n].index + 1]
  /\ replayed' = [replayed EXCEPT ![n] = snapshot[n].replayed]
  /\ UNCHANGED <<log, ideal, reading, snapshot, handle, starts>>

\* Restore has copied the snapshot, opened the copy and put it in place of
\* the state machine's database; RaftNode.storage stays the closed one.
Restored(n) ==
  /\ mode[n] = "restoring"
  /\ mode' = [mode EXCEPT ![n] = "up"]
  /\ file' = [file EXCEPT ![n] = snapshot[n].db]
  /\ torn' = [torn EXCEPT ![n] = FALSE]
  /\ applied' = [applied EXCEPT ![n] = snapshot[n].index]
  /\ replayed' = [replayed EXCEPT ![n] = snapshot[n].replayed]
  /\ UNCHANGED <<log, ideal, reading, snapshot, handle, starts>>

\* A crash loses the open transaction and whatever Restore has not written.
Crash(n) ==
  /\ mode[n] # "down"
  /\ mode' = [mode EXCEPT ![n] = "down"]
  /\ reading' = [reading EXCEPT ![n] = Nil]
  /\ UNCHANGED <<log, ideal, file, torn, applied, snapshot, replayed, handle, starts>>

\* node.New without a snapshot: scheduler.db is opened as it is, and Raft
\* will apply the log to it from the first entry.
StartFromFile(n) ==
  /\ mode[n] = "down"
  /\ snapshot[n] = Nil
  /\ starts < MaxStarts
  /\ starts' = starts + 1
  /\ mode' = [mode EXCEPT ![n] = "up"]
  /\ applied' = [applied EXCEPT ![n] = 0]
  /\ replayed' = [replayed EXCEPT ![n] = @ \/ applied[n] > 0]
  /\ handle' = [handle EXCEPT ![n] = TRUE]
  /\ UNCHANGED <<log, ideal, file, torn, reading, snapshot>>

\* node.New with a snapshot: RaftNode gets the database that was opened
\* first, and NewRaft has Restore replace it before it returns.
StartFromSnapshot(n) ==
  /\ mode[n] = "down"
  /\ snapshot[n] # Nil
  /\ starts < MaxStarts
  /\ starts' = starts + 1
  /\ mode' = [mode EXCEPT ![n] = "restoring"]
  /\ torn' = [torn EXCEPT ![n] = TRUE]
  /\ handle' = [handle EXCEPT ![n] = FALSE]
  /\ UNCHANGED <<log, ideal, file, applied, reading, snapshot, replayed>>

\* A torn file may be no bbolt database at all: then New returns the error of
\* bolt.Open before Raft gets to the snapshot, and the node stays down.
StartFails(n) ==
  /\ mode[n] = "down"
  /\ torn[n]
  /\ starts < MaxStarts
  /\ starts' = starts + 1
  /\ UNCHANGED <<log, ideal, mode, file, torn, applied, reading, snapshot, replayed, handle>>

Next ==
  \/ Propose
  \/ \E n \in Nodes :
       \/ Apply(n)
       \/ Snapshot(n)
       \/ Persist(n)
       \/ \E m \in Nodes : InstallSnapshot(n, m)
       \/ Restored(n)
       \/ Crash(n)
       \/ StartFromFile(n)
       \/ StartFromSnapshot(n)
       \/ StartFails(n)

Spec == Init /\ [][Next]_vars

----------------------------------------------------------------------------
(* Properties.                                                              *)

\* Every variable has its type.
TypeOK ==
  /\ log \in Seq(Entries)
  /\ ideal \in [0..Len(log) -> DB]
  /\ mode \in [Nodes -> {"up", "restoring", "down"}]
  /\ file \in [Nodes -> DB]
  /\ torn \in [Nodes -> BOOLEAN]
  /\ applied \in [Nodes -> 0..Len(log)]
  /\ reading \in [Nodes -> Snapshots \cup {Nil}]
  /\ snapshot \in [Nodes -> Snapshots \cup {Nil}]
  /\ replayed \in [Nodes -> BOOLEAN]
  /\ handle \in [Nodes -> BOOLEAN]
  /\ starts \in 0..MaxStarts

\* No replica goes to work on a database that a Restore has half written, and
\* one that has not been through a replay holds exactly the database that the
\* log determines at its index, across snapshots taken beside Apply, snapshots
\* of peers, crashes in the middle of a Restore and starts from a snapshot.
FollowsLog ==
  \A n \in Nodes : mode[n] = "up" =>
    ~ torn[n] /\ (~ replayed[n] => file[n] = ideal[applied[n]])

\* Replaying the log over a database that already holds its effects creates
\* no second execution for an occurrence, leaves no execution without its
\* schedule or owner, and keeps the indexes right, on every replica.
ReplayKeepsClaims ==
  \A n \in Nodes :
    ~ torn[n] => /\ IndexesMirror(file[n])
                 /\ OccurrencesUnique(file[n])
                 /\ ExecutionsOwned(file[n])

\* Replicas that have applied the whole log hold the same database: "so
\* replicas can never disagree about what already happened" (README.md:3).
ReplicasAgree ==
  LET current == {n \in Nodes : mode[n] = "up" /\ applied[n] = Len(log)}
  IN  \A n, m \in current : file[n] = file[m]

\* A node that is up can read its database, as the recovery of "any in-flight
\* executions left behind by the previous leader" (README.md:131) has to.
UpNodeCanRead == \A n \in Nodes : mode[n] = "up" => handle[n]
=============================================================================
