--------------------------- MODULE ReplicaProofs ---------------------------
(***************************************************************************)
(* The replicas, for any set of nodes, any histories that handlers and     *)
(* workers can make and any number of starts.  A replica that is not taken *)
(* through a replay follows the log: the argument depends on nothing but   *)
(* the commands being functions of the database and the entry.  A replica  *)
(* that is replayed keeps its claims: there the argument is about what     *)
(* every command does to a database that holds later effects already.      *)
(***************************************************************************)
EXTENDS Replicas, CommandProofs

\* A leaf may take the provers half a minute.
USE SMTT(30), ZenonT(30)

\* A snapshot holds the database of its index, unless a replay went into it.
Sound(s) ==
  /\ s.index \in 0..Len(log)
  /\ s.replayed \in BOOLEAN
  /\ ~ s.replayed => s.db = ideal[s.index]

\* What the log determines, step by step.
IdealOK ==
  /\ log \in Seq(Entries)
  /\ DOMAIN ideal = 0..Len(log)
  /\ ideal[0] = EmptyDB
  /\ \A k \in 1..Len(log) : ideal[k] = ApplyEntry(ideal[k - 1], log[k])

Shape ==
  /\ mode \in [Nodes -> {"up", "restoring", "down"}]
  /\ file = [n \in Nodes |-> file[n]]
  /\ torn \in [Nodes -> BOOLEAN]
  /\ applied \in [Nodes -> Nat]
  /\ reading = [n \in Nodes |-> reading[n]]
  /\ snapshot = [n \in Nodes |-> snapshot[n]]
  /\ replayed \in [Nodes -> BOOLEAN]

\* What holds of a single node.  A file is torn outside "up" only, and what a
\* node needs to restore it is in its snapshot store.
NodeOK(n) ==
  /\ applied[n] <= Len(log)
  /\ reading[n] # Nil => Sound(reading[n])
  /\ snapshot[n] # Nil => Sound(snapshot[n])
  /\ mode[n] = "restoring" => torn[n]
  /\ torn[n] => snapshot[n] # Nil /\ mode[n] # "up"
  /\ ~ torn[n] /\ ~ replayed[n] => file[n] = ideal[applied[n]]

RInv == IdealOK /\ Shape /\ \A n \in Nodes : NodeOK(n)

\* The replicas start in step with the empty log.
LEMMA InitRInv == Init => RInv
<1> SUFFICES ASSUME Init PROVE RInv
  OBVIOUS
<1>1. IdealOK
  BY DEF Init, IdealOK
<1>2. Shape
  BY DEF Init, Shape
<1>3. ASSUME NEW n \in Nodes PROVE NodeOK(n)
  BY DEF Init, NodeOK
<1> QED
  BY <1>1, <1>2, <1>3 DEF RInv

\* Committing an entry changes nothing about the indexes before it.
LEMMA ProposeRInv ==
  ASSUME RInv, Propose
  PROVE  RInv'
<1>1. PICK h \in Histories :
        /\ Len(log) + 1 <= Len(h)
        /\ log' = Append(log, h[Len(log) + 1])
        /\ ideal' = [k \in 0..(Len(log) + 1) |->
                       IF k = Len(log) + 1 THEN ApplyEntry(ideal[k - 1], h[k]) ELSE ideal[k]]
        /\ UNCHANGED <<mode, file, torn, applied, reading, snapshot, replayed, handle, starts>>
  BY DEF Propose
<1>2. h \in Seq(Entries) /\ log \in Seq(Entries)
  BY HistoryAssumption DEF RInv, IdealOK
<1>3. /\ log' \in Seq(Entries)
      /\ Len(log') = Len(log) + 1
      /\ Len(log) \in Nat
      /\ log'[Len(log) + 1] = h[Len(log) + 1]
      /\ \A k \in 1..Len(log) : log'[k] = log[k]
  BY <1>1, <1>2
<1>4. \A k \in 0..Len(log) : ideal'[k] = ideal[k]
  BY <1>1, <1>3
<1>5. IdealOK'
  <2>1. DOMAIN ideal' = 0..Len(log') /\ ideal'[0] = EmptyDB
    BY <1>1, <1>3, <1>4 DEF RInv, IdealOK
  <2>2. ASSUME NEW k \in 1..Len(log')
        PROVE  ideal'[k] = ApplyEntry(ideal'[k - 1], log'[k])
    <3>1. CASE k = Len(log) + 1
      BY <1>1, <1>3, <1>4, <3>1
    <3>2. CASE k \in 1..Len(log)
      <4>1. k \in 0..Len(log) /\ k - 1 \in 0..Len(log)
        BY <1>3, <3>2
      <4> QED
        BY <1>3, <1>4, <3>2, <4>1 DEF RInv, IdealOK
    <3> QED
      BY <1>3, <3>1, <3>2
  <2> QED
    BY <1>3, <2>1, <2>2 DEF IdealOK
<1>6. Shape'
  BY <1>1 DEF RInv, Shape
<1>7. ASSUME NEW s, Sound(s) PROVE Sound(s)'
  BY <1>3, <1>4, <1>7 DEF Sound
<1>8. ASSUME NEW n \in Nodes PROVE NodeOK(n)'
  <2>1. NodeOK(n) /\ applied[n] \in Nat
    BY DEF RInv, Shape
  <2>2. applied[n] \in 0..Len(log)
    BY <1>3, <2>1 DEF NodeOK
  <2> QED
    BY <1>1, <1>3, <1>4, <1>7, <2>1, <2>2 DEF NodeOK
<1> QED
  BY <1>5, <1>6, <1>8 DEF RInv

\* The other actions leave the log alone and touch one node.
LEMMA LocalRInv ==
  ASSUME RInv, UNCHANGED <<log, ideal>>, Shape', NEW n \in Nodes, NodeOK(n)',
         \A m \in Nodes \ {n} :
           /\ mode'[m] = mode[m]
           /\ file'[m] = file[m]
           /\ torn'[m] = torn[m]
           /\ applied'[m] = applied[m]
           /\ reading'[m] = reading[m]
           /\ snapshot'[m] = snapshot[m]
           /\ replayed'[m] = replayed[m]
  PROVE  RInv'
<1>1. IdealOK'
  BY DEF RInv, IdealOK
<1>2. ASSUME NEW m \in Nodes \ {n} PROVE NodeOK(m)'
  BY <1>2 DEF RInv, NodeOK, Sound
<1> QED
  BY <1>1, <1>2 DEF RInv

\* Applying the next entry keeps a replica in step with the log.
LEMMA ApplyRInv ==
  ASSUME RInv, NEW n \in Nodes, Apply(n)
  PROVE  RInv'
<1> DEFINE next == applied[n] + 1
<1>1. /\ mode[n] = "up" /\ NodeOK(n)
      /\ Len(log) \in Nat
      /\ next \in 1..Len(log) /\ next - 1 = applied[n] /\ next \in Nat
      /\ file' = [file EXCEPT ![n] = ApplyEntry(file[n], log[next])]
      /\ applied' = [applied EXCEPT ![n] = next]
      /\ UNCHANGED <<log, ideal, mode, torn, reading, snapshot, replayed, handle, starts>>
  <2>1. applied[n] \in Nat /\ Len(log) \in Nat /\ NodeOK(n)
    BY DEF RInv, IdealOK, Shape
  <2>2. mode[n] = "up" /\ applied[n] < Len(log)
    BY DEF Apply
  <2>3. next \in 1..Len(log) /\ next - 1 = applied[n] /\ next \in Nat
    BY <2>1, <2>2
  <2> QED
    BY <2>1, <2>2, <2>3, Zenon DEF Apply
<1> HIDE DEF next
<1>2. /\ file' = [m \in Nodes |-> file'[m]]
      /\ file'[n] = ApplyEntry(file[n], log[next])
      /\ \A m \in Nodes \ {n} : file'[m] = file[m]
  BY <1>1, Zenon DEF RInv, Shape
<1>3. /\ applied' \in [Nodes -> Nat]
      /\ applied'[n] = next
      /\ \A m \in Nodes \ {n} : applied'[m] = applied[m]
  BY <1>1 DEF RInv, Shape
<1>4. Shape'
  BY <1>1, <1>2, <1>3 DEF RInv, Shape
<1>5. ideal[next] = ApplyEntry(ideal[applied[n]], log[next])
  BY <1>1 DEF RInv, IdealOK
<1>6. NodeOK(n)'
  BY <1>1, <1>2, <1>3, <1>5 DEF NodeOK, Sound
<1> QED
  BY <1>1, <1>2, <1>3, <1>4, <1>6, LocalRInv

\* The transaction that Snapshot opens sees the database of its index.
LEMMA SnapshotRInv ==
  ASSUME RInv, NEW n \in Nodes, Snapshot(n)
  PROVE  RInv'
<1>1. Shape'
  BY Zenon DEF RInv, Shape, Snapshot
<1>2. NodeOK(n)'
  BY DEF RInv, Shape, NodeOK, Sound, IdealOK, Snapshot
<1> QED
  BY <1>1, <1>2, LocalRInv, SMTT(30) DEF RInv, Shape, Snapshot

\* Persist stores what that transaction saw.
LEMMA PersistRInv ==
  ASSUME RInv, NEW n \in Nodes, Persist(n)
  PROVE  RInv'
<1>1. Shape'
  BY Zenon DEF RInv, Shape, Persist
<1>2. NodeOK(n)'
  BY DEF RInv, Shape, NodeOK, Sound, IdealOK, Persist
<1> QED
  BY <1>1, <1>2, LocalRInv, Zenon DEF RInv, Shape, Persist

\* A snapshot of a peer is sound here too.
LEMMA InstallSnapshotRInv ==
  ASSUME RInv, NEW n \in Nodes, NEW m \in Nodes, InstallSnapshot(n, m)
  PROVE  RInv'
<1>1. Shape'
  BY DEF RInv, Shape, InstallSnapshot
<1>2. NodeOK(n)'
  BY DEF RInv, Shape, NodeOK, Sound, IdealOK, InstallSnapshot
<1> QED
  BY <1>1, <1>2, LocalRInv, Zenon DEF RInv, Shape, InstallSnapshot

\* Restore leaves the database of the snapshot at its index.
LEMMA RestoredRInv ==
  ASSUME RInv, NEW n \in Nodes, Restored(n)
  PROVE  RInv'
<1>1. Shape'
  <2>1. snapshot[n].index \in Nat /\ snapshot[n].replayed \in BOOLEAN
    BY DEF RInv, IdealOK, NodeOK, Sound, Restored
  <2> QED
    BY <2>1 DEF RInv, Shape, Restored
<1>2. NodeOK(n)'
  BY DEF RInv, Shape, NodeOK, Sound, IdealOK, Restored
<1> QED
  BY <1>1, <1>2, LocalRInv, Zenon DEF RInv, Shape, Restored

\* A crash loses no more than the open transaction.
LEMMA CrashRInv ==
  ASSUME RInv, NEW n \in Nodes, Crash(n)
  PROVE  RInv'
<1>1. Shape'
  BY Zenon DEF RInv, Shape, Crash
<1>2. NodeOK(n)'
  BY DEF RInv, Shape, NodeOK, Sound, IdealOK, Crash
<1> QED
  BY <1>1, <1>2, LocalRInv DEF RInv, Shape, Crash

\* A start over a database that holds effects is recorded as a replay.
LEMMA StartFromFileRInv ==
  ASSUME RInv, NEW n \in Nodes, StartFromFile(n)
  PROVE  RInv'
<1>1. Shape'
  BY DEF RInv, Shape, StartFromFile
<1>2. NodeOK(n)'
  <2>1. ~ torn[n] /\ Len(log) \in Nat /\ applied[n] \in Nat
    BY DEF RInv, IdealOK, Shape, NodeOK, StartFromFile
  <2>2. /\ applied'[n] = 0
        /\ mode'[n] = "up"
        /\ ~ replayed'[n] => ~ replayed[n] /\ applied[n] = 0
    <3>1. replayed' = [replayed EXCEPT ![n] = replayed[n] \/ applied[n] > 0]
      BY DEF StartFromFile
    <3>2. replayed'[n] = (replayed[n] \/ applied[n] > 0)
      BY <3>1 DEF RInv, Shape
    <3>3. ~ (applied[n] > 0) => applied[n] = 0
      BY <2>1
    <3>4. applied'[n] = 0 /\ mode'[n] = "up"
      BY DEF RInv, Shape, StartFromFile
    <3> QED
      BY <3>2, <3>3, <3>4, Zenon
  <2>3. UNCHANGED <<log, ideal, file, torn, reading, snapshot>> /\ NodeOK(n)
    BY DEF RInv, StartFromFile
  <2> QED
    BY <2>1, <2>2, <2>3 DEF NodeOK, Sound
<1> QED
  BY <1>1, <1>2, LocalRInv DEF RInv, Shape, StartFromFile

\* A start with a snapshot is a Restore.
LEMMA StartFromSnapshotRInv ==
  ASSUME RInv, NEW n \in Nodes, StartFromSnapshot(n)
  PROVE  RInv'
<1>1. Shape'
  BY DEF RInv, Shape, StartFromSnapshot
<1>2. NodeOK(n)'
  BY DEF RInv, Shape, NodeOK, Sound, IdealOK, StartFromSnapshot
<1> QED
  BY <1>1, <1>2, LocalRInv, Zenon DEF RInv, Shape, StartFromSnapshot

\* A start that fails changes nothing.
LEMMA StartFailsRInv ==
  ASSUME RInv, NEW n \in Nodes, StartFails(n)
  PROVE  RInv'
<1>1. Shape'
  BY DEF RInv, Shape, StartFails
<1>2. NodeOK(n)'
  BY DEF RInv, Shape, NodeOK, Sound, IdealOK, StartFails
<1> QED
  BY <1>1, <1>2, LocalRInv DEF RInv, Shape, StartFails

\* Every step of the replicas preserves the invariant.
LEMMA NextRInv == RInv /\ [Next]_vars => RInv'
<1> SUFFICES ASSUME RInv, [Next]_vars PROVE RInv'
  OBVIOUS
<1>1. CASE UNCHANGED vars
  BY <1>1 DEF vars, RInv, IdealOK, Shape, NodeOK, Sound
<1>2. CASE Propose
  BY <1>2, ProposeRInv
<1>3. CASE \E n \in Nodes : Apply(n) \/ Snapshot(n) \/ Persist(n)
  BY <1>3, ApplyRInv, SnapshotRInv, PersistRInv
<1>4. CASE \E n \in Nodes : \E m \in Nodes : InstallSnapshot(n, m)
  BY <1>4, InstallSnapshotRInv
<1>5. CASE \E n \in Nodes : Restored(n) \/ Crash(n)
  BY <1>5, RestoredRInv, CrashRInv
<1>6. CASE \E n \in Nodes : StartFromFile(n) \/ StartFromSnapshot(n) \/ StartFails(n)
  BY <1>6, StartFromFileRInv, StartFromSnapshotRInv, StartFailsRInv
<1> QED
  BY <1>1, <1>2, <1>3, <1>4, <1>5, <1>6 DEF Next

\* RInv is an invariant of the replicas.
THEOREM ReplicaInvariance == Spec => []RInv
BY InitRInv, NextRInv, PTL DEF Spec

\* A replica that is up has a whole database, and one that was never replayed
\* over holds exactly what the log determines at its index, across snapshots,
\* Restore, crashes and starts.
THEOREM ReplicasFollowLog == Spec => []FollowsLog
<1>1. RInv => FollowsLog
  BY DEF RInv, Shape, NodeOK, FollowsLog
<1> QED
  BY <1>1, ReplicaInvariance, PTL

----------------------------------------------------------------------------
(* What a command does to a database, replayed or not.                      *)

\* What a command does to a database, when it is replayed too: rows stay, and
\* every new execution or attempt is the one of the command.
Carried(d, n, c) ==
  /\ Intact(n)
  /\ ExecutionsKept(d, n)
  /\ SchedulesKept(d, n)
  /\ \A t \in Tenants, e \in ExecutionIds : n.executions[<<t, e>>] # Nil =>
       \/ d.executions[<<t, e>>] # Nil
       \/ Claims(c, t, e, n.executions[<<t, e>>].schedule, n.executions[<<t, e>>].scheduledFor)
  /\ \A t \in Tenants, a \in AttemptIds : n.attempts[<<t, a>>] # Nil =>
       \/ n.attempts[<<t, a>>] = d.attempts[<<t, a>>]
       \/ Records(c, t, a, n.attempts[<<t, a>>].execution)

\* PutTenant and PutSchedule leave executions and attempts alone.
LEMMA OtherRowsAlone ==
  ASSUME NEW d \in DB, NEW t, NEW id, NEW row
  PROVE  /\ PutTenant(d, t, row).executions = d.executions
         /\ PutTenant(d, t, row).attempts = d.attempts
         /\ PutSchedule(d, t, id, row).executions = d.executions
         /\ PutSchedule(d, t, id, row).attempts = d.attempts
BY DEF PutTenant, PutSchedule, DB

\* PutExecution writes one row and leaves the attempts alone.
LEMMA OneRowWritten ==
  ASSUME NEW d \in DB, NEW t \in Tenants, NEW id \in ExecutionIds, NEW row
  PROVE  /\ PutExecution(d, t, id, row).attempts = d.attempts
         /\ \A u \in Tenants, j \in ExecutionIds :
              PutExecution(d, t, id, row).executions[<<u, j>>]
                = IF u = t /\ j = id THEN row ELSE d.executions[<<u, j>>]
<1>1. /\ PutExecution(d, t, id, row).attempts = d.attempts
      /\ PutExecution(d, t, id, row).executions = [d.executions EXCEPT ![<<t, id>>] = row]
      /\ DOMAIN d.executions = Tenants \X ExecutionIds
  BY DEF PutExecution, DB
<1> QED
  BY <1>1

\* A legal change that leaves executions and attempts alone carries the rows.
LEMMA LegalCarried ==
  ASSUME NEW d, NEW n, NEW c, Legal(d, n), n.attempts = d.attempts,
         \A t \in Tenants, e \in ExecutionIds :
           n.executions[<<t, e>>] # Nil => d.executions[<<t, e>>] # Nil
  PROVE  Carried(d, n, c)
BY DEF Legal, Carried

\* The commands about tenants and schedules.
LEMMA ScheduleCarried ==
  ASSUME NEW d, Intact(d), NEW c, CommandOK(c), NEW at \in Int,
         c.type \in {"create_tenant", "create_schedule", "update_schedule",
                     "pause_schedule", "cancel_schedule", "resume_schedule"},
         NEW r, r = Dispatch(d, c, at), r.err = "none"
  PROVE  Carried(d, r.db, c)
<1>1. d \in DB
  BY DEF Intact
<1>2. ASSUME Legal(d, r.db),
             r.db = d \/ \E t, id, row : r.db \in {PutTenant(d, t, row), PutSchedule(d, t, id, row)}
      PROVE  Carried(d, r.db, c)
  <2>1. r.db.executions = d.executions /\ r.db.attempts = d.attempts
    BY <1>1, <1>2, OtherRowsAlone
  <2> QED
    BY <1>2, <2>1, LegalCarried
<1>3. CASE c.type = "create_tenant"
  <2>1. /\ r = ApplyCreateTenant(d, c) /\ c.id \in Tenants /\ c.apiKeyHash \in KeyHashes
    BY <1>3 DEF Dispatch, CommandOK
  <2>2. r.db = PutTenant(d, c.id, c.apiKeyHash)
    BY <2>1 DEF ApplyCreateTenant, Ok, Fail
  <2> QED
    BY <1>2, <2>1, <2>2, CreateTenantLegal
<1>4. CASE c.type = "create_schedule"
  <2>1. /\ r = ApplyCreateSchedule(d, c)
        /\ c.tenant \in Tenants /\ c.id \in ScheduleIds
        /\ c.scheduleType \in STRING /\ c.firstRunAt \in Int
        /\ c.recurrence \in Recurrences \cup {Nil} /\ c.timezone \in STRING
        /\ c.catchUpPolicy \in STRING /\ c.callbackURL \in CallbackURLs
        /\ c.headers \in SUBSET HeaderKeys
        /\ c.maxAttempts \in Int /\ c.callTimeout \in Int \cup {Nil}
    BY <1>4 DEF Dispatch, CommandOK
  <2>2. \E t, id, row : r.db = PutSchedule(d, t, id, row)
    BY <2>1 DEF ApplyCreateSchedule, Ok, Fail
  <2>3. Legal(d, r.db)
    BY <2>1, CreateScheduleLegal, Zenon
  <2> QED
    BY <1>2, <2>2, <2>3
<1>5. CASE c.type = "update_schedule"
  <2>1. /\ r = ApplyUpdateSchedule(d, c)
        /\ c.tenant \in Tenants /\ c.id \in ScheduleIds
        /\ c.callbackURL \in CallbackURLs \cup {Nil}
        /\ c.headers \in (SUBSET HeaderKeys) \cup {Nil}
        /\ c.maxAttempts \in Int \cup {Nil} /\ c.callTimeout \in Int \cup {Nil}
    BY <1>5 DEF Dispatch, CommandOK
  <2>2. \E t, id, row : r.db = PutSchedule(d, t, id, row)
    BY <2>1 DEF ApplyUpdateSchedule, Ok, Fail
  <2>3. Legal(d, r.db)
    BY <2>1, UpdateScheduleLegal
  <2> QED
    BY <1>2, <2>2, <2>3
<1>6. CASE c.type \in {"pause_schedule", "cancel_schedule", "resume_schedule"}
  <2>1. /\ c.tenant \in Tenants /\ c.id \in ScheduleIds
        /\ \/ r = ApplyPauseSchedule(d, c)
           \/ r = ApplyCancelSchedule(d, c)
           \/ r = ApplyResumeSchedule(d, c, at)
    BY <1>6, Zenon DEF Dispatch, CommandOK
  <2>2. r.db = d \/ \E t, id, row : r.db = PutSchedule(d, t, id, row)
    <3>1. CASE r = ApplyPauseSchedule(d, c)
      BY <3>1 DEF ApplyPauseSchedule, Ok, Fail
    <3>2. CASE r = ApplyCancelSchedule(d, c)
      BY <3>2 DEF ApplyCancelSchedule, Ok, Fail
    <3>3. CASE r = ApplyResumeSchedule(d, c, at)
      BY <3>3 DEF ApplyResumeSchedule, Ok, Fail
    <3> QED
      BY <2>1, <3>1, <3>2, <3>3
  <2>3. Legal(d, r.db)
    BY <2>1, PauseScheduleLegal, CancelScheduleLegal, ResumeScheduleLegal
  <2> QED
    BY <1>2, <2>2, <2>3
<1> QED
  BY <1>3, <1>4, <1>5, <1>6

\* Finishing an execution writes its row and then one of a schedule.
LEMMA FinishWrites ==
  ASSUME NEW d, NEW t, NEW id, NEW status, NEW outcome,
         FinishExecution(d, t, id, status, outcome).err = "none"
  PROVE  /\ d.executions[<<t, id>>] # Nil
         /\ \E row, s, schedule :
              FinishExecution(d, t, id, status, outcome).db
                = PutSchedule(PutExecution(d, t, id, row), t, s, schedule)
BY DEF FinishExecution, Ok, Fail, GetExecution

\* The commands that work on an execution that exists.
LEMMA ExecutionCarried ==
  ASSUME NEW d, Intact(d), NEW c, CommandOK(c), NEW at \in Int,
         c.type \in {"adopt_execution", "complete_execution", "fail_execution_timeout"},
         NEW r, r = Dispatch(d, c, at), r.err = "none"
  PROVE  Carried(d, r.db, c)
<1>1. d \in DB /\ c.tenant \in Tenants /\ c.execution \in ExecutionIds
  BY DEF Intact, CommandOK
<1>2. CASE c.type = "adopt_execution"
  <2>1. r = ApplyAdoptExecution(d, c) /\ c.newOwner \in Nodes
    BY <1>2 DEF Dispatch, CommandOK
  <2>2. /\ d.executions[<<c.tenant, c.execution>>] # Nil
        /\ \E row : r.db = PutExecution(d, c.tenant, c.execution, row)
    BY <2>1 DEF ApplyAdoptExecution, Ok, Fail, GetExecution
  <2>3. /\ r.db.attempts = d.attempts
        /\ \A t \in Tenants, e \in ExecutionIds :
             r.db.executions[<<t, e>>] # Nil => d.executions[<<t, e>>] # Nil
    BY <1>1, <2>2, OneRowWritten
  <2>4. Legal(d, r.db)
    BY <1>1, <2>1, AdoptExecutionLegal
  <2> QED
    BY <2>3, <2>4, LegalCarried
<1>3. CASE c.type \in {"complete_execution", "fail_execution_timeout"}
  <2>1. /\ c.finalOutcome \in FinalOutcomes
        /\ r = ApplyCompleteExecution(d, c) \/ r = ApplyFailExecutionTimeout(d, c)
    BY <1>3, Zenon DEF Dispatch, CommandOK
  <2>2. \E status : r = FinishExecution(d, c.tenant, c.execution, status, c.finalOutcome)
    BY <2>1 DEF ApplyCompleteExecution, ApplyFailExecutionTimeout, Fail
  <2>3. /\ d.executions[<<c.tenant, c.execution>>] # Nil
        /\ \E row, s, schedule :
             r.db = PutSchedule(PutExecution(d, c.tenant, c.execution, row), c.tenant, s, schedule)
    BY <2>2, FinishWrites
  <2>4. PICK row, s, schedule :
          r.db = PutSchedule(PutExecution(d, c.tenant, c.execution, row), c.tenant, s, schedule)
    BY <2>3
  <2>5. PICK m : m = PutExecution(d, c.tenant, c.execution, row)
    OBVIOUS
  <2>6. Legal(d, r.db)
    BY <1>1, <2>1, CompleteExecutionLegal, FailExecutionTimeoutLegal
  <2>7. r.db.executions = m.executions /\ r.db.attempts = m.attempts
    BY <1>1, <2>4, <2>5 DEF PutSchedule, PutExecution, DB
  <2>8. /\ m.attempts = d.attempts
        /\ \A t \in Tenants, e \in ExecutionIds :
             m.executions[<<t, e>>] # Nil => d.executions[<<t, e>>] # Nil
    BY <1>1, <2>3, <2>5, OneRowWritten
  <2> QED
    BY <2>6, <2>7, <2>8, LegalCarried
<1> QED
  BY <1>2, <1>3

\* A claim that takes effect is for an identifier that is not used yet: one
\* that is used for the same occurrence is found by the collision scan.
LEMMA ClaimCarried ==
  ASSUME NEW d, Intact(d), NEW c, CommandOK(c), NEW at, c.type = "claim_execution",
         d.schedules[<<c.tenant, c.schedule>>] # Nil,
         d.executions[<<c.tenant, c.id>>] # Nil =>
           /\ d.executions[<<c.tenant, c.id>>].schedule = c.schedule
           /\ d.executions[<<c.tenant, c.id>>].scheduledFor = c.scheduledFor,
         NEW r, r = Dispatch(d, c, at), r.err = "none"
  PROVE  Carried(d, r.db, c)
<1>1. /\ d \in DB /\ c.tenant \in Tenants /\ c.schedule \in ScheduleIds /\ c.id \in ExecutionIds
      /\ c.scheduledFor \in Int /\ c.owner \in Nodes
      /\ r = ApplyClaimExecution(d, c)
  BY DEF Dispatch, CommandOK, Intact
<1> DEFINE row == [schedule |-> c.schedule, scheduledFor |-> c.scheduledFor,
                   owner |-> c.owner, status |-> "in_flight", attemptCount |-> 0,
                   lastAttemptID |-> Nil, lastRetryAt |-> Nil, finalOutcome |-> Nil]
<1>2. /\ r.db = PutExecution(d, c.tenant, c.id, row)
      /\ ~ Claimed(ListExecutionsBySchedule(d, c.tenant, c.schedule), c.scheduledFor)
  BY <1>1 DEF ApplyClaimExecution, Ok, Fail
<1>3. row.schedule = c.schedule /\ row.scheduledFor = c.scheduledFor
  OBVIOUS
<1> HIDE DEF row
<1>4. d.executions[<<c.tenant, c.id>>] = Nil
  <2> SUFFICES ASSUME d.executions[<<c.tenant, c.id>>] # Nil
               PROVE  FALSE
    OBVIOUS
  <2>1. <<c.tenant, c.schedule, c.id>> \in d.executionsBySchedule
    BY <1>1 DEF Intact, IndexesMirror, ExecutionsIndexedBySchedule
  <2>2. d.executions[<<c.tenant, c.id>>] \in ListExecutionsBySchedule(d, c.tenant, c.schedule)
    BY <1>1, <2>1, Zenon DEF ListExecutionsBySchedule, ExecutionIdsBySchedule, GetExecution
  <2> QED
    BY <1>2, <2>2, Zenon DEF Claimed
<1>5. Legal(d, r.db)
  BY <1>1, <1>4, ClaimExecutionLegal
<1>6. /\ r.db.attempts = d.attempts
      /\ \A u \in Tenants, j \in ExecutionIds :
           r.db.executions[<<u, j>>] = IF u = c.tenant /\ j = c.id THEN row
                                       ELSE d.executions[<<u, j>>]
  BY <1>1, <1>2, OneRowWritten
<1>7. ASSUME NEW t \in Tenants, NEW e \in ExecutionIds, r.db.executions[<<t, e>>] # Nil,
             d.executions[<<t, e>>] = Nil
      PROVE  Claims(c, t, e, r.db.executions[<<t, e>>].schedule,
                    r.db.executions[<<t, e>>].scheduledFor)
  <2>1. t = c.tenant /\ e = c.id
    BY <1>6, <1>7
  <2>2. r.db.executions[<<t, e>>] = row
    BY <1>1, <1>6, <2>1
  <2> QED
    BY <1>3, <2>1, <2>2 DEF Claims
<1> QED
  BY <1>5, <1>6, <1>7, Zenon DEF Legal, Carried

\* An attempt that is recorded again belongs to the execution it belonged to.
LEMMA RecordCarried ==
  ASSUME NEW d, Intact(d), NEW c, CommandOK(c), NEW at, c.type = "record_attempt",
         \/ d.attempts[<<c.tenant, c.id>>] = Nil
         \/ d.attempts[<<c.tenant, c.id>>].execution = c.execution,
         NEW r, r = Dispatch(d, c, at), r.err = "none"
  PROVE  Carried(d, r.db, c)
<1>1. /\ d \in DB /\ c.tenant \in Tenants /\ c.execution \in ExecutionIds /\ c.id \in AttemptIds
      /\ c.node \in Nodes /\ c.outcome \in Outcomes /\ c.retryAt \in Int \cup {Nil}
      /\ r = ApplyRecordAttempt(d, c)
  BY DEF Dispatch, CommandOK, Intact
<1>2. Intact(r.db) /\ ExecutionsKept(d, r.db) /\ SchedulesKept(d, r.db)
  BY <1>1, RecordAttemptLegal
<1>3. PICK attempt, row :
        /\ d.executions[<<c.tenant, c.execution>>] # Nil
        /\ attempt.execution = c.execution
        /\ r.db = PutExecution(PutAttempt(d, c.tenant, c.id, attempt), c.tenant, c.execution, row)
  <2> DEFINE exec == d.executions[<<c.tenant, c.execution>>]
             attempt == [execution |-> c.execution, node |-> c.node,
                         number |-> exec.attemptCount + 1,
                         outcome |-> c.outcome, retryAt |-> c.retryAt]
  <2>1. /\ exec # Nil
        /\ r.db = PutExecution(PutAttempt(d, c.tenant, c.id, attempt), c.tenant, c.execution,
                               Counted(exec, c.id, c.retryAt))
    <3>1. r = ApplyRecordAttempt(d, c) /\ r.err = "none"
      BY <1>1
    <3>2. Fail(d, "validation").err # "none" /\ Fail(d, "not_found").err # "none"
            /\ Fail(d, "conflict").err # "none"
      BY DEF Fail
    <3>3. exec # Nil /\ r = Ok(PutExecution(PutAttempt(d, c.tenant, c.id, attempt), c.tenant,
                                            c.execution, Counted(exec, c.id, c.retryAt)))
      BY <3>1, <3>2, Zenon DEF ApplyRecordAttempt, GetExecution
    <3> QED
      BY <3>3 DEF Ok
  <2>2. attempt.execution = c.execution
    OBVIOUS
  <2> HIDE DEF attempt
  <2> QED
    BY <2>1, <2>2
<1>4. /\ r.db.attempts = [d.attempts EXCEPT ![<<c.tenant, c.id>>] = attempt]
      /\ r.db.executions = [d.executions EXCEPT ![<<c.tenant, c.execution>>] = row]
  BY <1>1, <1>3 DEF PutExecution, PutAttempt, DB
<1>5. /\ DOMAIN d.attempts = Tenants \X AttemptIds
      /\ DOMAIN d.executions = Tenants \X ExecutionIds
  BY <1>1 DEF DB
<1>6. \A t \in Tenants, e \in ExecutionIds :
        r.db.executions[<<t, e>>] # Nil => d.executions[<<t, e>>] # Nil
  BY <1>1, <1>3, <1>4, <1>5
<1>7. ASSUME NEW t \in Tenants, NEW a \in AttemptIds,
             r.db.attempts[<<t, a>>] # d.attempts[<<t, a>>]
      PROVE  Records(c, t, a, r.db.attempts[<<t, a>>].execution)
  <2>1. t = c.tenant /\ a = c.id /\ r.db.attempts[<<t, a>>] = attempt
    BY <1>1, <1>4, <1>5, <1>7
  <2> QED
    BY <1>3, <2>1 DEF Records
<1> QED
  BY <1>2, <1>6, <1>7, Zenon DEF Carried

----------------------------------------------------------------------------
(* Every database holds the effects of its entries.                         *)

\* Every execution of d was claimed, and every attempt recorded, by an entry of
\* the log l.
Traced(d, l) ==
  /\ \A t \in Tenants, e \in ExecutionIds : d.executions[<<t, e>>] # Nil =>
       \E j \in 1..Len(l) :
         Claims(l[j].cmd, t, e, d.executions[<<t, e>>].schedule, d.executions[<<t, e>>].scheduledFor)
  /\ \A t \in Tenants, a \in AttemptIds : d.attempts[<<t, a>>] # Nil =>
       \E j \in 1..Len(l) : Records(l[j].cmd, t, a, d.attempts[<<t, a>>].execution)

\* The schedules that the first k entries of l create are in d.
Created(d, k, l) ==
  \A j \in 1..k : \A t \in Tenants, s \in ScheduleIds :
    Creates(l[j].cmd, t, s) => d.schedules[<<t, s>>] # Nil

Whole(d, k, l) == Intact(d) /\ Traced(d, l) /\ Created(d, k, l)

\* The log l is the beginning of the history h.
Begins(l, h) == Len(l) <= Len(h) /\ \A k \in 1..Len(l) : l[k] = h[k]

\* A database that holds the effects of k entries holds those of fewer.
LEMMA WholeBefore ==
  ASSUME NEW d, NEW l, NEW k \in Nat, Whole(d, k, l)
  PROVE  Whole(d, 0, l)
BY DEF Whole, Created

\* A longer log explains what a shorter one did.
LEMMA WholeLonger ==
  ASSUME NEW d, NEW l \in Seq(Entries), NEW m \in Seq(Entries), NEW k \in 0..Len(l),
         Len(l) <= Len(m), \A j \in 1..Len(l) : m[j] = l[j],
         Whole(d, k, l)
  PROVE  Whole(d, k, m)
<1>1. 1..Len(l) \subseteq 1..Len(m) /\ 1..k \subseteq 1..Len(l)
  OBVIOUS
<1>2. Traced(d, m)
  <2>1. ASSUME NEW t \in Tenants, NEW e \in ExecutionIds, d.executions[<<t, e>>] # Nil
        PROVE  \E j \in 1..Len(m) :
                 Claims(m[j].cmd, t, e, d.executions[<<t, e>>].schedule,
                        d.executions[<<t, e>>].scheduledFor)
    BY <1>1, <2>1, Zenon DEF Whole, Traced
  <2>2. ASSUME NEW t \in Tenants, NEW a \in AttemptIds, d.attempts[<<t, a>>] # Nil
        PROVE  \E j \in 1..Len(m) : Records(m[j].cmd, t, a, d.attempts[<<t, a>>].execution)
    BY <1>1, <2>2, Zenon DEF Whole, Traced
  <2> QED
    BY <2>1, <2>2, Zenon DEF Traced
<1>3. Created(d, k, m)
  BY <1>1, Zenon DEF Whole, Created
<1> QED
  BY <1>2, <1>3 DEF Whole

\* A create_schedule that is valid and has no effect finds the schedule there.
LEMMA CreatesOrFinds ==
  ASSUME NEW d \in DB, NEW c, c.tenant \in Tenants, c.id \in ScheduleIds,
         ApplyCreateSchedule(EmptyDB, c).err = "none", ApplyCreateSchedule(d, c).err # "none"
  PROVE  d.schedules[<<c.tenant, c.id>>] # Nil
BY DEF ApplyCreateSchedule, Ok, Fail, GetSchedule

\* An identifier is claimed for one occurrence and recorded for one execution.
LEMMA OneUse ==
  ASSUME NEW h, HistoryOK(h), NEW i \in 1..Len(h), NEW k \in 1..Len(h),
         h[i].cmd.type = h[k].cmd.type, h[i].cmd.tenant = h[k].cmd.tenant,
         h[i].cmd.id = h[k].cmd.id
  PROVE  /\ h[k].cmd.type = "claim_execution" =>
              /\ h[i].cmd.schedule = h[k].cmd.schedule
              /\ h[i].cmd.scheduledFor = h[k].cmd.scheduledFor
         /\ h[k].cmd.type = "record_attempt" => h[i].cmd.execution = h[k].cmd.execution
BY DEF HistoryOK

\* Entry k of a log, applied to a database that holds at least the effects of
\* the entries before it, for the first time or again.
LEMMA EntryWhole ==
  ASSUME NEW h \in Histories, NEW l \in Seq(Entries), Begins(l, h),
         NEW k \in 1..Len(l), NEW d, Whole(d, k - 1, l)
  PROVE  Whole(ApplyEntry(d, l[k]), k, l)
<1> DEFINE c == l[k].cmd
           at == l[k].proposedAt
           r == Dispatch(d, c, at)
           n == ApplyEntry(d, l[k])
<1>1. /\ Intact(d) /\ d \in DB /\ Traced(d, l) /\ Created(d, k - 1, l)
      /\ HistoryOK(h)
      /\ Len(l) \in Nat /\ h \in Seq(Entries) /\ Len(h) \in Nat
      /\ \A j \in 1..Len(l) : j \in 1..Len(h) /\ l[j] = h[j]
  BY HistoryAssumption DEF Whole, Intact, Begins
<1>2. CommandOK(c) /\ at \in Int
  BY <1>1, Zenon DEF HistoryOK
<1>3. ASSUME c.type = "claim_execution"
      PROVE  /\ d.schedules[<<c.tenant, c.schedule>>] # Nil
             /\ d.executions[<<c.tenant, c.id>>] # Nil =>
                  /\ d.executions[<<c.tenant, c.id>>].schedule = c.schedule
                  /\ d.executions[<<c.tenant, c.id>>].scheduledFor = c.scheduledFor
  <2>1. c.tenant \in Tenants /\ c.schedule \in ScheduleIds /\ c.id \in ExecutionIds
    BY <1>2, <1>3 DEF CommandOK
  <2>2. PICK j \in 1..(k - 1) : Creates(h[j].cmd, c.tenant, c.schedule)
    BY <1>1, <1>3, Zenon DEF HistoryOK
  <2>3. j \in 1..Len(l) /\ l[j] = h[j]
    BY <1>1
  <2>4. d.schedules[<<c.tenant, c.schedule>>] # Nil
    BY <1>1, <2>1, <2>2, <2>3, Zenon DEF Created
  <2>5. ASSUME d.executions[<<c.tenant, c.id>>] # Nil
        PROVE  /\ d.executions[<<c.tenant, c.id>>].schedule = c.schedule
               /\ d.executions[<<c.tenant, c.id>>].scheduledFor = c.scheduledFor
    <3>1. PICK i \in 1..Len(l) :
            Claims(l[i].cmd, c.tenant, c.id, d.executions[<<c.tenant, c.id>>].schedule,
                   d.executions[<<c.tenant, c.id>>].scheduledFor)
      BY <1>1, <2>1, <2>5, Zenon DEF Traced
    <3>2. /\ i \in 1..Len(h) /\ l[i] = h[i] /\ k \in 1..Len(h) /\ l[k] = h[k]
      BY <1>1
    <3>3. /\ l[i].cmd.type = "claim_execution" /\ l[i].cmd.tenant = c.tenant
          /\ l[i].cmd.id = c.id
          /\ l[i].cmd.schedule = d.executions[<<c.tenant, c.id>>].schedule
          /\ l[i].cmd.scheduledFor = d.executions[<<c.tenant, c.id>>].scheduledFor
      BY <3>1 DEF Claims
    <3>4. l[i].cmd.schedule = c.schedule /\ l[i].cmd.scheduledFor = c.scheduledFor
      <4>1. /\ h[i].cmd.type = h[k].cmd.type /\ h[i].cmd.tenant = h[k].cmd.tenant
            /\ h[i].cmd.id = h[k].cmd.id /\ h[k].cmd.type = "claim_execution"
        BY <1>3, <3>2, <3>3, Zenon
      <4>2. /\ h[i].cmd.schedule = h[k].cmd.schedule
            /\ h[i].cmd.scheduledFor = h[k].cmd.scheduledFor
        BY <1>1, <3>2, <4>1, OneUse, Zenon
      <4> QED
        BY <3>2, <4>2, Zenon
    <3> QED
      BY <3>3, <3>4
  <2> QED
    BY <2>4, <2>5
<1>4. ASSUME c.type = "record_attempt"
      PROVE  \/ d.attempts[<<c.tenant, c.id>>] = Nil
             \/ d.attempts[<<c.tenant, c.id>>].execution = c.execution
  <2> SUFFICES ASSUME d.attempts[<<c.tenant, c.id>>] # Nil
               PROVE  d.attempts[<<c.tenant, c.id>>].execution = c.execution
    OBVIOUS
  <2>1. c.tenant \in Tenants /\ c.id \in AttemptIds
    BY <1>2, <1>4 DEF CommandOK
  <2>2. PICK i \in 1..Len(l) :
          Records(l[i].cmd, c.tenant, c.id, d.attempts[<<c.tenant, c.id>>].execution)
    BY <1>1, <2>1, Zenon DEF Traced
  <2>3. i \in 1..Len(h) /\ l[i] = h[i] /\ k \in 1..Len(h) /\ l[k] = h[k]
    BY <1>1
  <2>4. /\ l[i].cmd.type = "record_attempt" /\ l[i].cmd.tenant = c.tenant /\ l[i].cmd.id = c.id
        /\ l[i].cmd.execution = d.attempts[<<c.tenant, c.id>>].execution
    BY <2>2 DEF Records
  <2>5. l[i].cmd.execution = c.execution
    <3>1. /\ h[i].cmd.type = h[k].cmd.type /\ h[i].cmd.tenant = h[k].cmd.tenant
          /\ h[i].cmd.id = h[k].cmd.id /\ h[k].cmd.type = "record_attempt"
      BY <1>4, <2>3, <2>4, Zenon
    <3>2. h[i].cmd.execution = h[k].cmd.execution
      BY <1>1, <2>3, <3>1, OneUse, Zenon
    <3> QED
      BY <2>3, <3>2, Zenon
  <2> QED
    BY <2>4, <2>5
<1>5. CASE r.err = "none"
  <2>1. n = r.db
    BY <1>5 DEF ApplyEntry
  <2>2. Carried(d, n, c)
    <3>1. \/ c.type \in {"create_tenant", "create_schedule", "update_schedule",
                         "pause_schedule", "cancel_schedule", "resume_schedule"}
          \/ c.type \in {"adopt_execution", "complete_execution", "fail_execution_timeout"}
          \/ c.type = "claim_execution"
          \/ c.type = "record_attempt"
      BY <1>2 DEF CommandOK
    <3> HIDE DEF c, at
    <3> QED
      BY <1>1, <1>2, <1>3, <1>4, <1>5, <2>1, <3>1,
         ScheduleCarried, ExecutionCarried, ClaimCarried, RecordCarried, Zenon
  <2>3. ASSUME NEW t \in Tenants, NEW e \in ExecutionIds, n.executions[<<t, e>>] # Nil
        PROVE  \E j \in 1..Len(l) :
                 Claims(l[j].cmd, t, e, n.executions[<<t, e>>].schedule,
                        n.executions[<<t, e>>].scheduledFor)
    <3>1. CASE d.executions[<<t, e>>] # Nil
      <4>1. /\ n.executions[<<t, e>>].schedule = d.executions[<<t, e>>].schedule
            /\ n.executions[<<t, e>>].scheduledFor = d.executions[<<t, e>>].scheduledFor
        BY <2>2, <3>1, Zenon DEF Carried, ExecutionsKept
      <4> QED
        BY <1>1, <3>1, <4>1, Zenon DEF Traced
    <3>2. CASE d.executions[<<t, e>>] = Nil
      BY <2>2, <2>3, <3>2, Zenon DEF Carried
    <3> QED
      BY <3>1, <3>2, Zenon
  <2>4. ASSUME NEW t \in Tenants, NEW a \in AttemptIds, n.attempts[<<t, a>>] # Nil
        PROVE  \E j \in 1..Len(l) : Records(l[j].cmd, t, a, n.attempts[<<t, a>>].execution)
    BY <1>1, <2>2, <2>4, Zenon DEF Carried, Traced
  <2>5. ASSUME NEW j \in 1..k, NEW t \in Tenants, NEW s \in ScheduleIds, Creates(l[j].cmd, t, s)
        PROVE  n.schedules[<<t, s>>] # Nil
    <3>1. CASE j \in 1..(k - 1)
      <4>1. d.schedules[<<t, s>>] # Nil
        BY <1>1, <2>5, <3>1, Zenon DEF Created
      <4> QED
        BY <2>2, <4>1, Zenon DEF Carried, SchedulesKept
    <3>2. CASE j = k
      <4>1. c.type = "create_schedule" /\ c.tenant = t /\ c.id = s
        BY <2>5, <3>2 DEF Creates
      <4>2. /\ c.scheduleType \in STRING /\ c.firstRunAt \in Int
            /\ c.recurrence \in Recurrences \cup {Nil} /\ c.timezone \in STRING
            /\ c.catchUpPolicy \in STRING /\ c.callbackURL \in CallbackURLs
            /\ c.headers \in SUBSET HeaderKeys
            /\ c.maxAttempts \in Int /\ c.callTimeout \in Int \cup {Nil}
        BY <1>2, <4>1 DEF CommandOK
      <4>3. r = ApplyCreateSchedule(d, c)
        BY <4>1 DEF Dispatch
      <4> HIDE DEF c, r, at
      <4> QED
        BY <1>1, <1>5, <2>1, <4>1, <4>2, <4>3, CreateScheduleLegal
    <3> QED
      BY <3>1, <3>2
  <2> HIDE DEF n, c
  <2>6. Traced(n, l) /\ Created(n, k, l)
    BY <2>3, <2>4, <2>5, Zenon DEF Traced, Created
  <2>7. Intact(n)
    BY <2>2, Zenon DEF Carried
  <2>8. Whole(n, k, l)
    BY <2>6, <2>7 DEF Whole
  <2> QED
    BY <2>8 DEF n
<1>6. CASE r.err # "none"
  <2>1. n = d
    BY <1>6 DEF ApplyEntry
  <2>2. ASSUME NEW j \in 1..k, NEW t \in Tenants, NEW s \in ScheduleIds, Creates(l[j].cmd, t, s)
        PROVE  d.schedules[<<t, s>>] # Nil
    <3>1. CASE j \in 1..(k - 1)
      BY <1>1, <2>2, <3>1, Zenon DEF Created
    <3>2. CASE j = k
      <4>1. /\ c.type = "create_schedule" /\ c.tenant = t /\ c.id = s
            /\ ApplyCreateSchedule(EmptyDB, c).err = "none"
        BY <2>2, <3>2 DEF Creates
      <4>2. r = ApplyCreateSchedule(d, c)
        BY <4>1 DEF Dispatch
      <4> HIDE DEF c, r, at
      <4> QED
        BY <1>1, <1>6, <4>1, <4>2, CreatesOrFinds
    <3> QED
      BY <3>1, <3>2
  <2>3. Created(d, k, l)
    BY <2>2, Zenon DEF Created
  <2> QED
    BY <1>1, <2>1, <2>3 DEF Whole
<1> QED
  BY <1>5, <1>6

\* A snapshot is a record whose database holds the effects of the entries up to
\* its index.
SnapshotWhole(s, l) == s \in Snapshots /\ Whole(s.db, s.index, l)

NodeWhole(n) ==
  /\ Whole(file[n], applied[n], log)
  /\ reading[n] # Nil => SnapshotWhole(reading[n], log)
  /\ snapshot[n] # Nil => SnapshotWhole(snapshot[n], log)

\* Every database anywhere in the system holds the effects of its entries.
WInv ==
  /\ log # <<>> => \E h \in Histories : Begins(log, h)
  /\ \A k \in 0..Len(log) : Whole(ideal[k], k, log)
  /\ \A n \in Nodes : NodeWhole(n)
  /\ handle \in [Nodes -> BOOLEAN]
  /\ starts \in 0..MaxStarts

\* The empty databases hold the effects of no entry.
LEMMA InitWInv == Init => WInv
<1> SUFFICES ASSUME Init PROVE WInv
  OBVIOUS
<1>1. Whole(EmptyDB, 0, <<>>)
  <2>1. Intact(EmptyDB)
    BY EmptyDBConsistent DEF Consistent
  <2>2. Traced(EmptyDB, <<>>)
    BY DEF Traced, EmptyDB
  <2> QED
    BY <2>1, <2>2 DEF Whole, Created
<1>2. Len(<<>>) = 0
  OBVIOUS
<1>3. \A k \in 0..Len(log) : Whole(ideal[k], k, log)
  BY <1>1, <1>2 DEF Init
<1>4. \A n \in Nodes : NodeWhole(n)
  BY <1>1 DEF Init, NodeWhole
<1>5. handle \in [Nodes -> BOOLEAN] /\ starts \in 0..MaxStarts
  BY HistoryAssumption DEF Init
<1> QED
  BY <1>3, <1>4, <1>5 DEF WInv, Init

\* Committing an entry.
LEMMA ProposeWInv ==
  ASSUME RInv, WInv, Propose
  PROVE  WInv'
<1> DEFINE next == Len(log) + 1
<1>1. PICK h \in Histories :
        /\ next <= Len(h)
        /\ SubSeq(h, 1, Len(log)) = log
        /\ log' = Append(log, h[next])
        /\ ideal' = [k \in 0..next |->
                       IF k = next THEN ApplyEntry(ideal[k - 1], h[k]) ELSE ideal[k]]
        /\ UNCHANGED <<mode, file, torn, applied, reading, snapshot, replayed, handle, starts>>
  BY DEF Propose
<1>2. h \in Seq(Entries) /\ log \in Seq(Entries) /\ Len(log) \in Nat
  BY HistoryAssumption DEF RInv, IdealOK
<1>3. /\ log' \in Seq(Entries)
      /\ Len(log') = next
      /\ log'[next] = h[next]
      /\ \A k \in 1..Len(log) : log'[k] = log[k]
  BY <1>1, <1>2
<1>4. \A k \in 1..Len(log) : h[k] = log[k]
  BY <1>1, <1>2
<1>5. Begins(log', h)
  BY <1>1, <1>2, <1>3, <1>4 DEF Begins
<1>6. ASSUME NEW d, NEW k \in 0..Len(log), Whole(d, k, log)
      PROVE  Whole(d, k, log')
  BY <1>2, <1>3, <1>6, WholeLonger
<1>7. ASSUME NEW k \in 0..Len(log') PROVE Whole(ideal'[k], k, log')
  <2>1. CASE k = next
    <3>1. Whole(ideal[k - 1], k - 1, log')
      BY <1>2, <1>6, <2>1 DEF WInv
    <3>2. k \in 1..Len(log') /\ log'[k] = h[k] /\ ideal'[k] = ApplyEntry(ideal[k - 1], h[k])
      BY <1>1, <1>2, <1>3, <2>1
    <3>3. Whole(ApplyEntry(ideal[k - 1], log'[k]), k, log')
      BY <1>3, <1>5, <3>1, <3>2, EntryWhole
    <3> QED
      BY <3>2, <3>3
  <2>2. CASE k \in 0..Len(log)
    <3>1. ideal'[k] = ideal[k]
      BY <1>1, <1>2, <2>2
    <3>2. Whole(ideal[k], k, log)
      BY <2>2 DEF WInv
    <3> QED
      BY <1>6, <2>2, <3>1, <3>2
  <2> QED
    BY <1>2, <1>3, <2>1, <2>2
<1>8. ASSUME NEW s, SnapshotWhole(s, log), Sound(s)
      PROVE  SnapshotWhole(s, log')
  BY <1>6, <1>8 DEF SnapshotWhole, Sound
<1>9. ASSUME NEW n \in Nodes PROVE NodeWhole(n)'
  <2>1. NodeWhole(n) /\ NodeOK(n) /\ applied[n] \in Nat
    BY DEF RInv, WInv, Shape
  <2>2. applied[n] \in 0..Len(log)
    BY <1>2, <2>1 DEF NodeOK
  <2>3. Whole(file[n], applied[n], log')
    BY <1>6, <2>1, <2>2 DEF NodeWhole
  <2> QED
    BY <1>1, <1>8, <2>1, <2>3 DEF NodeOK, NodeWhole
<1>10. handle' \in [Nodes -> BOOLEAN] /\ starts' \in 0..MaxStarts
  BY <1>1 DEF WInv
<1> QED
  BY <1>5, <1>7, <1>9, <1>10 DEF WInv

\* The other actions leave the log alone and touch one node.
LEMMA LocalWInv ==
  ASSUME WInv, UNCHANGED <<log, ideal>>, NEW n \in Nodes, NodeWhole(n)',
         handle' \in [Nodes -> BOOLEAN], starts' \in 0..MaxStarts,
         \A m \in Nodes \ {n} :
           /\ file'[m] = file[m]
           /\ applied'[m] = applied[m]
           /\ reading'[m] = reading[m]
           /\ snapshot'[m] = snapshot[m]
  PROVE  WInv'
<1>1. ASSUME NEW m \in Nodes \ {n} PROVE NodeWhole(m)'
  BY <1>1 DEF WInv, NodeWhole
<1> QED
  BY <1>1 DEF WInv

\* Applying an entry, whether or not the database has its effects already.
LEMMA ApplyWInv ==
  ASSUME RInv, WInv, NEW n \in Nodes, Apply(n)
  PROVE  WInv'
<1> DEFINE next == applied[n] + 1
<1>1. log \in Seq(Entries) /\ Len(log) \in Nat /\ applied[n] \in Nat /\ NodeWhole(n)
  BY DEF RInv, IdealOK, Shape, WInv
<1>2. next \in 1..Len(log) /\ next - 1 = applied[n]
  BY <1>1 DEF Apply
<1>3. PICK h \in Histories : Begins(log, h)
  <2>1. log # <<>>
    BY <1>1, <1>2
  <2> QED
    BY <2>1 DEF WInv
<1>4. Whole(file[n], next - 1, log)
  BY <1>1, <1>2 DEF NodeWhole
<1>5. Whole(ApplyEntry(file[n], log[next]), next, log)
  BY <1>1, <1>2, <1>3, <1>4, EntryWhole
<1> HIDE DEF next
<1>6. /\ file' = [file EXCEPT ![n] = ApplyEntry(file[n], log[next])]
      /\ applied' = [applied EXCEPT ![n] = next]
      /\ UNCHANGED <<log, ideal, reading, snapshot, handle, starts>>
  BY Zenon DEF Apply, next
<1>7. /\ file'[n] = ApplyEntry(file[n], log[next]) /\ applied'[n] = next
      /\ \A m \in Nodes \ {n} : file'[m] = file[m] /\ applied'[m] = applied[m]
  BY <1>6 DEF RInv, Shape
<1>8. NodeWhole(n)'
  BY <1>1, <1>5, <1>6, <1>7 DEF NodeWhole
<1>9. handle' \in [Nodes -> BOOLEAN] /\ starts' \in 0..MaxStarts
  BY <1>6 DEF WInv
<1> QED
  BY <1>6, <1>7, <1>8, <1>9, LocalWInv

\* Taking a snapshot and storing it.
LEMMA SnapshotWInv ==
  ASSUME RInv, WInv, NEW n \in Nodes, Snapshot(n) \/ Persist(n)
  PROVE  WInv'
<1>1. /\ NodeWhole(n) /\ applied[n] \in Nat /\ replayed[n] \in BOOLEAN
      /\ reading = [m \in Nodes |-> reading[m]]
      /\ snapshot = [m \in Nodes |-> snapshot[m]]
  BY DEF RInv, Shape, WInv
<1>2. UNCHANGED <<log, ideal, file, applied, handle, starts>>
  BY Zenon DEF Snapshot, Persist
<1>3. CASE Snapshot(n)
  <2> DEFINE s == [index |-> applied[n], db |-> file[n], replayed |-> replayed[n]]
  <2>1. SnapshotWhole(s, log)
    BY <1>1 DEF NodeWhole, SnapshotWhole, Snapshots, Whole, Intact
  <2>2. reading' = [reading EXCEPT ![n] = s] /\ snapshot' = snapshot
    BY <1>3 DEF Snapshot
  <2> HIDE DEF s
  <2>3. reading'[n] = s /\ \A m \in Nodes \ {n} : reading'[m] = reading[m]
    BY <1>1, <2>2
  <2>4. NodeWhole(n)'
    BY <1>1, <1>2, <2>1, <2>2, <2>3 DEF NodeWhole
  <2> QED
    BY <1>2, <2>2, <2>3, <2>4, LocalWInv DEF WInv
<1>4. CASE Persist(n)
  <2>1. /\ reading[n] # Nil
        /\ reading' = [reading EXCEPT ![n] = Nil]
        /\ snapshot' = [snapshot EXCEPT ![n] = reading[n]]
    BY <1>4 DEF Persist
  <2>2. /\ reading'[n] = Nil /\ snapshot'[n] = reading[n]
        /\ \A m \in Nodes \ {n} : reading'[m] = reading[m] /\ snapshot'[m] = snapshot[m]
    BY <1>1, <2>1
  <2>3. NodeWhole(n)'
    BY <1>1, <1>2, <2>1, <2>2 DEF NodeWhole
  <2> QED
    BY <1>2, <2>2, <2>3, LocalWInv DEF WInv
<1> QED
  BY <1>3, <1>4

\* Restoring a snapshot, one's own or a peer's, and crashes.
LEMMA RestoreWInv ==
  ASSUME RInv, WInv, NEW n \in Nodes,
         (\E m \in Nodes : InstallSnapshot(n, m)) \/ Restored(n) \/ Crash(n)
  PROVE  WInv'
<1>1. /\ NodeWhole(n) /\ NodeOK(n) /\ applied \in [Nodes -> Nat]
      /\ file = [m \in Nodes |-> file[m]]
      /\ reading = [m \in Nodes |-> reading[m]]
      /\ snapshot = [m \in Nodes |-> snapshot[m]]
      /\ handle \in [Nodes -> BOOLEAN]
  BY DEF RInv, Shape, WInv
<1>2. CASE \E m \in Nodes : InstallSnapshot(n, m)
  <2>1. PICK m \in Nodes : InstallSnapshot(n, m)
    BY <1>2
  <2>2. /\ snapshot[m] # Nil /\ NodeWhole(m)
        /\ snapshot' = [snapshot EXCEPT ![n] = snapshot[m]]
        /\ handle' = [handle EXCEPT ![n] = FALSE]
        /\ UNCHANGED <<log, ideal, file, applied, reading, starts>>
    BY <2>1 DEF InstallSnapshot, WInv
  <2>3. /\ snapshot'[n] = snapshot[m]
        /\ \A p \in Nodes \ {n} : snapshot'[p] = snapshot[p]
    BY <1>1, <2>2
  <2>4. NodeWhole(n)'
    BY <1>1, <2>2, <2>3 DEF NodeWhole
  <2>5. handle' \in [Nodes -> BOOLEAN]
    BY <1>1, <2>2
  <2> QED
    BY <2>2, <2>3, <2>4, <2>5, LocalWInv DEF WInv
<1>3. CASE Restored(n)
  <2>1. /\ snapshot[n] # Nil
        /\ file' = [file EXCEPT ![n] = snapshot[n].db]
        /\ applied' = [applied EXCEPT ![n] = snapshot[n].index]
        /\ UNCHANGED <<log, ideal, reading, snapshot, handle, starts>>
    BY <1>1, <1>3 DEF Restored, NodeOK
  <2>2. /\ file'[n] = snapshot[n].db /\ applied'[n] = snapshot[n].index
        /\ \A p \in Nodes \ {n} : file'[p] = file[p] /\ applied'[p] = applied[p]
    BY <1>1, <2>1
  <2>3. NodeWhole(n)'
    BY <1>1, <2>1, <2>2 DEF NodeWhole, SnapshotWhole
  <2> QED
    BY <2>1, <2>2, <2>3, LocalWInv DEF WInv
<1>4. CASE Crash(n)
  <2>1. /\ reading' = [reading EXCEPT ![n] = Nil]
        /\ UNCHANGED <<log, ideal, file, applied, snapshot, handle, starts>>
    BY <1>4 DEF Crash
  <2>2. reading'[n] = Nil /\ \A p \in Nodes \ {n} : reading'[p] = reading[p]
    BY <1>1, <2>1
  <2>3. NodeWhole(n)'
    BY <1>1, <2>1, <2>2 DEF NodeWhole
  <2> QED
    BY <2>1, <2>2, <2>3, LocalWInv DEF WInv
<1> QED
  BY <1>2, <1>3, <1>4

\* Starting again: the whole log is due to be applied over the file.
LEMMA StartWInv ==
  ASSUME RInv, WInv, NEW n \in Nodes,
         StartFromFile(n) \/ StartFromSnapshot(n) \/ StartFails(n)
  PROVE  WInv'
<1>1. /\ NodeWhole(n) /\ applied \in [Nodes -> Nat] /\ handle \in [Nodes -> BOOLEAN]
      /\ starts \in 0..MaxStarts /\ MaxStarts \in Nat
  BY HistoryAssumption DEF RInv, Shape, WInv
<1>2. /\ starts < MaxStarts /\ starts' = starts + 1
      /\ UNCHANGED <<log, ideal, file, reading, snapshot>>
      /\ applied' = [applied EXCEPT ![n] = 0] \/ UNCHANGED applied
      /\ \/ handle' = [handle EXCEPT ![n] = TRUE]
         \/ handle' = [handle EXCEPT ![n] = FALSE]
         \/ UNCHANGED handle
  BY Zenon DEF StartFromFile, StartFromSnapshot, StartFails
<1>3. starts' \in 0..MaxStarts
  BY <1>1, <1>2
<1>4. handle' \in [Nodes -> BOOLEAN]
  BY <1>1, <1>2, Zenon
<1>5. /\ applied'[n] = 0 \/ applied'[n] = applied[n]
      /\ \A m \in Nodes \ {n} : applied'[m] = applied[m]
  BY <1>1, <1>2
<1>6. Whole(file[n], 0, log) /\ Whole(file[n], applied[n], log)
  BY <1>1, WholeBefore DEF NodeWhole
<1>7. NodeWhole(n)'
  BY <1>1, <1>2, <1>5, <1>6 DEF NodeWhole
<1> QED
  BY <1>2, <1>3, <1>4, <1>5, <1>7, LocalWInv

\* Every step of the replicas preserves the invariant.
LEMMA NextWInv == RInv /\ WInv /\ [Next]_vars => WInv'
<1> SUFFICES ASSUME RInv, WInv, [Next]_vars PROVE WInv'
  OBVIOUS
<1>1. CASE UNCHANGED vars
  BY <1>1 DEF vars, WInv, NodeWhole
<1>2. CASE Propose
  BY <1>2, ProposeWInv
<1>3. CASE \E n \in Nodes : Apply(n) \/ Snapshot(n) \/ Persist(n)
  BY <1>3, ApplyWInv, SnapshotWInv, Zenon
<1>4. CASE \E n \in Nodes :
             (\E m \in Nodes : InstallSnapshot(n, m)) \/ Restored(n) \/ Crash(n)
  BY <1>4, RestoreWInv, Zenon
<1>5. CASE \E n \in Nodes : StartFromFile(n) \/ StartFromSnapshot(n) \/ StartFails(n)
  BY <1>5, StartWInv, Zenon
<1> QED
  BY <1>1, <1>2, <1>3, <1>4, <1>5, Zenon DEF Next
\* WInv is an invariant of the replicas.
THEOREM WholenessInvariance == Spec => []WInv
BY InitWInv, NextWInv, ReplicaInvariance, PTL DEF Spec

\* The log, the databases, the indexes and the snapshots of every replica keep
\* their types, whatever is applied, restored or replayed.
THEOREM ReplicasTypes == Spec => []TypeOK
<1>1. ASSUME RInv, WInv PROVE TypeOK
  <2>1. Len(log) \in Nat /\ log \in Seq(Entries)
    BY <1>1 DEF RInv, IdealOK
  <2>2. ideal \in [0..Len(log) -> DB]
    <3>1. \A k \in 0..Len(log) : ideal[k] \in DB
      BY <1>1, Zenon DEF WInv, Whole, Intact
    <3>2. ideal = [k \in 0..Len(log) |-> ideal[k]]
      BY <1>1 DEF RInv, IdealOK
    <3> QED
      BY <3>1, <3>2
  <2>3. /\ file \in [Nodes -> DB]
        /\ reading \in [Nodes -> Snapshots \cup {Nil}]
        /\ snapshot \in [Nodes -> Snapshots \cup {Nil}]
    <3>1. \A n \in Nodes : /\ file[n] \in DB
                           /\ reading[n] \in Snapshots \cup {Nil}
                           /\ snapshot[n] \in Snapshots \cup {Nil}
      BY <1>1, Zenon DEF WInv, NodeWhole, SnapshotWhole, Whole, Intact
    <3>2. /\ file = [n \in Nodes |-> file[n]]
          /\ reading = [n \in Nodes |-> reading[n]]
          /\ snapshot = [n \in Nodes |-> snapshot[n]]
      BY <1>1 DEF RInv, Shape
    <3> QED
      BY <3>1, <3>2
  <2>4. applied \in [Nodes -> 0..Len(log)]
    BY <1>1, <2>1 DEF RInv, Shape, NodeOK
  <2> QED
    BY <1>1, <2>1, <2>2, <2>3, <2>4 DEF TypeOK, RInv, Shape, WInv
<1> QED
  BY <1>1, ReplicaInvariance, WholenessInvariance, PTL

\* Replaying any part of the log over a database that already holds its
\* effects creates no second execution for an occurrence, leaves no execution
\* without its schedule or owner, and keeps the indexes right, on every replica
\* and for every log that handlers and workers can make.
THEOREM ReplaysKeepClaims == Spec => []ReplayKeepsClaims
<1>1. WInv => ReplayKeepsClaims
  BY DEF WInv, NodeWhole, Whole, Intact, ReplayKeepsClaims
<1> QED
  BY <1>1, WholenessInvariance, PTL
=============================================================================
