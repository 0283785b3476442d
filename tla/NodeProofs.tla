----------------------------- MODULE NodeProofs -----------------------------
(***************************************************************************)
(* The parts of a node.  A walk through a paginated list returns every row *)
(* that stays, once and in order, for every bucket, prefix and choice of   *)
(* limits and whatever is put in or deleted meanwhile.  A node has one     *)
(* worker at a time, however often leadership changes.                     *)
(***************************************************************************)
EXTENDS MCNode, LeaderReadsProofs, FiniteSetTheorems, WellFoundedInduction

\* A leaf may take the provers half a minute.
USE SMTT(30), ZenonT(30)

----------------------------------------------------------------------------
(* Paginated lists.                                                         *)

\* While the client has the cursor: it is the last row of all pages so far,
\* and rows up to it that stayed have been returned.
AtClient ==
  /\ cursor = NoKey => before = {} /\ items = {}
  /\ cursor # NoKey =>
       /\ \A a \in before \cup items : a <= cursor
       /\ \A k \in stable : k <= cursor => k \in before \cup items

\* In the loop: the key is beyond every row returned, not before the prefix,
\* and every row that stayed has been returned or is still ahead.
InLoop ==
  /\ stable \subseteq view
  /\ limit >= 1
  /\ count = 0 <=> items = {}
  /\ items # {} => \E m \in items : \A j \in items : j <= m
  /\ key # NoKey =>
       /\ \A a \in before \cup items : a < key
       /\ \E l \in Listed : l <= key
  /\ \A k \in stable : k \in before \cup items \/ (key # NoKey /\ key <= k)

\* The inductive invariant.
WalkInv ==
  /\ PagingTypeOK
  /\ Ordered
  /\ pc = "client" => AtClient
  /\ pc = "scan" => InLoop
  /\ pc = "done" => stable \subseteq before \cup items

\* Cursor.Seek and Cursor.Next stop at the least key of those that are left.
LEMMA FirstIsLeast ==
  ASSUME NEW ks, ks \subseteq Nat, ks # {}
  PROVE  First(ks) \in ks /\ \A j \in ks : First(ks) <= j
<1>1. PICK k \in ks : \A j \in ks : ~ (<<j, k>> \in OpToRel(<, Nat))
  BY NatLessThanWellFounded, WFMin
<1>2. \A j \in ks : k <= j
  <2> TAKE j \in ks
  <2>1. ~ (<<j, k>> \in {ss \in Nat \X Nat : ss[1] < ss[2]})
    BY <1>1, Zenon DEF OpToRel
  <2> QED
    BY <2>1
<1> QED
  BY <1>2, Zenon DEF First

\* There is no key left exactly when the cursor says so.
LEMMA FirstIsNil ==
  ASSUME NEW ks, ks \subseteq Nat
  PROVE  /\ First(ks) \in ks \cup {NoKey}
         /\ First(ks) = NoKey <=> ks = {}
         /\ \A j \in ks : First(ks) <= j
BY FirstIsLeast, PagingAssumption DEF First

\* A walk starts with nothing returned.
LEMMA InitWalk == PagingInit => WalkInv
BY PagingAssumption DEF PagingInit, WalkInv, PagingTypeOK, Ordered, AtClient

\* A row put in between two pages or during one disturbs no walk.
LEMMA PutWalk ==
  ASSUME WalkInv, NEW k \in Keys, Put(k)
  PROVE  WalkInv'
BY PagingAssumption DEF Put, WalkInv, PagingTypeOK, Ordered, AtClient, InLoop

\* Nor does one that is deleted.
LEMMA DeleteWalk ==
  ASSUME WalkInv, NEW k \in Keys, Delete(k)
  PROVE  WalkInv'
BY PagingAssumption DEF Delete, WalkInv, PagingTypeOK, Ordered, AtClient, InLoop

\* A page starts behind the last row of the page before.
LEMMA RequestWalk ==
  ASSUME WalkInv, NEW l \in Limits, Request(l)
  PROVE  WalkInv'
<1> DEFINE ahead == {k \in bucket : IF cursor = NoKey THEN \E m \in Listed : m <= k ELSE k > cursor}
<1>1. ahead \subseteq bucket /\ bucket \subseteq Nat /\ Listed \subseteq Nat
  BY PagingAssumption DEF WalkInv, PagingTypeOK
<1>2. /\ key' \in ahead \cup {NoKey}
      /\ key' = NoKey <=> ahead = {}
      /\ \A j \in ahead : key' <= j
  BY <1>1, FirstIsNil DEF Request, Seek
<1>3. AtClient /\ PagingTypeOK
  BY DEF Request, WalkInv
<1>4. PagingTypeOK'
  BY <1>1, <1>2, <1>3, PagingAssumption DEF Request, PagingTypeOK, ValidLimit
<1>5. Ordered'
  BY DEF Request, Ordered
<1>6. InLoop'
  <2>1. /\ (stable \subseteq view)' /\ (limit >= 1)' /\ (count = 0 <=> items = {})'
        /\ (items # {} => \E m \in items : \A j \in items : j <= m)'
    BY <1>3 DEF Request, ValidLimit, PagingTypeOK
  <2>2. ASSUME key' # NoKey
        PROVE  (\A a \in before \cup items : a < key)' /\ (\E m \in Listed : m <= key)'
    <3>1. key' \in ahead
      BY <1>2, <2>2
    <3>2. CASE cursor = NoKey
      BY <1>3, <3>1, <3>2 DEF AtClient, Request
    <3>3. CASE cursor # NoKey
      <4>1. cursor \in Listed /\ key' > cursor /\ \A a \in before \cup items : a <= cursor
        BY <1>3, <3>1, <3>3 DEF AtClient, PagingTypeOK
      <4>2. before \cup items \subseteq Nat /\ key' \in Nat /\ cursor \in Nat
        BY <1>1, <1>3, <3>1, <4>1 DEF PagingTypeOK
      <4>3. \A a \in before \cup items : a < key'
        BY <4>1, <4>2
      <4> QED
        BY <4>1, <4>2, <4>3 DEF Request
    <3> QED
      BY <3>2, <3>3
  <2>3. ASSUME NEW k \in stable
        PROVE  k \in before \cup items \/ (key' # NoKey /\ key' <= k)
    <3>1. k \in bucket /\ k \in Listed /\ k \in Nat
      BY <1>1, <1>3 DEF PagingTypeOK
    <3>2. CASE k \in ahead
      BY <1>2, <3>2
    <3>3. CASE k \notin ahead
      <4>1. cursor # NoKey /\ ~ (k > cursor)
        BY <3>1, <3>3
      <4>2. k <= cursor
        BY <1>1, <1>3, <3>1, <4>1 DEF PagingTypeOK
      <4> QED
        BY <1>3, <4>1, <4>2 DEF AtClient
    <3> QED
      BY <3>2, <3>3
  <2> QED
    BY <2>1, <2>2, <2>3 DEF InLoop, Request
<1> QED
  BY <1>4, <1>5, <1>6 DEF WalkInv, Request

\* When the loop leaves the prefix no row of the list is ahead of it.
LEMMA LastWalk ==
  ASSUME WalkInv, Last
  PROVE  WalkInv'
<1>1. PagingTypeOK /\ InLoop
  BY DEF WalkInv, Last
<1>2. ASSUME NEW k \in stable
      PROVE  k \in before \cup items
  <2>1. SUFFICES ASSUME key # NoKey, key <= k
                 PROVE  FALSE
    BY <1>1 DEF InLoop
  <2>2. k \in Listed /\ key \in Keys /\ key \notin Listed
    BY <1>1, <2>1 DEF PagingTypeOK, Last, InLoop
  <2>3. PICK m \in Listed : m <= key
    BY <1>1, <2>1 DEF InLoop
  <2> QED
    BY <2>1, <2>2, <2>3, PagingAssumption DEF Contiguous
<1> QED
  BY <1>1, <1>2 DEF WalkInv, Last, PagingTypeOK, Ordered

\* The cursor of a full page is its last row.
LEMMA FullWalk ==
  ASSUME WalkInv, Full
  PROVE  WalkInv'
<1>1. PagingTypeOK /\ InLoop /\ Ordered /\ key \in Listed /\ key \in Nat
  BY PagingAssumption DEF WalkInv, Full
<1>2. items # {}
  BY <1>1 DEF InLoop, Full, PagingTypeOK
<1>3. cursor' \in items /\ \A j \in items : j <= cursor'
  BY <1>1, <1>2 DEF InLoop, Full
<1>4. cursor' \in Listed /\ cursor' \in Nat /\ cursor' # NoKey /\ cursor' < key
  BY <1>1, <1>3, PagingAssumption DEF PagingTypeOK, InLoop
<1>5. \A a \in before \cup items : a <= cursor'
  BY <1>1, <1>3, <1>4, PagingAssumption DEF PagingTypeOK, Ordered
<1>6. \A k \in stable : k <= cursor' => k \in before \cup items
  BY <1>1, <1>4, PagingAssumption DEF PagingTypeOK, InLoop
<1>7. AtClient'
  BY <1>4, <1>5, <1>6 DEF AtClient, Full
<1>8. PagingTypeOK' /\ Ordered'
  BY <1>1, <1>4 DEF PagingTypeOK, Ordered, Full
<1> QED
  BY <1>7, <1>8 DEF WalkInv, Full

\* A row is taken and the loop goes on to the next key.
LEMMA TakeWalk ==
  ASSUME WalkInv, Take
  PROVE  WalkInv'
<1> DEFINE ahead == {k \in view : k > key}
<1>1. PagingTypeOK /\ InLoop /\ Ordered /\ key \in Listed /\ key \in Nat /\ key # NoKey
  BY PagingAssumption DEF WalkInv, Take
<1>2. view \subseteq Nat /\ Listed \subseteq Nat
  BY <1>1, PagingAssumption DEF PagingTypeOK
<1>3. /\ key' \in ahead \cup {NoKey}
      /\ key' = NoKey <=> ahead = {}
      /\ \A j \in ahead : key' <= j
  BY <1>2, FirstIsNil DEF Take
<1>4. /\ count \in Nat /\ limit \in Nat /\ count <= limit /\ count # limit
      /\ items \subseteq Nat /\ before \subseteq Nat
  BY <1>1, <1>2 DEF PagingTypeOK, Take
<1>5. PagingTypeOK'
  BY <1>1, <1>3, <1>4 DEF PagingTypeOK, Take
<1>6. Ordered'
  BY <1>1 DEF Ordered, InLoop, Take
<1>7. InLoop'
  <2>1. (stable \subseteq view)' /\ (limit >= 1)' /\ (count = 0 <=> items = {})'
    BY <1>1, <1>4 DEF InLoop, Take
  <2>2. (\E m \in items : \A j \in items : j <= m)'
    BY <1>1, <1>4 DEF InLoop, Take
  <2>3. ASSUME key' # NoKey
        PROVE  (\A a \in before \cup items : a < key)' /\ (\E m \in Listed : m <= key)'
    <3>1. key' \in Nat /\ key' > key
      BY <1>2, <1>3, <2>3
    <3>2. \A a \in before \cup items : a < key
      BY <1>1 DEF InLoop
    <3>3. \A a \in before \cup items \cup {key} : a < key'
      BY <1>1, <1>4, <3>1, <3>2
    <3>4. (before \cup items)' = before \cup items \cup {key}
      BY DEF Take
    <3>5. \E m \in Listed : m <= key'
      BY <1>1, <3>1
    <3> QED
      BY <3>3, <3>4, <3>5
  <2>4. ASSUME NEW k \in stable
        PROVE  (k \in before \cup items)' \/ (key' # NoKey /\ key' <= k)
    <3>1. k \in view /\ k \in Nat
      BY <1>1, <1>2 DEF InLoop
    <3>2. CASE k \in before \cup items
      BY <3>2 DEF Take
    <3>3. CASE k \notin before \cup items
      <4>1. key <= k
        BY <1>1, <3>3 DEF InLoop
      <4>2. k = key \/ k \in ahead
        BY <1>1, <3>1, <4>1
      <4> QED
        BY <1>3, <4>2 DEF Take
    <3> QED
      BY <3>2, <3>3
  <2> QED
    BY <2>1, <2>2, <2>3, <2>4 DEF InLoop, Take
<1> QED
  BY <1>5, <1>6, <1>7 DEF WalkInv, Take

\* Every step keeps the invariant.
LEMMA NextWalk == WalkInv /\ [PagingNext]_pagingVars => WalkInv'
<1> SUFFICES ASSUME WalkInv, [PagingNext]_pagingVars
             PROVE  WalkInv'
  OBVIOUS
<1>1. CASE UNCHANGED pagingVars
  BY <1>1 DEF pagingVars, WalkInv, PagingTypeOK, Ordered, AtClient, InLoop
<1>2. CASE PagingNext
  BY <1>2, PutWalk, DeleteWalk, RequestWalk, LastWalk, FullWalk, TakeWalk DEF PagingNext, Page
<1> QED
  BY <1>1, <1>2

\* In any bucket and for any limits: no row is returned twice and the pages
\* are in order, and a client that was told there is no next page has seen
\* every row that was in the list throughout its walk.
THEOREM WalkIsExact == PagingSafety => []Exact
<1>1. WalkInv => Exact
  BY DEF WalkInv, Exact
<1> QED
  BY InitWalk, NextWalk, <1>1, PTL DEF PagingSafety
----------------------------------------------------------------------------
(* The supervisor.                                                          *)

\* The inductive invariant: only the worker that sv.cancel belongs to may be
\* live, a supervisor that has returned has left none, and Scheduler.Shutdown
\* that did not give up has seen the supervisor return.
SupervisorInv ==
  /\ SupervisorTypeOK
  /\ \A i \in DOMAIN worker : worker[i] # "returned" => i = current
  /\ sv = "returned" => Live = {}
  /\ node \notin {"up", "signaled"} /\ ~ timedOut => sv = "returned"

\* Workers are numbered from 1.
LEMMA WorkersNumbered ==
  ASSUME worker \in Seq(WorkerStates)
  PROVE  Len(worker) \in Nat /\ DOMAIN worker = 1..Len(worker)
OBVIOUS

\* Initially there is no worker.
LEMMA InitSupervisor == SupervisorInit => SupervisorInv
<1> SUFFICES ASSUME SupervisorInit
             PROVE  SupervisorInv
  OBVIOUS
<1>1. worker \in Seq(WorkerStates) /\ DOMAIN worker = {} /\ Len(worker) = 0
  BY DEF SupervisorInit
<1>2. 0 \in 0..MaxChanges /\ 0 \in 0..MaxFailures /\ 0 \in 0..Len(worker)
  BY <1>1, BoundsAssumption
<1>3. SupervisorTypeOK
  BY <1>1, <1>2 DEF SupervisorInit, SupervisorTypeOK
<1> QED
  BY <1>1, <1>3 DEF SupervisorInit, SupervisorInv, Live

\* Raft changes its role and announces it, and main shuts the node down, with
\* no effect on the workers.
LEMMA NodeStepSupervisor ==
  ASSUME SupervisorInv,
         \/ ChangeRole \/ Announce \/ Signal
         \/ SchedulerStops \/ SchedulerTimesOut \/ RaftStops \/ StorageCloses
  PROVE  SupervisorInv'
<1>1. changes \in 0..MaxChanges
  BY DEF SupervisorInv, SupervisorTypeOK
<1>2. ChangeRole => changes' \in 0..MaxChanges
  BY <1>1, BoundsAssumption DEF ChangeRole
<1> USE DEF SupervisorInv, SupervisorTypeOK, Live, leadershipVars, workerVars, nodeVars
<1>3. CASE ChangeRole
  BY <1>2, <1>3 DEF ChangeRole
<1>4. CASE Announce
  BY <1>4 DEF Announce
<1>5. CASE Signal
  BY <1>5 DEF Signal
<1>6. CASE SchedulerStops
  BY <1>6 DEF SchedulerStops
<1>7. CASE SchedulerTimesOut
  BY <1>7 DEF SchedulerTimesOut
<1>8. CASE RaftStops
  BY <1>8 DEF RaftStops
<1>9. CASE StorageCloses
  BY <1>9 DEF StorageCloses
<1> QED
  BY <1>3, <1>4, <1>5, <1>6, <1>7, <1>8, <1>9

\* startWorker starts a worker only when the last one is done with.
LEMMA BecameLeaderSupervisor ==
  ASSUME SupervisorInv, BecameLeader
  PROVE  SupervisorInv'
<1>1. CASE current # 0
  BY <1>1 DEF BecameLeader, startWorker, SupervisorInv, SupervisorTypeOK, Live, nodeVars
<1>2. CASE current = 0
  <2>1. worker' = Append(worker, "running") /\ current' = Len(worker) + 1
    BY <1>2 DEF BecameLeader, startWorker
  <2>2. worker \in Seq(WorkerStates) /\ Len(worker) \in Nat /\ DOMAIN worker = 1..Len(worker)
    BY WorkersNumbered DEF SupervisorInv, SupervisorTypeOK
  <2>3. /\ worker' \in Seq(WorkerStates)
        /\ Len(worker') = Len(worker) + 1
        /\ DOMAIN worker' = 1..(Len(worker) + 1)
        /\ \A i \in DOMAIN worker : worker'[i] = worker[i]
    BY <2>1, <2>2 DEF WorkerStates
  <2>4. \A i \in DOMAIN worker : worker[i] = "returned"
    BY <1>2, <2>2 DEF SupervisorInv
  <2>5. \A i \in DOMAIN worker' : worker'[i] # "returned" => i = current'
    BY <2>1, <2>2, <2>3, <2>4
  <2>6. canceled' \subseteq DOMAIN worker' /\ current' \in 0..Len(worker')
    <3>1. canceled' \subseteq 1..Len(worker)
      BY <2>2, Zenon DEF BecameLeader, SupervisorInv, SupervisorTypeOK
    <3> QED
      BY <2>1, <2>2, <2>3, <3>1
  <2>7. notifyCh' = <<>>
    BY DEF BecameLeader
  <2>8. SupervisorTypeOK'
    BY <2>3, <2>6, <2>7 DEF BecameLeader, SupervisorInv, SupervisorTypeOK, nodeVars
  <2> QED
    BY <2>5, <2>8 DEF BecameLeader, SupervisorInv, nodeVars
<1> QED
  BY <1>1, <1>2

\* stopWorker and the return of Run wait for the worker they canceled.
LEMMA RunStepSupervisor ==
  ASSUME SupervisorInv, LostLeadership \/ Stopped \/ ContextDone \/ Drained
  PROVE  SupervisorInv'
<1>1. /\ Len(worker) \in Nat /\ DOMAIN worker = 1..Len(worker)
      /\ current \in 0..Len(worker) /\ canceled \subseteq DOMAIN worker
      /\ \A i \in DOMAIN worker : worker[i] # "returned" => i = current
  BY WorkersNumbered DEF SupervisorInv, SupervisorTypeOK
<1>2. /\ current # 0 => canceled \cup {current} \subseteq DOMAIN worker
      /\ current = 0 => Live = {}
      /\ 0 \in 0..Len(worker)
  BY <1>1 DEF Live
<1> USE DEF SupervisorInv, SupervisorTypeOK, Live, leadershipVars, workerVars, nodeVars
<1>3. CASE LostLeadership
  BY <1>2, <1>3 DEF LostLeadership
<1>4. CASE Stopped
  BY <1>2, <1>4 DEF Stopped
<1>5. CASE ContextDone
  BY <1>2, <1>5 DEF ContextDone
<1>6. CASE Drained
  BY <1>6 DEF Drained
<1> QED
  BY <1>3, <1>4, <1>5, <1>6

\* A worker that has returned stays so.
LEMMA WorkerSupervisor ==
  ASSUME SupervisorInv, NEW i \in DOMAIN worker, WorkerSteps(i) \/ Propose(i) \/ Fail(i)
  PROVE  SupervisorInv'
<1>1. PICK w \in WorkerStates : worker[i] # "returned" /\ worker' = [worker EXCEPT ![i] = w]
  BY DEF WorkerSteps, Answer, ProposeTimesOut, Return, Propose, Fail, Proposed, WorkerStates
<1>2. /\ UNCHANGED <<leadershipVars, sv, current, canceled, nodeVars>>
      /\ failures' \in 0..MaxFailures
  <2>1. failures \in 0..MaxFailures
    BY DEF SupervisorInv, SupervisorTypeOK
  <2> QED
    BY <2>1, BoundsAssumption DEF WorkerSteps, Answer, ProposeTimesOut, Return, Propose, Fail
<1>3. /\ worker' \in Seq(WorkerStates)
      /\ Len(worker') = Len(worker)
      /\ DOMAIN worker' = DOMAIN worker
      /\ \A j \in DOMAIN worker : j # i => worker'[j] = worker[j]
  <2>1. worker \in Seq(WorkerStates)
    BY DEF SupervisorInv, SupervisorTypeOK
  <2> QED
    BY <1>1, <2>1
<1>4. SupervisorTypeOK'
  BY <1>2, <1>3 DEF SupervisorInv, SupervisorTypeOK, leadershipVars, nodeVars
<1>5. \A j \in DOMAIN worker' : worker'[j] # "returned" => j = current'
  BY <1>1, <1>2, <1>3 DEF SupervisorInv
<1>6. sv # "returned"
  BY <1>1 DEF SupervisorInv, Live
<1> QED
  BY <1>2, <1>4, <1>5, <1>6 DEF SupervisorInv, nodeVars

\* Every step keeps the invariant.
LEMMA NextSupervisor == SupervisorInv /\ [SupervisorNext]_supervisorVars => SupervisorInv'
<1> SUFFICES ASSUME SupervisorInv, [SupervisorNext]_supervisorVars
             PROVE  SupervisorInv'
  OBVIOUS
<1>1. CASE UNCHANGED supervisorVars
  BY <1>1 DEF supervisorVars, leadershipVars, workerVars, nodeVars,
              SupervisorInv, SupervisorTypeOK, Live
<1>2. CASE SupervisorNext
  BY <1>2, NodeStepSupervisor, BecameLeaderSupervisor, RunStepSupervisor, WorkerSupervisor
  DEF SupervisorNext, Steps
<1> QED
  BY <1>1, <1>2

\* The invariant says what OneWorker does.
LEMMA InvOneWorker == SupervisorInv => OneWorker
<1> SUFFICES ASSUME SupervisorInv
             PROVE  OneWorker
  OBVIOUS
<1>1. Live \subseteq {current}
  BY DEF SupervisorInv, Live
<1>2. Cardinality(Live) <= 1
  <2>1. IsFiniteSet({current}) /\ Cardinality({current}) = 1
    BY FS_Singleton
  <2> QED
    BY <1>1, <2>1, FS_Subset, FS_CardinalityType
<1> QED
  BY <1>2 DEF SupervisorInv, OneWorker

\* startWorker and stopWorker keep a node to one worker at a time, and Raft and
\* the database close under a live worker only if Scheduler.Shutdown gave up,
\* for any number of changes of leadership and of failed workers.
THEOREM OneWorkerPerNode == SupervisorSafety => []OneWorker
BY InitSupervisor, NextSupervisor, InvOneWorker, PTL DEF SupervisorSafety

----------------------------------------------------------------------------
(* The parts together.                                                      *)

NodeVars == <<part, supervisorVars, readsVars, pagingVars, backoffVars>>

NodeInv == SupervisorInv /\ ReadsInv /\ WalkInv

\* No part disturbs another.
LEMMA NextNode == NodeInv /\ [Next]_NodeVars => NodeInv'
<1> SUFFICES ASSUME NodeInv, [Next]_NodeVars
             PROVE  NodeInv'
  OBVIOUS
<1>1. /\ [SupervisorNext]_supervisorVars
      /\ [ReadsNext]_readsVars
      /\ [PagingNext]_pagingVars
  BY DEF Next, NodeVars, SupervisorMoves, ReadsMove, PagingMoves, BackoffMoves
<1> QED
  BY <1>1, NextSupervisor, NextReads, NextWalk DEF NodeInv

\* Every variable of the supervisor, of the reads and of the lists has its
\* type: the channel holds one announcement at most, a barrier lies within
\* the log, no page is longer than its limit.
THEOREM NodeTypes == Spec => []TypeOK
<1>1. Init => NodeInv
  BY InitSupervisor, InitReads, InitWalk DEF Init, NodeInv
<1>2. NodeInv => TypeOK
  BY DEF NodeInv, TypeOK, SupervisorInv, ReadsInv, WalkInv
<1> QED
  BY <1>1, <1>2, NextNode, PTL DEF Spec, NodeVars
=============================================================================
