---------------------------- MODULE LeaderReads ----------------------------
(***************************************************************************)
(* The leader-gated reads of internal/raftnode/raftnode.go: every read     *)
(* method checks that its node is leader, has ensureCaughtUpAsLeader wait  *)
(* for a barrier once per term, and then looks at the local database,      *)
(* while Raft goes on electing leaders, committing and applying.           *)
(*                                                                         *)
(* Raft (external) is reduced to terms, the number of entries committed    *)
(* and how many of them each node has applied.  A database is known by the *)
(* number of entries that made it.                                         *)
(***************************************************************************)
EXTENDS Naturals, Sequences

CONSTANTS
  Nodes,
  Readers,      \* concurrent calls of read methods
  Nil,
  MaxTerm, MaxEntries

ASSUME ReadsAssumption ==
  /\ MaxTerm \in Nat /\ MaxEntries \in Nat
  /\ Nil \notin Nodes \cup Readers

VARIABLES
  term,         \* node -> raft.CurrentTerm()
  state,        \* node -> raft.State()
  leader,       \* the last node that was elected, or Nil
  committed,    \* the terms of the committed entries
  applied,      \* node -> entries applied to its database
  acked,        \* entries up to the last one whose proposer got the result
  served,       \* entries in the newest database a read on the leader has returned
  readyTerm,    \* node -> the last term that had its barrier
  readyMu,      \* node -> the reader that holds the mutex, or Nil
  reader        \* reader -> where the call is

raftVars == <<term, state, leader, committed, applied, acked>>
readsVars == <<raftVars, served, readyTerm, readyMu, reader>>

Idle == [pc |-> "idle", node |-> Nil, term |-> 0, floor |-> 0, barrier |-> Nil]

ReadsInit ==
  /\ term = [n \in Nodes |-> 0]
  /\ state = [n \in Nodes |-> "follower"]
  /\ leader = Nil
  /\ committed = <<>>
  /\ applied = [n \in Nodes |-> 0]
  /\ acked = 0
  /\ served = 0
  /\ readyTerm = [n \in Nodes |-> 0]
  /\ readyMu = [n \in Nodes |-> Nil]
  /\ reader = [r \in Readers |-> Idle]

Larger(x, y) == IF x >= y THEN x ELSE y

----------------------------------------------------------------------------
(* Raft.                                                                    *)

Campaign(n) ==
  /\ state[n] # "leader"
  /\ term[n] < MaxTerm
  /\ \A m \in Nodes : term[m] <= term[n]
  /\ term' = [term EXCEPT ![n] = @ + 1]
  /\ state' = [state EXCEPT ![n] = "candidate"]
  /\ UNCHANGED <<leader, committed, applied, acked, served, readyTerm, readyMu, reader>>

\* From now on the leader before cannot commit, but it may not know.
Win(n) ==
  /\ state[n] = "candidate"
  /\ \A m \in Nodes : term[m] <= term[n]
  /\ state' = [state EXCEPT ![n] = "leader"]
  /\ leader' = n
  /\ UNCHANGED <<term, committed, applied, acked, served, readyTerm, readyMu, reader>>

\* A node hears of a later term.
Learn(n) ==
  /\ \E m \in Nodes : term[m] > term[n] /\ term' = [term EXCEPT ![n] = term[m]]
  /\ state' = [state EXCEPT ![n] = "follower"]
  /\ UNCHANGED <<leader, committed, applied, acked, served, readyTerm, readyMu, reader>>

Leads(n) == leader = n /\ state[n] = "leader"

Commit(n) ==
  /\ Leads(n)
  /\ Len(committed) < MaxEntries
  /\ committed' = Append(committed, term[n])
  /\ UNCHANGED <<term, state, leader, applied, acked, served, readyTerm, readyMu, reader>>

\* A node that has not heard of a term has none of its entries.
Apply(n) ==
  /\ applied[n] < Len(committed)
  /\ committed[applied[n] + 1] <= term[n]
  /\ applied' = [applied EXCEPT ![n] = @ + 1]
  /\ UNCHANGED <<term, state, leader, committed, acked, served, readyTerm, readyMu, reader>>

\* RaftNode.Propose returns the result of an entry, which its leader applied.
Ack(n) ==
  /\ state[n] = "leader"
  /\ applied[n] > acked
  /\ committed[applied[n]] = term[n]
  /\ acked' = applied[n]
  /\ UNCHANGED <<term, state, leader, committed, applied, served, readyTerm, readyMu, reader>>

----------------------------------------------------------------------------
(* A read.                                                                  *)

Goto(r, x) == reader' = [reader EXCEPT ![r] = x]

\* A read is called; what it is to see at least is what clients have been told,
\* if its node leads the cluster at this time.
Call(r, n) ==
  /\ reader[r].pc = "idle"
  /\ Goto(r, [Idle EXCEPT !.pc = "state", !.node = n,
                          !.floor = IF Leads(n) THEN Larger(acked, served) ELSE 0])
  /\ UNCHANGED <<raftVars, served, readyTerm, readyMu>>

CheckState(r) ==
  LET x == reader[r] IN
  /\ x.pc = "state"
  /\ Goto(r, IF state[x.node] = "leader" THEN [x EXCEPT !.pc = "term"] ELSE Idle)
  /\ UNCHANGED <<raftVars, served, readyTerm, readyMu>>

ReadTerm(r) ==
  LET x == reader[r] IN
  /\ x.pc = "term"
  /\ Goto(r, [x EXCEPT !.pc = "lock", !.term = term[x.node]])
  /\ UNCHANGED <<raftVars, served, readyTerm, readyMu>>

\* The term has had its barrier.
Ready(n, t) == readyTerm[n] = t

Lock(r) ==
  LET x == reader[r] IN
  /\ x.pc = "lock"
  /\ readyMu[x.node] = Nil
  /\ IF Ready(x.node, x.term)
     THEN Goto(r, [x EXCEPT !.pc = "view"]) /\ UNCHANGED readyMu
     ELSE /\ Goto(r, [x EXCEPT !.pc = "barrier"])
          /\ readyMu' = [readyMu EXCEPT ![x.node] = r]
  /\ UNCHANGED <<raftVars, served, readyTerm>>

\* Raft takes the barrier and commits it.
IssueBarrier(r) ==
  LET x == reader[r] IN
  /\ x.pc = "barrier" /\ x.barrier = Nil
  /\ Leads(x.node)
  /\ Goto(r, [x EXCEPT !.barrier = [index |-> Len(committed), term |-> term[x.node]]])
  /\ UNCHANGED <<raftVars, served, readyTerm, readyMu>>

Unlock(r) == readyMu' = [readyMu EXCEPT ![reader[r].node] = Nil]

\* Seeded fault: a barrier that is committed passes for one that is applied.
BarrierDone_NotApplied(r) ==
  LET x == reader[r] IN
  /\ x.pc = "barrier" /\ x.barrier # Nil
  /\ state[x.node] = "leader" /\ term[x.node] = x.barrier.term
  /\ readyTerm' = [readyTerm EXCEPT ![x.node] = x.term]
  /\ Unlock(r)
  /\ Goto(r, [x EXCEPT !.pc = "view"])
  /\ UNCHANGED <<raftVars, served>>

\* The node has applied what was committed before the barrier.
BarrierDone(r) ==
  LET x == reader[r] IN
  /\ x.pc = "barrier" /\ x.barrier # Nil
  /\ state[x.node] = "leader" /\ term[x.node] = x.barrier.term
  /\ applied[x.node] >= x.barrier.index
  /\ readyTerm' = [readyTerm EXCEPT ![x.node] = x.term]
  /\ Unlock(r)
  /\ Goto(r, [x EXCEPT !.pc = "view"])
  /\ UNCHANGED <<raftVars, served>>

\* Seeded fault: the mutex is held when the error is returned.
BarrierFails_KeepsLock(r) ==
  LET x == reader[r] IN
  /\ x.pc = "barrier"
  /\ x.barrier # Nil => state[x.node] # "leader" \/ term[x.node] # x.barrier.term
  /\ Goto(r, Idle)
  /\ UNCHANGED <<raftVars, served, readyTerm, readyMu>>

\* The barrier is refused, times out before Raft takes it, or is given up when
\* the node steps down: ErrNotCaughtUp.
BarrierFails(r) ==
  LET x == reader[r] IN
  /\ x.pc = "barrier"
  /\ x.barrier # Nil => state[x.node] # "leader" \/ term[x.node] # x.barrier.term
  /\ Unlock(r)
  /\ Goto(r, Idle)
  /\ UNCHANGED <<raftVars, served, readyTerm>>

\* storage.View.
View(r) ==
  LET x == reader[r] IN
  /\ x.pc = "view"
  /\ served' = IF Leads(x.node) THEN Larger(served, applied[x.node]) ELSE served
  /\ Goto(r, Idle)
  /\ UNCHANGED <<raftVars, readyTerm, readyMu>>

----------------------------------------------------------------------------
Step(r) ==
  CheckState(r) \/ ReadTerm(r) \/ IssueBarrier(r) \/ BarrierDone(r) \/ BarrierFails(r) \/ View(r)

ReadsNext ==
  \/ \E n \in Nodes :
       \/ Campaign(n) \/ Win(n) \/ Learn(n) \/ Commit(n) \/ Apply(n) \/ Ack(n)
       \/ \E r \in Readers : Call(r, n)
  \/ \E r \in Readers : Lock(r) \/ Step(r)

\* A call goes on once it is made; the mutex is handed over in the end to who
\* has waited longest (sync.Mutex); committed entries are applied, and a
\* leader that was replaced hears of it.
ReadsFairness ==
  /\ \A n \in Nodes : WF_readsVars(Apply(n)) /\ WF_readsVars(Learn(n))
  /\ \A r \in Readers : WF_readsVars(Step(r)) /\ SF_readsVars(Lock(r))

ReadsSafety == ReadsInit /\ [][ReadsNext]_readsVars

----------------------------------------------------------------------------
(* Properties.                                                              *)

\* Every variable has its type.
ReadsTypeOK ==
  /\ term \in [Nodes -> 0..MaxTerm]
  /\ state \in [Nodes -> {"follower", "candidate", "leader"}]
  /\ leader \in Nodes \cup {Nil}
  /\ committed \in Seq(1..MaxTerm) /\ Len(committed) <= MaxEntries
  /\ applied \in [Nodes -> 0..Len(committed)]
  /\ acked \in 0..Len(committed)
  /\ served \in 0..Len(committed)
  /\ readyTerm \in [Nodes -> 0..MaxTerm]
  /\ readyMu \in [Nodes -> Readers \cup {Nil}]
  /\ reader \in [Readers ->
       [pc : {"idle", "state", "term", "lock", "barrier", "view"},
        node : Nodes \cup {Nil}, term : 0..MaxTerm, floor : 0..Len(committed),
        barrier : {Nil} \cup [index : 0..Len(committed), term : 1..MaxTerm]]]

\* A read whose node leads the cluster when the read is called sees everything
\* that was acknowledged to a client, or returned by a read on the leader, before,
\* although the check for leadership, the term, the barrier and the look at
\* the database are separate steps and leadership may change between them.
FreshReads ==
  \A r \in Readers : reader[r].pc = "view" => applied[reader[r].node] >= reader[r].floor

\* ensureCaughtUpAsLeader returns only when its node has applied every entry
\* that was committed under a term before the one it has read.
CaughtUp ==
  \A r \in Readers : reader[r].pc = "view" =>
    \A i \in DOMAIN committed :
      committed[i] < reader[r].term => i <= applied[reader[r].node]

\* Every read returns, with a result or an error: the mutex is released on
\* every path, and nobody waits for a barrier that will not come.
ReadsReturn == \A r \in Readers : (reader[r].pc # "idle") ~> (reader[r].pc = "idle")
=============================================================================
