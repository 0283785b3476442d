------------------------- MODULE LeaderReadsProofs -------------------------
(***************************************************************************)
(* Leader-gated reads are fresh, for any number of nodes, concurrent       *)
(* readers, terms and entries.                                             *)
(***************************************************************************)
EXTENDS LeaderReads, TLAPS

\* A leaf may take the provers half a minute.
USE SMTT(30), ZenonT(30)

\* Every committed entry of a term before t is among the first k.
Sealed(t, k) == \A i \in DOMAIN committed : committed[i] < t => i <= k

\* No entry of a term before t will be committed any more.
Closed(t) == \A n \in Nodes : Leads(n) => term[n] >= t

\* The first f entries are in the database of n, or will be when every entry
\* of a term before t is.
Within(f, n, t) == f <= applied[n] \/ (f \in DOMAIN committed /\ committed[f] < t)

\* Leaders and candidates have terms of their own.
OwnTerms ==
  /\ \A n \in Nodes : state[n] # "follower" => term[n] >= 1
  /\ \A n, m \in Nodes :
       n # m /\ state[n] # "follower" /\ state[m] # "follower" => term[n] # term[m]

\* A leader that was replaced has a term before that of the last one elected.
LastElected ==
  \A m \in Nodes :
    state[m] = "leader" => leader # Nil /\ (m # leader => term[m] < term[leader])

\* Entries have the terms of the leaders that committed them.
EntryTerms == \A i \in DOMAIN committed : leader # Nil /\ committed[i] <= term[leader]

\* A candidate that can still win has a later term than every entry.
NewTerm ==
  \A n \in Nodes :
    state[n] = "candidate" /\ (\A m \in Nodes : term[m] <= term[n]) =>
      \A i \in DOMAIN committed : committed[i] < term[n]

Terms == OwnTerms /\ LastElected /\ EntryTerms /\ NewTerm

\* A node has what was committed before the term it has had a barrier for.
ReadyOK ==
  \A n \in Nodes :
    readyTerm[n] <= term[n] /\ Sealed(readyTerm[n], applied[n]) /\ Closed(readyTerm[n])

\* What clients have been told is in the leader's database or of earlier terms.
Told ==
  \A n \in Nodes : Leads(n) => Within(acked, n, term[n]) /\ Within(served, n, term[n])

\* Where a read is, x, says what its node has and what it is to see.
ReadOK(x) ==
  /\ x.pc # "idle" => x.node \in Nodes
  /\ x.pc \in {"state", "term", "lock"} => x.barrier = Nil
  /\ x.pc \in {"state", "term"} => Within(x.floor, x.node, term[x.node])
  /\ x.pc \in {"lock", "barrier", "view"} =>
       x.term <= term[x.node] /\ Within(x.floor, x.node, x.term)
  /\ x.pc = "barrier" /\ x.barrier # Nil =>
       /\ x.term <= x.barrier.term /\ x.barrier.term <= term[x.node]
       /\ Sealed(x.barrier.term, x.barrier.index) /\ Closed(x.barrier.term)
  /\ x.pc = "view" => Sealed(x.term, applied[x.node]) /\ Closed(x.term)

\* The inductive invariant.
ReadsInv ==
  /\ ReadsTypeOK
  /\ Terms
  /\ ReadyOK
  /\ Told
  /\ \A r \in Readers : ReadOK(reader[r])
----------------------------------------------------------------------------
(* The steps of Raft.                                                       *)

\* Where a read can be.
Calls ==
  [pc : {"idle", "state", "term", "lock", "barrier", "view"},
   node : Nodes \cup {Nil}, term : 0..MaxTerm, floor : 0..Len(committed),
   barrier : {Nil} \cup [index : 0..Len(committed), term : 1..MaxTerm]]

\* What the provers need to know of the types.
Numbers ==
  /\ \A n \in Nodes : term[n] \in Nat /\ applied[n] \in Nat /\ readyTerm[n] \in Nat
  /\ \A i \in DOMAIN committed : i \in Nat /\ committed[i] \in Nat
  /\ \A r \in Readers : /\ reader[r].term \in Nat /\ reader[r].floor \in Nat
                        /\ reader[r].barrier # Nil =>
                             reader[r].barrier.term \in Nat /\ reader[r].barrier.index \in Nat

\* The type invariant says so.
LEMMA TypesAreNumbers == ReadsTypeOK => Numbers
<1> SUFFICES ASSUME ReadsTypeOK PROVE Numbers OBVIOUS
<1>1. Len(committed) \in Nat /\ DOMAIN committed = 1..Len(committed) BY DEF ReadsTypeOK
<1>2. \A n \in Nodes : term[n] \in Nat /\ applied[n] \in Nat /\ readyTerm[n] \in Nat
  BY <1>1, ReadsAssumption DEF ReadsTypeOK
<1>3. \A i \in DOMAIN committed : i \in Nat /\ committed[i] \in Nat
  BY <1>1, ReadsAssumption DEF ReadsTypeOK
<1>4. ASSUME NEW r \in Readers
      PROVE  /\ reader[r].term \in Nat /\ reader[r].floor \in Nat
             /\ reader[r].barrier # Nil =>
                  reader[r].barrier.term \in Nat /\ reader[r].barrier.index \in Nat
  BY <1>1, ReadsAssumption DEF ReadsTypeOK
<1> QED BY <1>2, <1>3, <1>4 DEF Numbers


\* A read that does not move stays right while terms grow and leaders go.
LEMMA TermsGrow ==
  ASSUME Numbers, UNCHANGED <<committed, applied, reader>>,
         \A m \in Nodes : /\ term[m] <= term'[m]
                          /\ Leads(m)' => Leads(m) /\ term'[m] = term[m]
                          /\ term'[m] \in Nat,
         NEW r \in Readers, ReadOK(reader[r])
  PROVE  ReadOK(reader[r])'
<1> DEFINE x == reader[r]
<1>1. x' = x OBVIOUS
<1>2. \A t \in Nat : Closed(t) => Closed(t)' BY DEF Numbers, Closed
<1>3. \A t, k : Sealed(t, k) => Sealed(t, k)' BY DEF Sealed
<1>4. \A f, m, t : Within(f, m, t) => Within(f, m, t)' BY DEF Within
<1>5. x.pc \in {"state", "term"} => Within(x.floor, x.node, term[x.node])'
  BY <1>1 DEF Numbers, ReadOK, Within
<1>6. x.pc \in {"lock", "barrier", "view"} =>
        x.term <= term'[x.node] /\ Within(x.floor, x.node, x.term)'
  BY <1>1, <1>4 DEF Numbers, ReadOK
<1>7. x.pc = "barrier" /\ x.barrier # Nil =>
        /\ x.term <= x.barrier.term /\ x.barrier.term <= term'[x.node]
        /\ Sealed(x.barrier.term, x.barrier.index)' /\ Closed(x.barrier.term)'
  BY <1>1, <1>2, <1>3 DEF Numbers, ReadOK
<1>8. x.pc = "view" => Sealed(x.term, applied[x.node])' /\ Closed(x.term)'
  BY <1>1, <1>2, <1>3 DEF Numbers, ReadOK
<1> QED BY <1>1, <1>5, <1>6, <1>7, <1>8 DEF ReadOK

\* Initially the invariant holds: no entries, no leader, no reads.
LEMMA InitReads == ReadsInit => ReadsInv
  BY ReadsAssumption
  DEF ReadsInit, ReadsInv, ReadsTypeOK, Terms, OwnTerms, LastElected, EntryTerms, NewTerm, ReadyOK, Told, ReadOK, Sealed, Closed, Within, Leads, Idle

\* A campaign takes a term that no node has had, and nobody's leadership.
LEMMA CampaignReads ==
  ASSUME ReadsInv, NEW n \in Nodes, Campaign(n) PROVE ReadsInv'
<1>1. ReadsTypeOK' BY ReadsAssumption, SMTT(30) DEF ReadsInv, ReadsTypeOK, Campaign
<1>2. Terms'
  <2>0. /\ \A m \in Nodes : term'[m] \in Nat /\ term[m] \in Nat
        /\ term'[n] = term[n] + 1
        /\ \A m \in Nodes \ {n} : term'[m] = term[m] /\ term[m] <= term[n]
        /\ \A m \in Nodes \ {n} : state'[m] = state[m]
        /\ state'[n] = "candidate"
    BY ReadsAssumption DEF ReadsInv, ReadsTypeOK, Campaign
  <2>1. OwnTerms' BY <2>0 DEF ReadsInv, Terms, OwnTerms
  <2>2. LastElected' BY ReadsAssumption DEF ReadsInv, ReadsTypeOK, Terms, OwnTerms, LastElected, Campaign
  <2>3. EntryTerms' BY ReadsAssumption DEF ReadsInv, ReadsTypeOK, Terms, EntryTerms, Campaign
  <2>4. NewTerm'
    <3> SUFFICES ASSUME NEW k \in Nodes, state'[k] = "candidate",
                        \A m \in Nodes : term'[m] <= term'[k],
                        NEW i \in DOMAIN committed
                 PROVE  committed[i] < term'[k]
      BY DEF NewTerm, Campaign
    <3>1. k = n BY <2>0
    <3>2. leader \in Nodes /\ committed[i] <= term[leader] /\ committed[i] \in Nat
      BY TypesAreNumbers DEF ReadsInv, ReadsTypeOK, Numbers, Terms, EntryTerms
    <3>3. term[leader] <= term[n] BY <3>2, <2>0
    <3> QED BY <3>1, <3>2, <3>3, <2>0
  <2> QED BY <2>1, <2>2, <2>3, <2>4 DEF Terms
<1>3. \A m \in Nodes : /\ term[m] <= term'[m]
                       /\ Leads(m)' => Leads(m) /\ term'[m] = term[m]
                       /\ term'[m] \in Nat
  BY ReadsAssumption, SMTT(30) DEF ReadsInv, ReadsTypeOK, Campaign, Leads
<1>4. UNCHANGED <<committed, applied, acked, served, readyTerm, reader>> BY DEF Campaign
<1>5. ReadyOK'
  BY <1>3, <1>4, TypesAreNumbers DEF ReadsInv, Numbers, ReadyOK, Sealed, Closed
<1>6. Told' BY <1>3, <1>4 DEF ReadsInv, Told, Within
<1>7. \A r \in Readers : ReadOK(reader[r])'
  BY <1>3, <1>4, TermsGrow, TypesAreNumbers DEF ReadsInv
<1> QED BY <1>1, <1>2, <1>5, <1>6, <1>7 DEF ReadsInv

\* A leader is elected with the highest term there is, later than every entry.
LEMMA WinReads ==
  ASSUME ReadsInv, NEW n \in Nodes, Win(n) PROVE ReadsInv'
<1>1. ReadsTypeOK' BY DEF ReadsInv, ReadsTypeOK, Win
<1>2. Terms'
  <2>1. OwnTerms' BY ReadsAssumption DEF ReadsInv, ReadsTypeOK, Terms, OwnTerms, Win
  <2>2. LastElected'
    <3> SUFFICES ASSUME NEW m \in Nodes, state'[m] = "leader"
                 PROVE  leader' # Nil /\ (m # leader' => term'[m] < term'[leader'])
      BY DEF LastElected
    <3>1. CASE m = n BY <3>1, ReadsAssumption DEF Win
    <3>2. CASE m # n
      <4>1. state[m] = "leader" BY <3>2 DEF ReadsInv, ReadsTypeOK, Win
      <4>2. term[m] # term[n] BY <3>2, <4>1 DEF ReadsInv, Terms, OwnTerms, Win
      <4> QED BY <4>2, ReadsAssumption DEF ReadsInv, ReadsTypeOK, Win
    <3> QED BY <3>1, <3>2
  <2>3. EntryTerms' BY ReadsAssumption DEF ReadsInv, ReadsTypeOK, Terms, EntryTerms, Win
  <2>4. NewTerm' BY ReadsAssumption DEF ReadsInv, ReadsTypeOK, Terms, OwnTerms, LastElected, EntryTerms, NewTerm, Win
  <2> QED BY <2>1, <2>2, <2>3, <2>4 DEF Terms
<1>3. \A m \in Nodes : Leads(m)' => m = n BY DEF Win, Leads
<1>4. \A i \in DOMAIN committed : committed[i] < term[n] BY DEF ReadsInv, Terms, NewTerm, Win
<1>5. ReadyOK'
  BY <1>1, <1>3 DEF ReadsInv, ReadsTypeOK, ReadyOK, Sealed, Closed, Win
<1>6. Told'
  <2>1. acked \in DOMAIN committed \/ acked = 0 BY DEF ReadsInv, ReadsTypeOK
  <2>2. served \in DOMAIN committed \/ served = 0 BY DEF ReadsInv, ReadsTypeOK
  <2> QED BY <1>3, <1>4, <2>1, <2>2 DEF ReadsInv, ReadsTypeOK, Told, Within, Win
<1>7. \A r \in Readers : ReadOK(reader[r])'
  BY <1>1, <1>3, SMTT(30) DEF ReadsInv, ReadsTypeOK, ReadOK, Within, Sealed, Closed, Win
<1> QED BY <1>1, <1>2, <1>5, <1>6, <1>7 DEF ReadsInv

\* A node that hears of a later term is not leader any more.
LEMMA LearnReads ==
  ASSUME ReadsInv, NEW n \in Nodes, Learn(n) PROVE ReadsInv'
<1>1. ReadsTypeOK' BY ReadsAssumption DEF ReadsInv, ReadsTypeOK, Learn
<1>2. Terms'
  <2>1. OwnTerms' BY ReadsAssumption DEF ReadsInv, ReadsTypeOK, Terms, OwnTerms, Learn
  <2>2. LastElected' BY ReadsAssumption, SMTT(30) DEF ReadsInv, ReadsTypeOK, Terms, OwnTerms, LastElected, Learn
  <2>3. EntryTerms' BY ReadsAssumption DEF ReadsInv, ReadsTypeOK, Terms, EntryTerms, Learn
  <2>4. NewTerm'
    <3> SUFFICES ASSUME NEW k \in Nodes, state'[k] = "candidate",
                        \A m \in Nodes : term'[m] <= term'[k],
                        NEW i \in DOMAIN committed
                 PROVE  committed[i] < term'[k]
      BY DEF NewTerm, Learn
    <3>1. k # n /\ state[k] = "candidate" /\ term'[k] = term[k]
      BY DEF ReadsInv, ReadsTypeOK, Learn
    <3>2. \A m \in Nodes : term[m] <= term'[m] /\ term[m] \in Nat /\ term'[m] \in Nat
      <4>1. PICK m \in Nodes : term[m] > term[n] /\ term' = [term EXCEPT ![n] = term[m]]
        BY DEF Learn
      <4> QED BY <4>1, TypesAreNumbers, SMTT(30) DEF ReadsInv, ReadsTypeOK, Numbers
    <3>3. \A m \in Nodes : term[m] <= term[k] BY <3>1, <3>2
    <3> QED BY <3>1, <3>3 DEF ReadsInv, Terms, NewTerm
  <2> QED BY <2>1, <2>2, <2>3, <2>4 DEF Terms
<1>3. \A m \in Nodes : /\ term[m] <= term'[m]
                       /\ Leads(m)' => Leads(m) /\ term'[m] = term[m]
                       /\ term'[m] \in Nat
  BY ReadsAssumption, SMTT(30) DEF ReadsInv, ReadsTypeOK, Learn, Leads
<1>4. UNCHANGED <<committed, applied, acked, served, readyTerm, reader>> BY DEF Learn
<1>5. ReadyOK'
  BY <1>3, <1>4, TypesAreNumbers DEF ReadsInv, Numbers, ReadyOK, Sealed, Closed
<1>6. Told' BY <1>3, <1>4 DEF ReadsInv, Told, Within
<1>7. \A r \in Readers : ReadOK(reader[r])'
  BY <1>3, <1>4, TermsGrow, TypesAreNumbers DEF ReadsInv
<1> QED BY <1>1, <1>2, <1>5, <1>6, <1>7 DEF ReadsInv

\* What the leader commits has its own term, which is no earlier than any
\* term that is closed.
LEMMA CommitReads ==
  ASSUME ReadsInv, NEW n \in Nodes, Commit(n) PROVE ReadsInv'
<1>1. /\ Len(committed') = Len(committed) + 1
      /\ DOMAIN committed' = DOMAIN committed \cup {Len(committed) + 1}
      /\ \A i \in DOMAIN committed : committed'[i] = committed[i]
      /\ committed'[Len(committed) + 1] = term[n]
      /\ DOMAIN committed = 1..Len(committed)
  BY DEF ReadsInv, ReadsTypeOK, Commit
<1>2. term[n] \in 1..MaxTerm BY ReadsAssumption DEF ReadsInv, ReadsTypeOK, Terms, OwnTerms, Commit, Leads
<1>3. ReadsTypeOK'
  <2>1. committed' \in Seq(1..MaxTerm) BY <1>2 DEF ReadsInv, ReadsTypeOK, Commit
  <2>2. 0..Len(committed) \subseteq 0..Len(committed') BY <1>1 DEF ReadsInv, ReadsTypeOK
  <2>3. applied' \in [Nodes -> 0..Len(committed')] BY <2>2 DEF ReadsInv, ReadsTypeOK, Commit
  <2>4. acked' \in 0..Len(committed') /\ served' \in 0..Len(committed')
    BY <2>2 DEF ReadsInv, ReadsTypeOK, Commit
  <2>5. Len(committed') <= MaxEntries BY <1>1, ReadsAssumption DEF ReadsInv, ReadsTypeOK, Commit
  <2>6. reader' \in [Readers -> Calls']
    <3>1. Calls \subseteq Calls' BY <2>2 DEF Calls
    <3>2. reader \in [Readers -> Calls] BY DEF ReadsInv, ReadsTypeOK, Calls
    <3>3. reader' = reader BY DEF Commit
    <3> QED BY <3>1, <3>2, <3>3
  <2> QED BY <2>1, <2>3, <2>4, <2>5, <2>6 DEF ReadsInv, ReadsTypeOK, Calls, Commit
<1>4. Terms'
  <2>1. OwnTerms' BY <1>1, <1>2, ReadsAssumption DEF ReadsInv, ReadsTypeOK, Terms, OwnTerms, Commit, Leads
  <2>2. LastElected' BY <1>1, <1>2, ReadsAssumption DEF ReadsInv, ReadsTypeOK, Terms, OwnTerms, LastElected, Commit, Leads
  <2>3. EntryTerms' BY <1>1, <1>2, ReadsAssumption DEF ReadsInv, ReadsTypeOK, Terms, EntryTerms, Commit, Leads
  <2>4. NewTerm'
    <3> SUFFICES ASSUME NEW k \in Nodes, state[k] = "candidate",
                        \A m \in Nodes : term[m] <= term[k],
                        NEW i \in DOMAIN committed'
                 PROVE  committed'[i] < term[k]
      BY DEF NewTerm, Commit
    <3>1. CASE i \in DOMAIN committed BY <3>1, <1>1 DEF ReadsInv, Terms, NewTerm
    <3>2. CASE i = Len(committed) + 1
      <4>1. term[n] # term[k] BY DEF ReadsInv, Terms, OwnTerms, Commit, Leads
      <4> QED BY <3>2, <4>1, <1>1 DEF ReadsInv, ReadsTypeOK
    <3> QED BY <3>1, <3>2, <1>1
  <2> QED BY <2>1, <2>2, <2>3, <2>4 DEF Terms
<1>5. ASSUME NEW t \in Nat, NEW k \in 0..Len(committed), Sealed(t, k), Closed(t)
      PROVE  Sealed(t, k)'
  BY <1>1, <1>2, <1>5 DEF ReadsInv, ReadsTypeOK, Sealed, Closed, Commit
<1>6. ASSUME NEW f \in 0..Len(committed), NEW m \in Nodes, NEW t, Within(f, m, t)
      PROVE  Within(f, m, t)'
  BY <1>1, <1>6 DEF ReadsInv, ReadsTypeOK, Within, Commit
<1>7. ReadyOK' BY <1>5 DEF ReadsInv, ReadsTypeOK, ReadyOK, Closed, Leads, Commit
<1>8. Told' BY <1>6 DEF ReadsInv, ReadsTypeOK, Told, Leads, Commit
<1>9. \A r \in Readers : ReadOK(reader[r])'
  BY <1>5, <1>6 DEF ReadsInv, ReadsTypeOK, ReadOK, Closed, Leads, Commit
<1> QED BY <1>3, <1>4, <1>7, <1>8, <1>9 DEF ReadsInv

\* A database only grows.
LEMMA ApplyReads ==
  ASSUME ReadsInv, NEW n \in Nodes, Apply(n) PROVE ReadsInv'
<1>1. ReadsTypeOK' BY SMTT(30) DEF ReadsInv, ReadsTypeOK, Apply
<1>2. Terms'
  BY DEF ReadsInv, Terms, OwnTerms, LastElected, EntryTerms, NewTerm, Apply
<1>3. \A m \in Nodes : applied[m] <= applied'[m] BY DEF ReadsInv, ReadsTypeOK, Apply
<1>4. ReadyOK' BY <1>1, <1>3 DEF ReadsInv, ReadsTypeOK, ReadyOK, Sealed, Closed, Leads, Apply
<1>5. Told' BY <1>1, <1>3 DEF ReadsInv, ReadsTypeOK, Told, Within, Leads, Apply
<1>6. ASSUME NEW r \in Readers PROVE ReadOK(reader[r])'
  <2>1. UNCHANGED <<term, committed, reader>> /\ \A t : Closed(t) => Closed(t)'
    BY DEF Apply, Closed, Leads
  <2>2. \A m \in Nodes : applied[m] \in Nat /\ applied'[m] \in Nat
    BY <1>1, TypesAreNumbers DEF ReadsInv, ReadsTypeOK, Numbers, Apply
  <2>3. \A t : \A f \in Nat, m \in Nodes : Within(f, m, t) => Within(f, m, t)'
    BY <1>3, <2>1, <2>2 DEF Within
  <2>4. \A t : \A m \in Nodes : Sealed(t, applied[m]) => Sealed(t, applied[m])'
    BY <1>3, <2>1, <2>2, TypesAreNumbers DEF ReadsInv, Numbers, Sealed
  <2>5. \A t, k : Sealed(t, k) => Sealed(t, k)' BY <2>1 DEF Sealed
  <2>6. ReadOK(reader[r]) BY DEF ReadsInv
  <2> QED BY <2>1, <2>3, <2>4, <2>5, <2>6, TypesAreNumbers DEF ReadsInv, Numbers, ReadOK
<1> QED BY <1>1, <1>2, <1>4, <1>5, <1>6 DEF ReadsInv

\* An entry that is acknowledged by a leader that was replaced is of a term
\* before that of the leader.
LEMMA AckReads ==
  ASSUME ReadsInv, NEW n \in Nodes, Ack(n) PROVE ReadsInv'
<1>1. ReadsTypeOK' BY DEF ReadsInv, ReadsTypeOK, Ack
<1>2. Terms'
  BY DEF ReadsInv, Terms, OwnTerms, LastElected, EntryTerms, NewTerm, Ack
<1>3. ReadyOK' BY DEF ReadsInv, ReadyOK, Sealed, Closed, Leads, Ack
<1>4. Told'
  BY <1>1 DEF ReadsInv, ReadsTypeOK, Terms, LastElected, Told, Within, Leads, Ack
<1>5. \A r \in Readers : ReadOK(reader[r])'
  BY DEF ReadsInv, ReadOK, Within, Sealed, Closed, Leads, Ack
<1> QED BY <1>1, <1>2, <1>3, <1>4, <1>5 DEF ReadsInv

----------------------------------------------------------------------------
(* The steps of a read.                                                     *)

\* An idle reader is nowhere.
LEMMA IdleIsCall == ReadsTypeOK => Idle \in Calls
  BY ReadsAssumption DEF ReadsTypeOK, Calls, Idle

\* A step of one reader leaves Raft and the other readers alone.
LEMMA ReaderStep ==
  ASSUME ReadsInv, NEW r \in Readers, UNCHANGED raftVars,
         reader' = [reader EXCEPT ![r] = reader'[r]], reader'[r] \in Calls,
         served' \in 0..Len(committed),
         readyTerm' \in [Nodes -> 0..MaxTerm],
         readyMu' \in [Nodes -> Readers \cup {Nil}],
         ReadyOK', Told', ReadOK(reader[r])'
  PROVE  ReadsInv'
<1>1. Terms'
  BY DEF ReadsInv, raftVars, Terms, OwnTerms, LastElected, EntryTerms, NewTerm
<1>2. reader \in [Readers -> Calls] BY DEF ReadsInv, ReadsTypeOK, Calls
<1>3. ReadsTypeOK'
  <2>1. reader' \in [Readers -> Calls] BY <1>2
  <2> QED BY <2>1 DEF ReadsInv, ReadsTypeOK, Calls, raftVars
<1>4. ASSUME NEW q \in Readers PROVE ReadOK(reader[q])'
  <2>1. CASE q = r BY <2>1
  <2>2. CASE q # r
    <3>1. ReadOK(reader[q]) BY DEF ReadsInv
    <3>2. reader'[q] = reader[q] BY <2>2, <1>2
    <3> QED BY <3>1, <3>2 DEF ReadOK, Within, Sealed, Closed, Leads, raftVars
  <2> QED BY <2>1, <2>2
<1> QED BY <1>1, <1>3, <1>4 DEF ReadsInv

\* What a read on the leader is to see is there or of earlier terms.
LEMMA CallReads ==
  ASSUME ReadsInv, NEW r \in Readers, NEW n \in Nodes, Call(r, n) PROVE ReadsInv'
<1> DEFINE x == reader[r]
<1>1. reader \in [Readers -> Calls] /\ x \in Calls BY DEF ReadsInv, ReadsTypeOK, Calls
<1>2. /\ UNCHANGED raftVars /\ reader' = [reader EXCEPT ![r] = reader'[r]]
      /\ reader'[r] = [Idle EXCEPT !.pc = "state", !.node = n,
           !.floor = IF Leads(n) THEN Larger(acked, served) ELSE 0]
  BY <1>1 DEF Goto, Call
<1>3. reader'[r] \in Calls
  <2>1. (IF Leads(n) THEN Larger(acked, served) ELSE 0) \in 0..Len(committed)
    BY DEF ReadsInv, ReadsTypeOK, Larger
  <2> QED BY <1>2, <2>1, IdleIsCall DEF ReadsInv, Calls
<1>4. /\ served' \in 0..Len(committed) /\ readyTerm' \in [Nodes -> 0..MaxTerm]
      /\ readyMu' \in [Nodes -> Readers \cup {Nil}]
  BY <1>1 DEF ReadsInv, ReadsTypeOK, Calls, Call, Idle, Larger, Told
<1>5. ReadyOK' BY DEF ReadsInv, ReadyOK, Sealed, Closed, Leads, raftVars, Call
<1>6. Told' BY DEF ReadsInv, Told, Within, Leads, raftVars, Call
<1>7. ReadOK(reader[r])'
  BY <1>1, <1>2, TypesAreNumbers DEF ReadsInv, Numbers, Calls, ReadOK, Within, Sealed, Closed, Leads, raftVars, Call, Idle, Larger, Told
<1> QED BY <1>2, <1>3, <1>4, <1>5, <1>6, <1>7, ReaderStep

\* The check for leadership changes nothing else.
LEMMA CheckStateReads ==
  ASSUME ReadsInv, NEW r \in Readers, CheckState(r) PROVE ReadsInv'
<1> DEFINE x == reader[r]
<1>1. reader \in [Readers -> Calls] /\ x \in Calls BY DEF ReadsInv, ReadsTypeOK, Calls
<1>2. /\ UNCHANGED raftVars /\ reader' = [reader EXCEPT ![r] = reader'[r]]
      /\ x.pc = "state" /\ reader'[r] \in {Idle, [x EXCEPT !.pc = "term"]}
  BY <1>1 DEF Goto, CheckState
<1>3. reader'[r] \in Calls BY <1>1, <1>2, IdleIsCall DEF ReadsInv, Calls
<1>4. /\ served' \in 0..Len(committed) /\ readyTerm' \in [Nodes -> 0..MaxTerm]
      /\ readyMu' \in [Nodes -> Readers \cup {Nil}]
  BY <1>1 DEF ReadsInv, ReadsTypeOK, Calls, CheckState, Idle
<1>5. ReadyOK' BY DEF ReadsInv, ReadyOK, Sealed, Closed, Leads, raftVars, CheckState
<1>6. Told' BY DEF ReadsInv, Told, Within, Leads, raftVars, CheckState
<1>7. ReadOK(reader[r])'
  BY <1>1, <1>2, TypesAreNumbers DEF ReadsInv, Numbers, Calls, ReadOK, Within, Sealed, Closed, Leads, raftVars, CheckState, Idle
<1> QED BY <1>2, <1>3, <1>4, <1>5, <1>6, <1>7, ReaderStep

\* From here on a read goes by the term it has read.
LEMMA ReadTermReads ==
  ASSUME ReadsInv, NEW r \in Readers, ReadTerm(r) PROVE ReadsInv'
<1> DEFINE x == reader[r]
<1>1. reader \in [Readers -> Calls] /\ x \in Calls BY DEF ReadsInv, ReadsTypeOK, Calls
<1>2. /\ UNCHANGED raftVars /\ reader' = [reader EXCEPT ![r] = reader'[r]]
      /\ x.pc = "term" /\ reader'[r] = [x EXCEPT !.pc = "lock", !.term = term[x.node]]
  BY <1>1 DEF Goto, ReadTerm
<1>3. reader'[r] \in Calls
  <2>1. term[x.node] \in 0..MaxTerm BY <1>2 DEF ReadsInv, ReadsTypeOK, ReadOK
  <2> QED BY <1>1, <1>2, <2>1 DEF Calls
<1>4. /\ served' \in 0..Len(committed) /\ readyTerm' \in [Nodes -> 0..MaxTerm]
      /\ readyMu' \in [Nodes -> Readers \cup {Nil}]
  BY <1>1 DEF ReadsInv, ReadsTypeOK, Calls, ReadTerm
<1>5. ReadyOK' BY DEF ReadsInv, ReadyOK, Sealed, Closed, Leads, raftVars, ReadTerm
<1>6. Told' BY DEF ReadsInv, Told, Within, Leads, raftVars, ReadTerm
<1>7. ReadOK(reader[r])'
  BY <1>1, <1>2, TypesAreNumbers DEF ReadsInv, Numbers, Calls, ReadOK, Within, Sealed, Closed, Leads, raftVars, ReadTerm
<1> QED BY <1>2, <1>3, <1>4, <1>5, <1>6, <1>7, ReaderStep

\* A term that has had its barrier is sealed and closed.
LEMMA LockReads ==
  ASSUME ReadsInv, NEW r \in Readers, Lock(r) PROVE ReadsInv'
<1> DEFINE x == reader[r]
<1>1. reader \in [Readers -> Calls] /\ x \in Calls BY DEF ReadsInv, ReadsTypeOK, Calls
<1>2. /\ UNCHANGED raftVars /\ reader' = [reader EXCEPT ![r] = reader'[r]]
      /\ x.pc = "lock"
      /\ \/ reader'[r] = [x EXCEPT !.pc = "view"] /\ readyTerm[x.node] = x.term
         \/ reader'[r] = [x EXCEPT !.pc = "barrier"] /\ x.barrier = Nil
  BY <1>1 DEF ReadsInv, ReadOK, Goto, Lock, Ready
<1>3. reader'[r] \in Calls BY <1>1, <1>2 DEF Calls
<1>4. /\ served' \in 0..Len(committed) /\ readyTerm' \in [Nodes -> 0..MaxTerm]
      /\ readyMu' \in [Nodes -> Readers \cup {Nil}]
  <2>1. readyMu' \in {readyMu, [readyMu EXCEPT ![x.node] = r]} BY DEF Lock
  <2>2. readyMu \in [Nodes -> Readers \cup {Nil}] BY DEF ReadsInv, ReadsTypeOK
  <2>3. readyMu' \in [Nodes -> Readers \cup {Nil}] BY <2>1, <2>2
  <2>4. UNCHANGED <<served, readyTerm>> BY DEF Lock
  <2> QED BY <2>3, <2>4 DEF ReadsInv, ReadsTypeOK
<1>5. ReadyOK' BY DEF ReadsInv, ReadyOK, Sealed, Closed, Leads, raftVars, Lock
<1>6. Told' BY DEF ReadsInv, Told, Within, Leads, raftVars, Lock
<1>7. ReadOK(reader[r])'
  <2>1. ReadOK(x) BY DEF ReadsInv
  <2>2. /\ x.node \in Nodes /\ x.term <= term[x.node]
        /\ Within(x.floor, x.node, x.term)
    BY <1>2, <2>1 DEF ReadOK
  <2>3. CASE reader'[r] = [x EXCEPT !.pc = "view"] /\ readyTerm[x.node] = x.term
    <3>1. Sealed(x.term, applied[x.node]) /\ Closed(x.term) BY <2>2, <2>3 DEF ReadsInv, ReadyOK
    <3> QED BY <1>1, <1>2, <2>2, <2>3, <3>1
        DEF Calls, ReadOK, Within, Sealed, Closed, Leads, raftVars
  <2>4. CASE reader'[r] = [x EXCEPT !.pc = "barrier"] /\ x.barrier = Nil
    BY <1>1, <1>2, <2>2, <2>4 DEF Calls, ReadOK, Within, raftVars
  <2> QED BY <1>2, <2>3, <2>4
<1> QED BY <1>2, <1>3, <1>4, <1>5, <1>6, <1>7, ReaderStep

\* The barrier is behind every entry there is, and closes the terms before.
LEMMA IssueBarrierReads ==
  ASSUME ReadsInv, NEW r \in Readers, IssueBarrier(r) PROVE ReadsInv'
<1> DEFINE x == reader[r]
<1>1. reader \in [Readers -> Calls] /\ x \in Calls BY DEF ReadsInv, ReadsTypeOK, Calls
<1>2. /\ UNCHANGED raftVars /\ reader' = [reader EXCEPT ![r] = reader'[r]]
      /\ x.pc = "barrier" /\ Leads(x.node)
      /\ reader'[r] = [x EXCEPT !.barrier = [index |-> Len(committed), term |-> term[x.node]]]
  BY <1>1 DEF Goto, IssueBarrier
<1>3. reader'[r] \in Calls
  <2>1. term[x.node] \in 1..MaxTerm
    BY <1>2, ReadsAssumption DEF ReadsInv, ReadsTypeOK, Terms, OwnTerms, ReadOK, Leads
  <2>2. Len(committed) \in 0..Len(committed) BY DEF ReadsInv, ReadsTypeOK
  <2>3. [index |-> Len(committed), term |-> term[x.node]]
          \in [index : 0..Len(committed), term : 1..MaxTerm] BY <2>1, <2>2
  <2> QED BY <1>1, <1>2, <2>3 DEF Calls
<1>4. /\ served' \in 0..Len(committed) /\ readyTerm' \in [Nodes -> 0..MaxTerm]
      /\ readyMu' \in [Nodes -> Readers \cup {Nil}]
  BY <1>1 DEF ReadsInv, ReadsTypeOK, Calls, IssueBarrier
<1>5. ReadyOK' BY DEF ReadsInv, ReadyOK, Sealed, Closed, Leads, raftVars, IssueBarrier
<1>6. Told' BY DEF ReadsInv, Told, Within, Leads, raftVars, IssueBarrier
<1>7. ReadOK(reader[r])'
  BY <1>1, <1>2, TypesAreNumbers DEF ReadsInv, Numbers, Calls, ReadOK, Within, Sealed, Closed, Leads, raftVars, IssueBarrier
<1> QED BY <1>2, <1>3, <1>4, <1>5, <1>6, <1>7, ReaderStep

\* Once it is applied, the node has what was sealed by it.
LEMMA BarrierDoneReads ==
  ASSUME ReadsInv, NEW r \in Readers, BarrierDone(r) PROVE ReadsInv'
<1> DEFINE x == reader[r]
<1>1. reader \in [Readers -> Calls] /\ x \in Calls BY DEF ReadsInv, ReadsTypeOK, Calls
<1>2. /\ UNCHANGED raftVars /\ reader' = [reader EXCEPT ![r] = reader'[r]]
      /\ x.pc = "barrier" /\ x.barrier # Nil /\ reader'[r] = [x EXCEPT !.pc = "view"]
      /\ applied[x.node] >= x.barrier.index
  BY <1>1 DEF Goto, BarrierDone
<1>3. reader'[r] \in Calls BY <1>1, <1>2 DEF Calls
<1>4. /\ served' \in 0..Len(committed) /\ readyTerm' \in [Nodes -> 0..MaxTerm]
      /\ readyMu' \in [Nodes -> Readers \cup {Nil}]
  BY <1>1 DEF ReadsInv, ReadsTypeOK, Calls, BarrierDone, Unlock
<1>5. /\ x.node \in Nodes /\ x.term <= term[x.node]
      /\ Sealed(x.term, applied[x.node]) /\ Closed(x.term)
  <2>1. ReadOK(x) BY DEF ReadsInv
  <2>2. /\ x.term <= x.barrier.term /\ x.barrier.index <= applied[x.node]
        /\ Sealed(x.barrier.term, x.barrier.index) /\ Closed(x.barrier.term)
    BY <1>2, <2>1 DEF ReadOK
  <2>3. x.node \in Nodes /\ x.term <= term[x.node] BY <1>2, <2>1 DEF ReadOK
  <2>4. x.term \in Nat /\ x.barrier.term \in Nat /\ x.barrier.index \in Nat
    BY <1>2, TypesAreNumbers DEF ReadsInv, Numbers
  <2>5. Sealed(x.term, applied[x.node])
    BY <2>2, <2>3, <2>4, TypesAreNumbers DEF ReadsInv, Numbers, Sealed
  <2>6. Closed(x.term) BY <2>2, <2>4, TypesAreNumbers DEF ReadsInv, Numbers, Closed
  <2> QED BY <2>3, <2>5, <2>6
<1>6. ReadyOK'
  <2>1. readyTerm' = [readyTerm EXCEPT ![x.node] = x.term] BY DEF BarrierDone
  <2> QED BY <1>2, <1>5, <2>1 DEF ReadsInv, ReadsTypeOK, ReadyOK, Sealed, Closed, Leads, raftVars
<1>7. Told' BY DEF ReadsInv, Told, Within, Leads, raftVars, BarrierDone
<1>8. ReadOK(reader[r])'
  <2>1. ReadOK(x) BY DEF ReadsInv
  <2> QED BY <1>1, <1>2, <1>5, <2>1 DEF Calls, ReadOK, Within, Sealed, Closed, Leads, raftVars
<1> QED BY <1>2, <1>3, <1>4, <1>6, <1>7, <1>8, ReaderStep

\* A read that fails changes nothing else.
LEMMA BarrierFailsReads ==
  ASSUME ReadsInv, NEW r \in Readers, BarrierFails(r) PROVE ReadsInv'
<1> DEFINE x == reader[r]
<1>1. reader \in [Readers -> Calls] /\ x \in Calls BY DEF ReadsInv, ReadsTypeOK, Calls
<1>2. /\ UNCHANGED raftVars /\ reader' = [reader EXCEPT ![r] = reader'[r]]
      /\ reader'[r] = Idle
  BY <1>1 DEF Goto, BarrierFails
<1>3. reader'[r] \in Calls BY <1>2, IdleIsCall DEF ReadsInv
<1>4. /\ served' \in 0..Len(committed) /\ readyTerm' \in [Nodes -> 0..MaxTerm]
      /\ readyMu' \in [Nodes -> Readers \cup {Nil}]
  BY <1>1 DEF ReadsInv, ReadsTypeOK, Calls, BarrierFails, Unlock, Idle
<1>5. ReadyOK' BY DEF ReadsInv, ReadyOK, Sealed, Closed, Leads, raftVars, BarrierFails
<1>6. Told' BY DEF ReadsInv, Told, Within, Leads, raftVars, BarrierFails
<1>7. ReadOK(reader[r])'
  <2>1. reader'[r].pc = "idle" BY <1>2 DEF Idle
  <2> QED BY <2>1 DEF ReadOK
<1> QED BY <1>2, <1>3, <1>4, <1>5, <1>6, <1>7, ReaderStep

\* What a read on the leader returns is in the database of the leader.
LEMMA ViewReads ==
  ASSUME ReadsInv, NEW r \in Readers, View(r) PROVE ReadsInv'
<1> DEFINE x == reader[r]
<1>1. reader \in [Readers -> Calls] /\ x \in Calls BY DEF ReadsInv, ReadsTypeOK, Calls
<1>2. /\ UNCHANGED raftVars /\ reader' = [reader EXCEPT ![r] = reader'[r]]
      /\ x.pc = "view" /\ reader'[r] = Idle
  BY <1>1 DEF Goto, View
<1>3. reader'[r] \in Calls BY <1>2, IdleIsCall DEF ReadsInv
<1>4. /\ served' \in 0..Len(committed) /\ readyTerm' \in [Nodes -> 0..MaxTerm]
      /\ readyMu' \in [Nodes -> Readers \cup {Nil}]
  BY <1>2 DEF ReadsInv, ReadsTypeOK, ReadOK, View, Larger
<1>5. ReadyOK' BY DEF ReadsInv, ReadyOK, Sealed, Closed, Leads, raftVars, View
<1>6. Told'
  BY <1>2, TypesAreNumbers DEF ReadsInv, ReadsTypeOK, Numbers, Told, Within, Leads, Larger, raftVars, View
<1>7. ReadOK(reader[r])'
  <2>1. reader'[r].pc = "idle" BY <1>2 DEF Idle
  <2> QED BY <2>1 DEF ReadOK
<1> QED BY <1>2, <1>3, <1>4, <1>5, <1>6, <1>7, ReaderStep

----------------------------------------------------------------------------
(* The theorem.                                                             *)

\* Every step keeps the invariant.
LEMMA NextReads == ReadsInv /\ [ReadsNext]_readsVars => ReadsInv'
<1> SUFFICES ASSUME ReadsInv, [ReadsNext]_readsVars PROVE ReadsInv' OBVIOUS
<1>1. ASSUME NEW n \in Nodes,
             Campaign(n) \/ Win(n) \/ Learn(n) \/ Commit(n) \/ Apply(n) \/ Ack(n)
      PROVE  ReadsInv'
  BY <1>1, CampaignReads, WinReads, LearnReads, CommitReads, ApplyReads, AckReads
<1>2. ASSUME NEW n \in Nodes, NEW r \in Readers, Call(r, n) PROVE ReadsInv'
  BY <1>2, CallReads
<1>3. ASSUME NEW r \in Readers, Lock(r) \/ Step(r) PROVE ReadsInv'
  BY <1>3, LockReads, CheckStateReads, ReadTermReads, IssueBarrierReads, BarrierDoneReads,
     BarrierFailsReads, ViewReads DEF Step
<1>4. CASE UNCHANGED readsVars
  BY <1>4 DEF readsVars, raftVars, ReadsInv, ReadsTypeOK, Terms, OwnTerms, LastElected, EntryTerms, NewTerm,
              ReadyOK, Told, ReadOK, Within, Sealed, Closed, Leads
<1> QED BY <1>1, <1>2, <1>3, <1>4 DEF ReadsNext

\* A read on the leader sees everything that was acknowledged or read before,
\* and no read gets past ensureCaughtUpAsLeader before its node has every
\* entry of the earlier terms, with any number of nodes and concurrent reads,
\* through any elections.
THEOREM LeaderReadsAreFresh == ReadsSafety => [](FreshReads /\ CaughtUp)
<1>1. ReadsInv => FreshReads /\ CaughtUp
  <2> SUFFICES ASSUME ReadsInv, NEW r \in Readers, reader[r].pc = "view"
               PROVE  /\ applied[reader[r].node] >= reader[r].floor
                      /\ Sealed(reader[r].term, applied[reader[r].node])
    BY DEF FreshReads, CaughtUp, Sealed
  <2>1. ReadOK(reader[r]) BY DEF ReadsInv
  <2> QED BY <2>1, TypesAreNumbers DEF ReadsInv, Numbers, ReadOK, Within, Sealed
<1> QED BY <1>1, InitReads, NextReads, PTL DEF ReadsSafety
=============================================================================
