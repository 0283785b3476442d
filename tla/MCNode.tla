------------------------------- MODULE MCNode -------------------------------
(***************************************************************************)
(* Small instances of four parts of a node that share no state: the        *)
(* supervisor, the leader-gated reads, the paginated lists and the retry   *)
(* delays.  One of them moves in a behaviour, the others stay as they      *)
(* begin; none can see the others, so more interleavings say no more.      *)
(***************************************************************************)
EXTENDS Supervisor, LeaderReads, Paging, RetryBackoff

\* Multipliers of 1, 2, 3/2 and 1/2.
MCMultipliers == {<<1, 1>>, <<2, 1>>, <<3, 2>>, <<1, 2>>}

VARIABLE part     \* the part that moves

Init ==
  /\ part \in {"supervisor", "reads", "paging", "backoff"}
  /\ SupervisorInit /\ ReadsInit /\ PagingInit /\ BackoffInit
  /\ part # "paging" => bucket = {}
  /\ part # "backoff" =>
       rb = [initial |-> 0, multiplier |-> <<1, 1>>, max |-> 0, maxAttempts |-> 0]

SupervisorMoves ==
  part = "supervisor" /\ SupervisorNext /\ UNCHANGED <<part, readsVars, pagingVars, backoffVars>>

ReadsMove ==
  part = "reads" /\ ReadsNext /\ UNCHANGED <<part, supervisorVars, pagingVars, backoffVars>>

PagingMoves ==
  part = "paging" /\ PagingNext /\ UNCHANGED <<part, supervisorVars, readsVars, backoffVars>>

BackoffMoves ==
  part = "backoff" /\ BackoffNext /\ UNCHANGED <<part, supervisorVars, readsVars, pagingVars>>

Next == SupervisorMoves \/ ReadsMove \/ PagingMoves \/ BackoffMoves

\* No fair action of a part can be taken before the part has moved.
Spec ==
  /\ Init
  /\ [][Next]_<<part, supervisorVars, readsVars, pagingVars, backoffVars>>
  /\ SupervisorFairness /\ ReadsFairness /\ PagingFairness

\* Every variable of the parts has its type; among this, Raft never has more
\* than one announcement in the channel, and no page has more rows than its limit.
TypeOK == SupervisorTypeOK /\ ReadsTypeOK /\ PagingTypeOK
=============================================================================
