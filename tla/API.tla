-------------------------------- MODULE API --------------------------------
(***************************************************************************)
(* internal/api: what becomes of HTTP requests, on a cluster whose leader  *)
(* may change at any point of a handler.  A handler asks whether its node  *)
(* leads, checks the credentials (auth.go) and the budget, and then reads  *)
(* or proposes through the node's RaftNode.                                *)
(*                                                                         *)
(* The cluster is the one of module Scheduler: db is the database of the   *)
(* committed log, a deposed leader that does not know goes on reading the  *)
(* database it had, and its proposals fail when it steps down although one *)
(* may have reached the next leader.  Module LeaderReads justifies that    *)
(* the elected leader reads db.  Whether a budget is left is open here     *)
(* (module RateLimiter), and storage does not fail.                        *)
(*                                                                         *)
(* An API key is known by its hash.                                        *)
(***************************************************************************)
EXTENDS Consistency

CONSTANTS
  Requests,
  AdminKey,        \* the configured admin key
  Inputs,          \* what clients send
  Initial,         \* the database when the behaviour begins
  MaxDepositions

Write == {"create_tenant", "create_schedule", "pause", "cancel", "resume"}
Listing == {"list_tenants", "executions_by_schedule", "executions_by_status", "attempts"}
Lookup == {"get_tenant", "get_schedule", "get_execution", "get_attempt"}
AdminOnly == {"create_tenant", "list_tenants"}

\* What the router and the decoding of the body leave of a request.
InputOK(q) ==
  /\ q.endpoint \in Write \cup Listing \cup Lookup
  /\ q.token \in KeyHashes \cup {AdminKey, Nil}
  /\ q.endpoint # "list_tenants" => q.tenant \in Tenants
  /\ q.endpoint \in {"create_schedule", "pause", "cancel", "resume"} => q.id \in ScheduleIds
  /\ q.endpoint = "create_schedule" =>
       q.spec \in [scheduleType : STRING, firstRunAt : Int, recurrence : Recurrences \cup {Nil},
                   timezone : STRING, catchUpPolicy : STRING, callbackURL : CallbackURLs,
                   headers : SUBSET HeaderKeys, maxAttempts : Int, callTimeout : Int \cup {Nil}]

InputsOK == \A q \in Inputs : InputOK(q)

ASSUME APIAssumption ==
  /\ AdminKey \notin KeyHashes \cup {Nil}
  /\ InputsOK
  /\ Consistent(Initial) /\ Nil \notin DB
  /\ MaxDepositions \in Nat

VARIABLES
  db, elected, role, stale,     \* as in module Scheduler
  ready,         \* node -> it has had the barrier of its term
  request,       \* request -> where it is
  generated,     \* keys generated so far
  shown,         \* keys that clients have
  depositions

clusterVars == <<elected, role, stale, depositions>>
vars == <<db, clusterVars, ready, request, generated, shown>>

Idle == [pc |-> "idle"]

Init ==
  /\ db = Initial
  /\ elected = Nil
  /\ role = [n \in Nodes |-> "follower"]
  /\ stale = [n \in Nodes |-> Nil]
  /\ ready = [n \in Nodes |-> FALSE]
  /\ request = [r \in Requests |-> Idle]
  /\ generated = {h \in KeyHashes : \E t \in Tenants : GetTenant(db, t) = h}
  /\ shown = generated
  /\ depositions = 0

----------------------------------------------------------------------------
(* Leadership.                                                              *)

Elect(n) ==
  /\ elected = Nil
  /\ role[n] = "follower"
  /\ elected' = n
  /\ role' = [role EXCEPT ![n] = "leader"]
  /\ ready' = [ready EXCEPT ![n] = FALSE]
  /\ UNCHANGED <<db, stale, depositions, request, generated, shown>>

Depose(n) ==
  /\ elected = n
  /\ depositions < MaxDepositions
  /\ depositions' = depositions + 1
  /\ elected' = Nil
  /\ stale' = [stale EXCEPT ![n] = db]
  /\ UNCHANGED <<db, role, ready, request, generated, shown>>

StepDown(n) ==
  /\ stale[n] # Nil
  /\ stale' = [stale EXCEPT ![n] = Nil]
  /\ role' = [role EXCEPT ![n] = "follower"]
  /\ UNCHANGED <<db, elected, depositions, ready, request, generated, shown>>

----------------------------------------------------------------------------
(* RaftNode's reads: the database or one of two errors.  One step stands    *)
(* for a read; module LeaderReads has the steps.                            *)

ReadResults(n) ==
  IF role[n] # "leader" THEN {"not_leader"}
  ELSE IF ready[n] THEN {"ok"}
  ELSE IF n = elected THEN {"ok", "not_caught_up"} ELSE {"not_caught_up"}

View(n) == IF n = elected THEN db ELSE stale[n]

\* The barrier of the term is behind a node that has read.
Reads(n, result) ==
  /\ ready' = [ready EXCEPT ![n] = @ \/ result = "ok"]
  /\ UNCHANGED <<db, clusterVars, generated, shown>>

\* writeReadError.
ReadErrorStatus(result) == IF result = "not_caught_up" THEN 503 ELSE 500

----------------------------------------------------------------------------
(* Answers and the checks before a handler's own work.                      *)

Goto(r, pc) == request' = [request EXCEPT ![r].pc = pc]

Answer(r, status) ==
  request' = [request EXCEPT ![r].pc = "answered", ![r].status = status]

\* A request arrives at n.  valid: n leads, and the key is the tenant's own.
Arrive(r, n, q) ==
  /\ request[r] = Idle
  /\ q.token \in KeyHashes => q.token \in shown
  /\ request' = [request EXCEPT ![r] =
       [pc |-> "arrived", node |-> n, input |-> q, status |-> 0, cmd |-> Nil, key |-> Nil,
        sent |-> FALSE, applied |-> FALSE,
        valid |-> n = elected /\ q.token \in KeyHashes /\ GetTenant(db, q.tenant) = q.token]]
  /\ UNCHANGED <<db, clusterVars, ready, generated, shown>>

\* requireLeader, at the head of every handler.
requireLeader(r) ==
  /\ request[r].pc = "arrived"
  /\ IF role[request[r].node] = "leader" THEN Goto(r, "auth") ELSE Answer(r, 503)
  /\ UNCHANGED <<db, clusterVars, ready, generated, shown>>

allowRate(r) == Goto(r, "handler") \/ Answer(r, 429)

requireAdmin(r) ==
  LET q == request[r].input IN
  /\ request[r].pc = "auth"
  /\ q.endpoint \in AdminOnly
  /\ IF q.token = AdminKey THEN allowRate(r) ELSE Answer(r, 401)
  /\ UNCHANGED <<db, clusterVars, ready, generated, shown>>

\* Seeded fault: the key of any tenant will do.
KeyMatches_AnyTenant(d, t, token) == \E u \in Tenants : GetTenant(d, u) = token

\* The hash of the presented key is the one in the tenant's row.
KeyMatches(d, t, token) == GetTenant(d, t) # Nil /\ GetTenant(d, t) = token

requireTenantAccess(r) ==
  LET q == request[r].input
      n == request[r].node
  IN  /\ request[r].pc = "auth"
      /\ q.endpoint \notin AdminOnly
      /\ \/ /\ q.token = Nil
            /\ Answer(r, 401)
            /\ UNCHANGED <<db, clusterVars, ready, generated, shown>>
         \/ /\ q.token = AdminKey
            /\ allowRate(r)
            /\ UNCHANGED <<db, clusterVars, ready, generated, shown>>
         \/ /\ q.token \in KeyHashes
            /\ \E result \in ReadResults(n) :
                 /\ Reads(n, result)
                 /\ IF result # "ok" THEN Answer(r, ReadErrorStatus(result))
                    ELSE IF KeyMatches(View(n), q.tenant, q.token) THEN allowRate(r)
                    ELSE Answer(r, 401)

----------------------------------------------------------------------------
(* The handlers that read.                                                  *)

\* The database that a read for request r sees.
Seen(r) == View(request[r].node)

\* A handler that reads, and answers with the status if it could.
Serve(r, endpoint, status) ==
  LET n == request[r].node IN
  /\ request[r].pc = "handler"
  /\ request[r].input.endpoint = endpoint
  /\ \E result \in ReadResults(n) :
       /\ Reads(n, result)
       /\ Answer(r, IF result = "ok" THEN status ELSE ReadErrorStatus(result))

FoundStatus(row) == IF row = Nil THEN 404 ELSE 200

handleGetTenant(r) ==
  Serve(r, "get_tenant", FoundStatus(GetTenant(Seen(r), request[r].input.tenant)))

handleGetSchedule(r) ==
  LET q == request[r].input
  IN  Serve(r, "get_schedule", FoundStatus(GetSchedule(Seen(r), q.tenant, q.id)))

handleGetExecution(r) ==
  LET q == request[r].input
  IN  Serve(r, "get_execution", FoundStatus(GetExecution(Seen(r), q.tenant, q.id)))

handleGetAttempt(r) ==
  LET q == request[r].input
  IN  Serve(r, "get_attempt", FoundStatus(GetAttempt(Seen(r), q.tenant, q.id)))

\* The body or a parameter of the request is not well-formed.
BadRequest(r, endpoint) ==
  /\ request[r].pc = "handler"
  /\ request[r].input.endpoint = endpoint
  /\ ~ request[r].input.wellFormed
  /\ Answer(r, 400)
  /\ UNCHANGED <<db, clusterVars, ready, generated, shown>>

\* A list: parsePagination may refuse; the pages are in module Paging.
List(r, endpoint) ==
  \/ BadRequest(r, endpoint)
  \/ /\ request[r].pc = "handler" /\ request[r].input.wellFormed
     /\ Serve(r, endpoint, 200)

handleListTenants(r) == List(r, "list_tenants")
handleListExecutionsBySchedule(r) == List(r, "executions_by_schedule")
\* A request without a status is not well-formed either.
handleListExecutionsByStatus(r) == List(r, "executions_by_status")
handleListAttemptsByExecution(r) == List(r, "attempts")

----------------------------------------------------------------------------
(* The handlers that write.                                                 *)

\* The command is made, with the tenant of the path.
Submit(r, endpoint, cmd) ==
  /\ request[r].pc = "handler"
  /\ request[r].input.endpoint = endpoint
  /\ request' = [request EXCEPT ![r].pc = "propose", ![r].cmd = cmd]
  /\ UNCHANGED <<db, clusterVars, ready, generated, shown>>

\* Seeded fault: the key that is stored and the key that is shown are generated apart.
handleCreateTenant_Twice(r) ==
  /\ request[r].pc = "handler"
  /\ request[r].input.endpoint = "create_tenant"
  /\ request[r].input.wellFormed
  /\ \E h, shownKey \in KeyHashes \ generated :
       /\ generated' = generated \cup {h, shownKey}
       /\ request' = [request EXCEPT ![r].pc = "propose", ![r].key = shownKey,
            ![r].cmd = CreateTenantCommand(request[r].input.tenant, h)]
  /\ UNCHANGED <<db, clusterVars, ready, shown>>

\* The key is generated here, before the command is proposed.
handleCreateTenant(r) ==
  \/ BadRequest(r, "create_tenant")
  \/ /\ request[r].pc = "handler"
     /\ request[r].input.endpoint = "create_tenant"
     /\ request[r].input.wellFormed
     /\ \E h \in KeyHashes \ generated :
          /\ generated' = generated \cup {h}
          /\ request' = [request EXCEPT ![r].pc = "propose", ![r].key = h,
               ![r].cmd = CreateTenantCommand(request[r].input.tenant, h)]
     /\ UNCHANGED <<db, clusterVars, ready, shown>>

handleCreateSchedule(r) ==
  LET q == request[r].input IN
  \/ BadRequest(r, "create_schedule")
  \/ /\ request[r].pc = "handler" /\ q.wellFormed
     /\ Submit(r, "create_schedule", CreateScheduleCommand(q.tenant, q.id, q.spec))

handlePauseSchedule(r) ==
  LET q == request[r].input
  IN  Submit(r, "pause", PauseScheduleCommand(q.tenant, q.id))

handleCancelSchedule(r) ==
  LET q == request[r].input
  IN  Submit(r, "cancel", CancelScheduleCommand(q.tenant, q.id))

handleResumeSchedule(r) ==
  LET q == request[r].input
  IN  Submit(r, "resume", ResumeScheduleCommand(q.tenant, q.id))

\* propose asks for leadership once more.
propose(r) ==
  /\ request[r].pc = "propose"
  /\ IF role[request[r].node] = "leader" THEN Goto(r, "proposing") ELSE Answer(r, 503)
  /\ UNCHANGED <<db, clusterVars, ready, generated, shown>>

\* Seeded fault: a result that is a CommandError passes for success.
StatusOf_IgnoresErrors(endpoint, err) ==
  IF endpoint \in {"create_tenant", "create_schedule"} THEN 201 ELSE 200

\* Seeded fault: a conflict is answered with a status clients do not know.
StatusOf_Unprocessable(endpoint, err) ==
  IF err = "conflict" THEN 422
  ELSE IF err = "none" THEN (IF endpoint \in {"create_tenant", "create_schedule"} THEN 201 ELSE 200)
  ELSE 400

\* statusForCommandErrorKind, or the handler's own status.
StatusOf(endpoint, err) ==
  CASE err = "validation" -> 400
    [] err = "not_found" -> 404
    [] err = "conflict" -> 409
    [] err = "storage" -> 500
    [] err = "none" -> IF endpoint \in {"create_tenant", "create_schedule"} THEN 201 ELSE 200

\* Raft commits the command and the answer goes out.
Committed(r) ==
  LET x == request[r]
      result == Dispatch(db, x.cmd, 0)
  IN  /\ x.pc = "proposing" /\ x.node = elected /\ ~ x.sent
      /\ db' = IF result.err = "none" THEN result.db ELSE db
      /\ request' = [request EXCEPT ![r].pc = "answered",
           ![r].status = StatusOf(x.input.endpoint, result.err),
           ![r].applied = result.err = "none"]
      /\ shown' = IF result.err = "none" THEN shown \cup ({x.key} \ {Nil}) ELSE shown
      /\ UNCHANGED <<clusterVars, ready, generated>>

\* A deposed leader's proposal has reached the next one, but not its answer.
SentUnanswered(r) ==
  LET x == request[r]
      result == Dispatch(db, x.cmd, 0)
  IN  /\ x.pc = "proposing" /\ ~ x.sent
      /\ elected = Nil /\ stale[x.node] # Nil
      /\ db' = IF result.err = "none" THEN result.db ELSE db
      /\ request' = [request EXCEPT ![r].sent = TRUE, ![r].applied = result.err = "none"]
      /\ UNCHANGED <<clusterVars, ready, generated, shown>>

\* Propose fails: the node has stepped down, or Raft did not take the command
\* in time.
ProposeFails(r) ==
  LET x == request[r] IN
  /\ x.pc = "proposing"
  /\ x.sent => role[x.node] # "leader" \/ x.node = elected
  /\ Answer(r, 503)
  /\ UNCHANGED <<db, clusterVars, ready, generated, shown>>

----------------------------------------------------------------------------
Handle(r) ==
  \/ requireLeader(r) \/ requireAdmin(r) \/ requireTenantAccess(r)
  \/ handleGetTenant(r) \/ handleGetSchedule(r) \/ handleGetExecution(r) \/ handleGetAttempt(r)
  \/ handleListTenants(r) \/ handleListExecutionsBySchedule(r)
  \/ handleListExecutionsByStatus(r) \/ handleListAttemptsByExecution(r)
  \/ handleCreateTenant(r) \/ handleCreateSchedule(r)
  \/ handlePauseSchedule(r) \/ handleCancelSchedule(r) \/ handleResumeSchedule(r)
  \/ propose(r) \/ Committed(r) \/ SentUnanswered(r) \/ ProposeFails(r)

Next ==
  \/ \E n \in Nodes :
       \/ Elect(n) \/ Depose(n) \/ StepDown(n)
       \/ \E r \in Requests, q \in Inputs : Arrive(r, n, q)
  \/ \E r \in Requests : Handle(r)

Spec == Init /\ [][Next]_vars

----------------------------------------------------------------------------
(* Properties.                                                              *)

Answered(r) == request[r].pc = "answered"

\* Every variable has its type, and a deposed leader that does not know it is
\* not the one that was elected.
TypeOK ==
  /\ db \in DB
  /\ elected \in Nodes \cup {Nil}
  /\ role \in [Nodes -> {"leader", "follower"}]
  /\ \A n \in Nodes : stale[n] # Nil => role[n] = "leader" /\ n # elected
  /\ ready \in [Nodes -> BOOLEAN]
  /\ \A r \in Requests :
       Answered(r) => request[r].status \in {200, 201, 400, 401, 404, 409, 429, 500, 503}
  /\ shown \subseteq generated /\ generated \subseteq KeyHashes
  /\ depositions \in 0..MaxDepositions

\* Only 503 leaves the client in doubt: 200 and 201 mean that the command of
\* the request has taken effect, every other status that it has not and will
\* not, although leadership may change at any point of the handler.
DefiniteAnswers ==
  \A r \in Requests :
    Answered(r) /\ request[r].input.endpoint \in Write =>
      /\ request[r].status \in {200, 201} => request[r].applied
      /\ request[r].status \notin {200, 201, 503} => ~ request[r].applied

\* The key in a 201 works from then on: it stays the key of the tenant, whatever
\* other requests to create the same tenant do, and a request with it that
\* arrives at the leader is not answered with 401, even if the leader is
\* deposed before it looks the tenant up.
ShownKeyWorks ==
  \A r \in Requests : Answered(r) =>
    /\ request[r].input.endpoint = "create_tenant" /\ request[r].status = 201 =>
         GetTenant(db, request[r].input.tenant) = request[r].key
    /\ request[r].valid /\ request[r].input.endpoint \notin AdminOnly =>
         request[r].status # 401

\* README.md:57, "A tenant's key only ever authorizes that tenant's own
\* resources": nothing is read or changed with the key of another tenant.
OwnTenantOnly ==
  \A r \in Requests :
    Answered(r) /\ request[r].input.token \in KeyHashes
      /\ (request[r].applied \/ request[r].status \in {200, 201, 404, 409}) =>
      GetTenant(db, request[r].input.tenant) = request[r].input.token
=============================================================================
