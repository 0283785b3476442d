------------------------------- MODULE MCAPI -------------------------------
(***************************************************************************)
(* Small instances of API and RateLimiter, which share no state.  One of   *)
(* them moves in a behaviour, the other stays as it begins.                *)
(*                                                                         *)
(* API has two tenants, of which t2 is there from the start and has a      *)
(* schedule with an execution in flight.                                   *)
(***************************************************************************)
EXTENDS API, RateLimiter, TLC

CONSTANTS t1, t2, s1, e1, a1, n1, h1, h2, h3

MCZones == [UTC |-> [std |-> 0, dst |-> 0, from |-> 0, until |-> 0]]

MCCanonicalKey == "X-Trace" :> "X-Trace"

OnceSpec ==
  [scheduleType |-> "once", firstRunAt |-> 0, recurrence |-> Nil, timezone |-> "UTC",
   catchUpPolicy |-> "", callbackURL |-> "usable", headers |-> {}, maxAttempts |-> 2,
   callTimeout |-> Nil]

MCInitial ==
  LET d1 == ApplyCreateTenant(EmptyDB, CreateTenantCommand(t2, h2)).db
      d2 == ApplyCreateSchedule(d1, CreateScheduleCommand(t2, s1, OnceSpec)).db
      d3 == ApplyClaimExecution(d2, ClaimExecutionCommand(t2, s1, e1, 0, n1)).db
  IN  ApplyRecordAttempt(d3, RecordAttemptCommand(t2, e1, a1, n1, "usable", "retry", 0)).db

Input(endpoint, token, tenant, id, wellFormed) ==
  [endpoint |-> endpoint, token |-> token, tenant |-> tenant, id |-> id, spec |-> OnceSpec,
   wellFormed |-> wellFormed]

\* Every endpoint, with credentials that are right, wrong and missing; the key of
\* t1 will be the one that was generated for it.
AllInputs ==
  {Input("create_tenant", AdminKey, t1, Nil, ok) : ok \in BOOLEAN}
  \cup {Input("create_tenant", h2, t1, Nil, TRUE), Input("get_tenant", Nil, t2, Nil, TRUE),
        Input("get_tenant", AdminKey, t1, Nil, TRUE), Input("get_schedule", h2, t1, s1, TRUE),
        Input("get_schedule", h2, t2, s1, TRUE), Input("get_execution", h2, t2, e1, TRUE),
        Input("get_attempt", h2, t2, a1, TRUE), Input("list_tenants", AdminKey, Nil, Nil, TRUE),
        Input("pause", h2, t2, s1, TRUE), Input("cancel", AdminKey, t2, s1, TRUE),
        Input("resume", h2, t2, s1, TRUE)}
  \cup {Input("executions_by_schedule", h2, t2, s1, ok) : ok \in BOOLEAN}
  \cup {Input("executions_by_status", h2, t2, "in_flight", TRUE),
        Input("attempts", h2, t2, e1, TRUE)}
  \cup {Input("create_schedule", h2, t2, s1, FALSE)}
  \cup {Input("create_schedule", h, t1, s1, TRUE) : h \in {h1, h3}}

VARIABLE part     \* the part that moves

MCInit == part \in {"api", "limiter"} /\ Init /\ LimiterInit

APIMoves == part = "api" /\ Next /\ UNCHANGED <<part, limiterVars>>
LimiterMoves == part = "limiter" /\ LimiterNext /\ UNCHANGED <<part, vars>>

MCNext == APIMoves \/ LimiterMoves

MCSpec == MCInit /\ [][MCNext]_<<part, vars, limiterVars>>

\* Every variable of both has its type.
MCTypeOK == TypeOK /\ LimiterTypeOK

Symmetry == Permutations(Requests) \cup Permutations(Handlers)
=============================================================================
