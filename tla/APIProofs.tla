----------------------------- MODULE APIProofs -----------------------------
(***************************************************************************)
(* What the API answers, for any number of nodes, requests and tenants,    *)
(* any requests, and any consistent database to begin with.                *)
(***************************************************************************)
EXTENDS API, CommandProofs

\* A leaf may take the provers half a minute.
USE SMTT(30), ZenonT(30)

Refusals == {400, 401, 429, 500, 503}
Statuses == {200, 201, 400, 401, 404, 409, 429, 500, 503}

\* The command that a handler makes of a request, with the key it generated.
CommandOf(q, h) ==
  CASE q.endpoint = "create_tenant" -> CreateTenantCommand(q.tenant, h)
    [] q.endpoint = "create_schedule" -> CreateScheduleCommand(q.tenant, q.id, q.spec)
    [] q.endpoint = "pause" -> PauseScheduleCommand(q.tenant, q.id)
    [] q.endpoint = "cancel" -> CancelScheduleCommand(q.tenant, q.id)
    [] q.endpoint = "resume" -> ResumeScheduleCommand(q.tenant, q.id)

Proposals == {CommandOf(q, h) : q \in Inputs, h \in KeyHashes \cup {Nil}}

\* A request that is being handled.
Call ==
  [pc : {"arrived", "auth", "handler", "propose", "proposing", "answered"},
   node : Nodes, input : Inputs, status : {0} \cup Statuses,
   cmd : {Nil} \cup Proposals, key : KeyHashes \cup {Nil},
   sent : BOOLEAN, applied : BOOLEAN, valid : BOOLEAN]

\* Database n has the tenants of database d, with the same keys.
TenantsKept(d, n) ==
  \A t \in Tenants : d.tenants[t] # Nil => n.tenants[t] = d.tenants[t]

\* What is proposed is the command of the request; the key in it was generated.
ProposesOwn(x, keys) ==
  /\ x.pc \in {"arrived", "auth", "handler"} => x.key = Nil
  /\ x.pc \in {"propose", "proposing"} =>
       /\ x.input.endpoint \in Write
       /\ x.cmd = CommandOf(x.input, x.key)
       /\ IF x.input.endpoint = "create_tenant" THEN x.key \in keys ELSE x.key = Nil

\* Only a proposal takes effect, and the answer tells.
Definite(x) ==
  /\ x.pc # "answered" /\ ~ x.sent => ~ x.applied
  /\ x.sent => x.pc \in {"proposing", "answered"}
  /\ x.pc = "answered" =>
       /\ x.status \in Statuses
       /\ x.input.endpoint \in Write =>
            /\ x.status \in {200, 201} => x.applied
            /\ x.status \notin {200, 201, 503} => ~ x.applied

\* A 201 to create_tenant shows the key of the tenant in d.
KeyShown(x, d) ==
  x.pc = "answered" /\ x.input.endpoint = "create_tenant" /\ x.status = 201 =>
    x.key # Nil /\ d.tenants[x.input.tenant] = x.key

\* A request that was valid on arrival stays so, in d and in what its node
\* reads once that is deposed.
StaysValid(x, d, old) ==
  x.valid /\ x.input.endpoint \notin AdminOnly =>
    /\ x.input.token \in KeyHashes
    /\ d.tenants[x.input.tenant] = x.input.token
    /\ old[x.node] # Nil => old[x.node].tenants[x.input.tenant] = x.input.token
    /\ x.pc = "answered" => x.status # 401

\* A request that got past requireAdmin or requireTenantAccess.
Admitted(x) ==
  \/ x.pc \in {"handler", "propose", "proposing"}
  \/ x.pc = "answered" /\ (x.applied \/ x.status \in {200, 201, 404, 409})

\* One with the key of a tenant is about that tenant.
AdmittedOwn(x, d) ==
  Admitted(x) /\ x.input.token \in KeyHashes =>
    x.input.endpoint \notin AdminOnly /\ d.tenants[x.input.tenant] = x.input.token

Fine(x, d, old, keys) ==
  ProposesOwn(x, keys) /\ Definite(x) /\ KeyShown(x, d) /\ StaysValid(x, d, old) /\ AdmittedOwn(x, d)

\* The inductive invariant.
APIInv ==
  /\ Consistent(db)
  /\ elected \in Nodes \cup {Nil}
  /\ role \in [Nodes -> {"leader", "follower"}]
  /\ stale \in [Nodes -> DB \cup {Nil}]
  /\ ready \in [Nodes -> BOOLEAN]
  /\ depositions \in 0..MaxDepositions
  /\ \A n \in Nodes : role[n] = "leader" <=> n = elected \/ stale[n] # Nil
  /\ \A n \in Nodes : stale[n] # Nil => n # elected /\ TenantsKept(stale[n], db)
  /\ shown \subseteq generated /\ generated \subseteq KeyHashes
  /\ request \in [Requests -> Call \cup {Idle}]
  /\ \A r \in Requests : request[r] # Idle => Fine(request[r], db, stale, generated)

\* A request that goes on is as valid as before, if it is not answered with 401.
LEMMA ValidMoves ==
  ASSUME NEW x, NEW y, NEW d, NEW old, StaysValid(x, d, old),
         y.valid = x.valid, y.input = x.input, y.node = x.node,
         x.valid /\ x.input.endpoint \notin AdminOnly /\ y.pc = "answered" => y.status # 401
  PROVE  StaysValid(y, d, old)
BY DEF StaysValid

\* A valid request finds its key, also in the database of a deposed leader.
LEMMA ValidFinds ==
  ASSUME NEW x, NEW d, NEW old, StaysValid(x, d, old),
         x.valid, x.input.endpoint \notin AdminOnly
  PROVE  /\ x.input.token \in KeyHashes
         /\ d.tenants[x.input.tenant] = x.input.token
         /\ old[x.node] # Nil => old[x.node].tenants[x.input.tenant] = x.input.token
BY DEF StaysValid

\* A request that goes on has the tenant of its key, if it had been let in.
LEMMA AdmittedMoves ==
  ASSUME NEW x, NEW y, NEW d, AdmittedOwn(x, d), y.input = x.input, Admitted(y) => Admitted(x)
  PROVE  AdmittedOwn(y, d)
BY DEF AdmittedOwn

\* The parts of the assumption on inputs that the commands need.
LEMMA InputTypes ==
  ASSUME NEW q \in Inputs
  PROVE  InputOK(q)
BY APIAssumption DEF InputsOK

\* A write of a schedule leaves the tenants alone.
LEMMA SchedulesKeepTenants ==
  ASSUME NEW d \in DB, NEW t, NEW id, NEW row
  PROVE  PutSchedule(d, t, id, row).tenants = d.tenants
BY DEF PutSchedule, DB

\* What the command of a request with input q and key h may come to.
Effective(d, q, h, res) ==
  /\ res.err \in ErrorKinds \cup {"none"}
  /\ res.err = "none" =>
       /\ Consistent(res.db)
       /\ TenantsKept(d, res.db)
       /\ q.endpoint = "create_tenant" => res.db.tenants[q.tenant] = h

\* A command of the API is rejected with a CommandError or takes effect: the
\* database stays consistent and every tenant keeps its key.
LEMMA CommandEffect ==
  ASSUME NEW d, Consistent(d), NEW q \in Inputs, q.endpoint \in Write,
         NEW h \in KeyHashes \cup {Nil}, q.endpoint = "create_tenant" => h \in KeyHashes,
         NEW res, res = Dispatch(d, CommandOf(q, h), 0)
  PROVE  Effective(d, q, h, res)
<1> DEFINE c == CommandOf(q, h)
<1>1. d \in DB /\ Intact(d)
  BY DEF Consistent, Intact
<1>2. InputOK(q)
  BY InputTypes
<1>3. CASE q.endpoint = "create_tenant"
  <2>1. c = CreateTenantCommand(q.tenant, h) /\ q.tenant \in Tenants /\ h \in KeyHashes
    BY <1>2, <1>3 DEF CommandOf, InputOK
  <2>2. res = ApplyCreateTenant(d, c) /\ c.id = q.tenant /\ c.apiKeyHash = h
    BY <2>1 DEF Dispatch, CreateTenantCommand
  <2>3. res.err \in ErrorKinds \cup {"none"}
    BY <2>2 DEF ApplyCreateTenant, Ok, Fail, ErrorKinds
  <2>4. ASSUME res.err = "none"
        PROVE  res.db = PutTenant(d, q.tenant, h) /\ d.tenants[q.tenant] = Nil
    BY <2>2, <2>4 DEF ApplyCreateTenant, Ok, Fail, GetTenant
  <2>5. ASSUME res.err = "none"
        PROVE  res.db.tenants[q.tenant] = h /\ TenantsKept(d, res.db)
    <3>1. res.db.tenants = [d.tenants EXCEPT ![q.tenant] = h] /\ DOMAIN d.tenants = Tenants
      BY <1>1, <2>4, <2>5 DEF PutTenant, DB
    <3> QED
      BY <2>1, <2>4, <2>5, <3>1 DEF TenantsKept
  <2>6. res.err = "none" => Consistent(res.db)
    BY <1>1, <2>1, <2>2, CreateTenantLegal DEF Legal, Consistent
  <2> QED
    BY <2>3, <2>5, <2>6 DEF Effective
<1>4. ASSUME res.err \in ErrorKinds \cup {"none"},
             res.err = "none" => Legal(d, res.db),
             res.err = "none" => res.db = d \/ \E t, id, row : res.db = PutSchedule(d, t, id, row),
             q.endpoint # "create_tenant"
      PROVE  Effective(d, q, h, res)
  <2>1. res.err = "none" => res.db.tenants = d.tenants
    BY <1>1, <1>4, SchedulesKeepTenants
  <2> QED
    BY <1>4, <2>1 DEF Legal, Consistent, TenantsKept, Effective
<1>5. CASE q.endpoint = "create_schedule"
  <2>1. c = CreateScheduleCommand(q.tenant, q.id, q.spec)
    BY <1>5 DEF CommandOf
  <2>2. /\ q.tenant \in Tenants /\ q.id \in ScheduleIds
        /\ q.spec \in [scheduleType : STRING, firstRunAt : Int, recurrence : Recurrences \cup {Nil},
                       timezone : STRING, catchUpPolicy : STRING, callbackURL : CallbackURLs,
                       headers : SUBSET HeaderKeys, maxAttempts : Int, callTimeout : Int \cup {Nil}]
    BY <1>2, <1>5 DEF InputOK
  <2>3. /\ res = ApplyCreateSchedule(d, c) /\ c.tenant \in Tenants /\ c.id \in ScheduleIds
        /\ c.scheduleType \in STRING /\ c.firstRunAt \in Int
        /\ c.recurrence \in Recurrences \cup {Nil} /\ c.timezone \in STRING
        /\ c.catchUpPolicy \in STRING /\ c.callbackURL \in CallbackURLs
        /\ c.headers \in SUBSET HeaderKeys
        /\ c.maxAttempts \in Int /\ c.callTimeout \in Int \cup {Nil}
    BY <2>1, <2>2 DEF Dispatch, CreateScheduleCommand
  <2> HIDE DEF c
  <2>4. res.err \in ErrorKinds \cup {"none"}
    BY <2>3 DEF ApplyCreateSchedule, Ok, Fail, ErrorKinds
  <2>5. res.err = "none" => \E t, id, row : res.db = PutSchedule(d, t, id, row)
    BY <2>3 DEF ApplyCreateSchedule, Ok, Fail
  <2>6. res.err = "none" => Legal(d, res.db)
    BY <1>1, <2>3, CreateScheduleLegal, Zenon
  <2> QED
    BY <1>4, <1>5, <2>4, <2>5, <2>6 DEF Effective
<1>6. CASE q.endpoint = "pause"
  <2>1. c = PauseScheduleCommand(q.tenant, q.id) /\ q.tenant \in Tenants /\ q.id \in ScheduleIds
    BY <1>2, <1>6 DEF CommandOf, InputOK
  <2>2. res = ApplyPauseSchedule(d, c) /\ c.tenant \in Tenants /\ c.id \in ScheduleIds
    BY <2>1 DEF Dispatch, PauseScheduleCommand
  <2> HIDE DEF c
  <2>3. res.err \in ErrorKinds \cup {"none"}
    BY <2>2 DEF ApplyPauseSchedule, Ok, Fail, ErrorKinds
  <2>4. res.err = "none" => res.db = d \/ \E t, id, row : res.db = PutSchedule(d, t, id, row)
    BY <2>2 DEF ApplyPauseSchedule, Ok, Fail
  <2>5. res.err = "none" => Legal(d, res.db)
    BY <1>1, <2>2, PauseScheduleLegal
  <2> QED
    BY <1>4, <1>6, <2>3, <2>4, <2>5 DEF Effective
<1>7. CASE q.endpoint = "cancel"
  <2>1. c = CancelScheduleCommand(q.tenant, q.id) /\ q.tenant \in Tenants /\ q.id \in ScheduleIds
    BY <1>2, <1>7 DEF CommandOf, InputOK
  <2>2. res = ApplyCancelSchedule(d, c) /\ c.tenant \in Tenants /\ c.id \in ScheduleIds
    BY <2>1 DEF Dispatch, CancelScheduleCommand
  <2> HIDE DEF c
  <2>3. res.err \in ErrorKinds \cup {"none"}
    BY <2>2 DEF ApplyCancelSchedule, Ok, Fail, ErrorKinds
  <2>4. res.err = "none" => res.db = d \/ \E t, id, row : res.db = PutSchedule(d, t, id, row)
    BY <2>2 DEF ApplyCancelSchedule, Ok, Fail
  <2>5. res.err = "none" => Legal(d, res.db)
    BY <1>1, <2>2, CancelScheduleLegal
  <2> QED
    BY <1>4, <1>7, <2>3, <2>4, <2>5 DEF Effective
<1>8. CASE q.endpoint = "resume"
  <2>1. c = ResumeScheduleCommand(q.tenant, q.id) /\ q.tenant \in Tenants /\ q.id \in ScheduleIds
    BY <1>2, <1>8 DEF CommandOf, InputOK
  <2>2. res = ApplyResumeSchedule(d, c, 0) /\ c.tenant \in Tenants /\ c.id \in ScheduleIds
    BY <2>1 DEF Dispatch, ResumeScheduleCommand
  <2> HIDE DEF c
  <2>3. res.err \in ErrorKinds \cup {"none"}
    BY <2>2 DEF ApplyResumeSchedule, Ok, Fail, ErrorKinds
  <2>4. res.err = "none" => res.db = d \/ \E t, id, row : res.db = PutSchedule(d, t, id, row)
    BY <2>2 DEF ApplyResumeSchedule, Ok, Fail
  <2>5. res.err = "none" => Legal(d, res.db)
    BY <1>1, <2>2, ResumeScheduleLegal
  <2> QED
    BY <1>4, <1>8, <2>3, <2>4, <2>5 DEF Effective
<1> QED
  BY <1>3, <1>5, <1>6, <1>7, <1>8 DEF Write

\* What is fine stays fine when other requests move: tenants keep their keys,
\* and a node that is deposed goes on with the database of that moment.
LEMMA StaysFine ==
  ASSUME NEW x \in Call, NEW d, NEW n, NEW old, NEW new, NEW keys, NEW more,
         Fine(x, d, old, keys), TenantsKept(d, n), keys \subseteq more, keys \subseteq KeyHashes,
         \A m \in Nodes : new[m] = Nil \/ new[m] = old[m] \/ new[m] = n
  PROVE  Fine(x, n, new, more)
<1>1. InputOK(x.input) /\ x.node \in Nodes
  BY InputTypes DEF Call
<1>2. x.input.endpoint \notin AdminOnly \/ x.input.endpoint = "create_tenant" =>
        x.input.tenant \in Tenants
  BY <1>1 DEF InputOK, AdminOnly
<1>3. \A h \in KeyHashes : h # Nil
  BY RowAssumption
<1>4. ProposesOwn(x, more) /\ Definite(x)
  BY DEF Fine, ProposesOwn
<1>5. KeyShown(x, n)
  BY <1>2 DEF Fine, KeyShown, TenantsKept
<1>6. StaysValid(x, n, new)
  BY <1>1, <1>2, <1>3 DEF Fine, StaysValid, TenantsKept
<1>7. AdmittedOwn(x, n)
  BY <1>2, <1>3 DEF Fine, AdmittedOwn, TenantsKept
<1> QED
  BY <1>4, <1>5, <1>6, <1>7 DEF Fine

\* A request that is being handled.
LEMMA Handled ==
  ASSUME APIInv, NEW r \in Requests, request[r].pc # "idle"
  PROVE  request[r] \in Call /\ Fine(request[r], db, stale, generated)
BY DEF APIInv, Idle

\* A step that moves requests only, and perhaps learns that its node is ready.
RequestsOnly ==
  UNCHANGED <<db, clusterVars, generated, shown>> /\ ready' \in [Nodes -> BOOLEAN]

\* One request moves, and the database and the keys with it.
LEMMA RequestMoves ==
  ASSUME APIInv, NEW r \in Requests, NEW y \in Call,
         request' = [request EXCEPT ![r] = y],
         Fine(y, db', stale, generated'),
         Consistent(db'), TenantsKept(db, db'), UNCHANGED clusterVars,
         ready' \in [Nodes -> BOOLEAN],
         generated \subseteq generated', generated' \subseteq KeyHashes, shown' \subseteq generated'
  PROVE  APIInv'
<1>1. /\ elected' = elected /\ role' = role /\ stale' = stale /\ depositions' = depositions
  BY DEF clusterVars
<1>2. \A n \in Nodes : stale[n] # Nil => TenantsKept(stale[n], db')
  BY DEF APIInv, TenantsKept
<1>3. request' \in [Requests -> Call \cup {Idle}]
  BY DEF APIInv
<1>4. ASSUME NEW s \in Requests, request'[s] # Idle
      PROVE  Fine(request'[s], db', stale, generated')
  <2>1. CASE s = r
    BY <2>1 DEF APIInv
  <2>2. CASE s # r
    <3>1. request'[s] = request[s]
      BY <2>2 DEF APIInv
    <3>2. request[s] \in Call /\ Fine(request[s], db, stale, generated)
      BY <1>4, <3>1 DEF APIInv
    <3> QED
      BY <3>1, <3>2, StaysFine DEF APIInv
  <2> QED
    BY <2>1, <2>2
<1> QED
  BY <1>1, <1>2, <1>3, <1>4 DEF APIInv

\* The same, for a step that only reads.
LEMMA RequestReads ==
  ASSUME APIInv, NEW r \in Requests, NEW y \in Call,
         request' = [request EXCEPT ![r] = y],
         Fine(y, db, stale, generated),
         RequestsOnly
  PROVE  APIInv'
<1>1. /\ db' = db /\ generated' = generated /\ shown' = shown
      /\ UNCHANGED clusterVars /\ ready' \in [Nodes -> BOOLEAN]
  BY DEF RequestsOnly
<1>2. /\ Consistent(db') /\ TenantsKept(db, db')
      /\ generated' \subseteq KeyHashes /\ shown' \subseteq generated'
  BY <1>1 DEF APIInv, TenantsKept
<1> QED
  BY <1>1, <1>2, RequestMoves, Zenon

\* The request with its answer.
WithAnswer(x, s) == [x EXCEPT !.pc = "answered", !.status = s]

\* Status s does not contradict what is known of the request.
MayRefuse(x, s) ==
  /\ s # 503 => ~ x.applied
  /\ s = 401 => ~ x.valid \/ x.input.endpoint \in AdminOnly

\* What Answer does.
LEMMA AnswerMeaning ==
  ASSUME APIInv, NEW r \in Requests, NEW s, Answer(r, s)
  PROVE  request' = [request EXCEPT ![r] = WithAnswer(request[r], s)]
<1>1. DOMAIN request = Requests
  BY DEF APIInv
<1> QED
  BY <1>1, Zenon DEF Answer, WithAnswer

\* A handler gives up with an error.
LEMMA RefusedFine ==
  ASSUME NEW x \in Call, NEW d, NEW old, NEW keys, Fine(x, d, old, keys),
         NEW s \in Refusals, x.pc # "answered",
         MayRefuse(x, s),
         NEW y, y = WithAnswer(x, s)
  PROVE  y \in Call /\ Fine(y, d, old, keys)
<1>1. /\ y \in Call /\ y.pc = "answered" /\ y.status = s /\ y.input = x.input /\ y.node = x.node
      /\ y.applied = x.applied /\ y.sent = x.sent /\ y.valid = x.valid
  <2>1. s \in Statuses
    BY DEF Statuses, Refusals
  <2> QED
    BY <2>1, Zenon DEF Call, WithAnswer
<1>2. ProposesOwn(y, keys)
  BY <1>1 DEF ProposesOwn
<1>3. Definite(y)
  BY <1>1 DEF Definite, Statuses, Refusals, MayRefuse
<1>4. KeyShown(y, d)
  BY <1>1 DEF KeyShown, Refusals
<1>5. StaysValid(y, d, old)
  <2>1. StaysValid(x, d, old)
    BY DEF Fine
  <2>2. x.valid /\ x.input.endpoint \notin AdminOnly => y.status # 401
    BY <1>1 DEF MayRefuse
  <2> QED
    BY <1>1, <2>1, <2>2, ValidMoves
<1>6. Admitted(y) => Admitted(x)
  BY <1>1 DEF Fine, Definite, Admitted, Call, Refusals
<1>7. AdmittedOwn(y, d)
  BY <1>1, <1>6 DEF Fine, AdmittedOwn
<1> QED
  BY <1>1, <1>2, <1>3, <1>4, <1>5, <1>7 DEF Fine

\* A handler that reads answers.
LEMMA ServedFine ==
  ASSUME NEW x \in Call, NEW d, NEW old, NEW keys, Fine(x, d, old, keys),
         NEW s \in {200, 404}, x.pc = "handler", x.input.endpoint \notin Write,
         NEW y, y = WithAnswer(x, s)
  PROVE  y \in Call /\ Fine(y, d, old, keys)
<1>1. /\ y \in Call /\ y.pc = "answered" /\ y.status = s /\ y.input = x.input /\ y.node = x.node
      /\ y.applied = x.applied /\ y.sent = x.sent /\ y.valid = x.valid
  <2>1. s \in Statuses
    BY DEF Statuses
  <2> QED
    BY <2>1, Zenon DEF Call, WithAnswer
<1>2. ProposesOwn(y, keys)
  BY <1>1 DEF ProposesOwn
<1>3. Definite(y)
  BY <1>1 DEF Definite, Statuses
<1>4. KeyShown(y, d)
  BY <1>1 DEF KeyShown
<1>5. StaysValid(y, d, old)
  <2>1. StaysValid(x, d, old)
    BY DEF Fine
  <2>2. y.pc = "answered" => y.status # 401
    BY <1>1
  <2> QED
    BY <1>1, <2>1, <2>2, ValidMoves
<1>6. AdmittedOwn(y, d)
  BY <1>1 DEF Fine, AdmittedOwn, Admitted
<1> QED
  BY <1>1, <1>2, <1>3, <1>4, <1>5, <1>6 DEF Fine

\* A handler goes on.
LEMMA MovedFine ==
  ASSUME NEW x \in Call, NEW d, NEW old, NEW keys, Fine(x, d, old, keys),
         NEW pc,
         \/ x.pc = "arrived" /\ pc = "auth"
         \/ x.pc = "auth" /\ pc = "handler"
         \/ x.pc = "propose" /\ pc = "proposing",
         pc = "handler" /\ x.input.token \in KeyHashes =>
           x.input.endpoint \notin AdminOnly /\ d.tenants[x.input.tenant] = x.input.token,
         NEW y, y = [x EXCEPT !.pc = pc]
  PROVE  y \in Call /\ Fine(y, d, old, keys)
<1>1. /\ y \in Call /\ y.pc = pc /\ y.input = x.input /\ y.node = x.node /\ y.key = x.key
      /\ y.applied = x.applied /\ y.sent = x.sent /\ y.valid = x.valid /\ y.cmd = x.cmd
  BY DEF Call
<1>2. ProposesOwn(y, keys)
  BY <1>1 DEF Fine, ProposesOwn
<1>3. Definite(y)
  BY <1>1 DEF Fine, Definite
<1>4. KeyShown(y, d)
  BY <1>1 DEF KeyShown
<1>5. StaysValid(y, d, old)
  <2>1. StaysValid(x, d, old)
    BY DEF Fine
  <2>2. y.pc # "answered"
    BY <1>1
  <2> QED
    BY <1>1, <2>1, <2>2, ValidMoves
<1>6. AdmittedOwn(y, d)
  BY <1>1 DEF Fine, AdmittedOwn, Admitted
<1> QED
  BY <1>1, <1>2, <1>3, <1>4, <1>5, <1>6 DEF Fine

----------------------------------------------------------------------------
(* One lemma per action.                                                    *)

\* The initial states satisfy the invariant.
LEMMA InitAPI ==
  ASSUME Init
  PROVE  APIInv
<1>1. Consistent(db) /\ 0 \in 0..MaxDepositions
  BY APIAssumption DEF Init
<1>2. \A n \in Nodes : n # Nil
  BY RowAssumption
<1> QED
  BY <1>1, <1>2 DEF Init, APIInv

\* What leadership does to the requests: nothing that is fine ceases to be.
LEMMA ClusterMoves ==
  ASSUME APIInv, UNCHANGED <<db, request, generated, shown>>,
         \A m \in Nodes : stale'[m] = Nil \/ stale'[m] = stale[m] \/ stale'[m] = db
  PROVE  \A r \in Requests : request'[r] # Idle => Fine(request'[r], db', stale', generated')
<1> SUFFICES ASSUME NEW r \in Requests, request[r] # Idle
             PROVE  Fine(request[r], db, stale', generated)
  OBVIOUS
<1>1. request[r] \in Call /\ Fine(request[r], db, stale, generated)
  BY DEF APIInv
<1>2. TenantsKept(db, db) /\ generated \subseteq KeyHashes
  BY DEF TenantsKept, APIInv
<1> QED
  BY <1>1, <1>2, StaysFine

\* Raft elects a node.
LEMMA ElectAPI ==
  ASSUME APIInv, NEW n \in Nodes, Elect(n)
  PROVE  APIInv'
<1>1. \A r \in Requests : request'[r] # Idle => Fine(request'[r], db', stale', generated')
  BY ClusterMoves DEF Elect
<1>2. /\ role' \in [Nodes -> {"leader", "follower"}] /\ elected' \in Nodes \cup {Nil}
      /\ ready' \in [Nodes -> BOOLEAN]
  BY DEF APIInv, Elect
<1>3. ASSUME NEW m \in Nodes
      PROVE  /\ role'[m] = "leader" <=> m = elected' \/ stale'[m] # Nil
             /\ stale'[m] # Nil => m # elected' /\ TenantsKept(stale'[m], db')
  <2>1. m # Nil
    BY RowAssumption
  <2> QED
    BY <2>1 DEF APIInv, Elect
<1> QED
  BY <1>1, <1>2, <1>3 DEF APIInv, Elect

\* Another node could be elected, and the leader does not know.
LEMMA DeposeAPI ==
  ASSUME APIInv, NEW n \in Nodes, Depose(n)
  PROVE  APIInv'
<1>1. \A r \in Requests : request'[r] # Idle => Fine(request'[r], db', stale', generated')
  BY ClusterMoves, Zenon DEF Depose, APIInv
<1>2. db \in DB /\ db # Nil /\ TenantsKept(db, db)
  BY APIAssumption DEF APIInv, Consistent, Intact, TenantsKept
<1>3. stale' \in [Nodes -> DB \cup {Nil}] /\ depositions' \in 0..MaxDepositions
  BY <1>2, APIAssumption DEF APIInv, Depose
<1>4. ASSUME NEW m \in Nodes
      PROVE  /\ role'[m] = "leader" <=> m = elected' \/ stale'[m] # Nil
             /\ stale'[m] # Nil => m # elected' /\ TenantsKept(stale'[m], db')
  <2>1. m # Nil
    BY RowAssumption
  <2> QED
    BY <1>2, <2>1 DEF APIInv, Depose
<1> QED
  BY <1>1, <1>3, <1>4, Zenon DEF APIInv, Depose

\* It learns.
LEMMA StepDownAPI ==
  ASSUME APIInv, NEW n \in Nodes, StepDown(n)
  PROVE  APIInv'
<1>1. \A r \in Requests : request'[r] # Idle => Fine(request'[r], db', stale', generated')
  BY ClusterMoves, Zenon DEF StepDown, APIInv
<1>2. stale' \in [Nodes -> DB \cup {Nil}] /\ role' \in [Nodes -> {"leader", "follower"}]
  BY DEF APIInv, StepDown
<1>3. ASSUME NEW m \in Nodes
      PROVE  /\ role'[m] = "leader" <=> m = elected' \/ stale'[m] # Nil
             /\ stale'[m] # Nil => m # elected' /\ TenantsKept(stale'[m], db')
  BY DEF APIInv, StepDown
<1> QED
  BY <1>1, <1>2, <1>3, Zenon DEF APIInv, StepDown

\* A request arrives.
LEMMA ArriveAPI ==
  ASSUME APIInv, NEW r \in Requests, NEW n \in Nodes, NEW q \in Inputs, Arrive(r, n, q)
  PROVE  APIInv'
<1> DEFINE valid == n = elected /\ q.token \in KeyHashes /\ GetTenant(db, q.tenant) = q.token
           y == [pc |-> "arrived", node |-> n, input |-> q, status |-> 0, cmd |-> Nil,
                 key |-> Nil, sent |-> FALSE, applied |-> FALSE, valid |-> valid]
<1>1. y \in Call
  BY DEF Call
<1>2. valid => n = elected /\ q.token \in KeyHashes /\ db.tenants[q.tenant] = q.token
  BY DEF GetTenant
<1>3. n = elected => stale[n] = Nil
  BY DEF APIInv
<1>4. StaysValid(y, db, stale)
  BY <1>2, <1>3, Zenon DEF StaysValid
<1>5. Fine(y, db, stale, generated)
  BY <1>4, Zenon DEF Fine, ProposesOwn, Definite, KeyShown, AdmittedOwn, Admitted
<1>6. request' = [request EXCEPT ![r] = y] /\ RequestsOnly
  BY DEF Arrive, APIInv, RequestsOnly
<1> HIDE DEF y
<1> QED
  BY <1>1, <1>5, <1>6, RequestReads, Zenon

\* A step that answers with an error keeps the invariant.
LEMMA Refuses ==
  ASSUME APIInv, NEW r \in Requests, request[r].pc \notin {"idle", "answered"},
         NEW s \in Refusals, Answer(r, s), MayRefuse(request[r], s), RequestsOnly
  PROVE  APIInv'
<1>1. request[r] \in Call /\ Fine(request[r], db, stale, generated)
  BY Handled
<1>2. PICK y : y = WithAnswer(request[r], s)
  OBVIOUS
<1>3. y \in Call /\ Fine(y, db, stale, generated)
  BY <1>1, <1>2, RefusedFine, Zenon
<1>4. request' = [request EXCEPT ![r] = y]
  BY <1>2, AnswerMeaning
<1> QED
  BY <1>3, <1>4, RequestReads, Zenon

\* 503 is the answer to a request at any point.
LEMMA Fails ==
  ASSUME APIInv, NEW r \in Requests, request[r].pc \notin {"idle", "answered"},
         Answer(r, 503), RequestsOnly
  PROVE  APIInv'
<1>1. MayRefuse(request[r], 503) /\ 503 \in Refusals
  BY DEF MayRefuse, Refusals
<1> QED
  BY <1>1, Refuses

\* Nothing has been applied before a proposal is made.
LEMMA NotYetApplied ==
  ASSUME APIInv, NEW r \in Requests, request[r].pc \in {"arrived", "auth", "handler", "propose"}
  PROVE  ~ request[r].applied
<1>1. request[r] \in Call /\ Fine(request[r], db, stale, generated)
  BY Handled
<1> QED
  BY <1>1 DEF Fine, Definite

\* A handler can answer with another error until then, with 401 if the request
\* was not valid.
LEMMA Rejects ==
  ASSUME APIInv, NEW r \in Requests, request[r].pc \in {"auth", "handler"},
         NEW s \in Refusals, Answer(r, s), RequestsOnly,
         s = 401 => ~ request[r].valid \/ request[r].input.endpoint \in AdminOnly
  PROVE  APIInv'
<1>1. MayRefuse(request[r], s)
  BY NotYetApplied DEF MayRefuse
<1> QED
  BY <1>1, Refuses

\* A step that goes on keeps the invariant.
LEMMA GoesOn ==
  ASSUME APIInv, NEW r \in Requests, NEW pc, Goto(r, pc),
         \/ request[r].pc = "arrived" /\ pc = "auth"
         \/ request[r].pc = "auth" /\ pc = "handler"
         \/ request[r].pc = "propose" /\ pc = "proposing",
         pc = "handler" /\ request[r].input.token \in KeyHashes =>
           /\ request[r].input.endpoint \notin AdminOnly
           /\ db.tenants[request[r].input.tenant] = request[r].input.token,
         RequestsOnly
  PROVE  APIInv'
<1>1. request[r] \in Call /\ Fine(request[r], db, stale, generated)
  BY Handled
<1>2. PICK y : y = [request[r] EXCEPT !.pc = pc]
  BY Zenon
<1>3. y \in Call /\ Fine(y, db, stale, generated)
  BY <1>1, <1>2, MovedFine
<1>4. request' = [request EXCEPT ![r] = y]
  BY <1>2 DEF Goto, APIInv
<1> QED
  BY <1>3, <1>4, RequestReads, Zenon

\* requireLeader.
LEMMA RequireLeaderAPI ==
  ASSUME APIInv, NEW r \in Requests, requireLeader(r)
  PROVE  APIInv'
<1>1. /\ request[r].pc = "arrived" /\ RequestsOnly
      /\ Goto(r, "auth") \/ Answer(r, 503)
  BY DEF requireLeader, APIInv, RequestsOnly
<1>2. CASE Goto(r, "auth")
  BY <1>1, <1>2, GoesOn
<1>3. CASE Answer(r, 503)
  BY <1>1, <1>3, Fails
<1> QED
  BY <1>1, <1>2, <1>3

\* allowRate, after the credentials of the request were found right.
LEMMA AllowRateAPI ==
  ASSUME APIInv, NEW r \in Requests, request[r].pc = "auth", allowRate(r), RequestsOnly,
         request[r].input.token \in KeyHashes =>
           /\ request[r].input.endpoint \notin AdminOnly
           /\ db.tenants[request[r].input.tenant] = request[r].input.token
  PROVE  APIInv'
<1>1. CASE Goto(r, "handler")
  BY <1>1, GoesOn
<1>2. CASE Answer(r, 429)
  <2>1. 429 \in Refusals
    BY DEF Refusals
  <2> QED
    BY <1>2, <2>1, Rejects
<1> QED
  BY <1>1, <1>2 DEF allowRate

\* requireAdmin.
LEMMA RequireAdminAPI ==
  ASSUME APIInv, NEW r \in Requests, requireAdmin(r)
  PROVE  APIInv'
<1>1. /\ request[r].pc = "auth" /\ RequestsOnly
      /\ request[r].input.endpoint \in AdminOnly
      /\ \/ request[r].input.token = AdminKey /\ allowRate(r)
         \/ Answer(r, 401)
  BY DEF requireAdmin, APIInv, RequestsOnly
<1>2. CASE request[r].input.token = AdminKey /\ allowRate(r)
  <2>1. AdminKey \notin KeyHashes
    BY APIAssumption
  <2> QED
    BY <1>1, <1>2, <2>1, AllowRateAPI
<1>3. CASE Answer(r, 401)
  <2>1. 401 \in Refusals
    BY DEF Refusals
  <2> QED
    BY <1>1, <1>3, <2>1, Rejects
<1> QED
  BY <1>1, <1>2, <1>3

\* What a node that may read sees of the tenants: a row it has is the row of db,
\* and a request that was valid on arrival still finds its key.
LEMMA ReadsTenants ==
  ASSUME APIInv, NEW r \in Requests, request[r].pc # "idle",
         request[r].input.endpoint \notin AdminOnly,
         "ok" \in ReadResults(request[r].node), request[r].input.token \in KeyHashes
  PROVE  LET q == request[r].input
             found == KeyMatches(View(request[r].node), q.tenant, q.token)
         IN  /\ found => db.tenants[q.tenant] = q.token
             /\ request[r].valid => found
<1> DEFINE q == request[r].input
           n == request[r].node
<1>1. request[r] \in Call /\ Fine(request[r], db, stale, generated)
  BY Handled
<1>2. n \in Nodes /\ q \in Inputs
  BY <1>1 DEF Call
<1>3. q.tenant \in Tenants
  BY <1>2, InputTypes DEF InputOK, AdminOnly
<1>4. role[n] = "leader"
  BY DEF ReadResults
<1>5. n = elected \/ stale[n] # Nil
  BY <1>2, <1>4 DEF APIInv
<1>6. q.token # Nil
  BY RowAssumption
<1>7. n # elected => TenantsKept(stale[n], db)
  BY <1>2, <1>5 DEF APIInv
<1>8. KeyMatches(View(n), q.tenant, q.token) => db.tenants[q.tenant] = q.token
  BY <1>3, <1>7 DEF KeyMatches, GetTenant, View, TenantsKept
<1>9. request[r].valid => KeyMatches(View(n), q.tenant, q.token)
  <2>1. StaysValid(request[r], db, stale)
    BY <1>1 DEF Fine
  <2>2. request[r].valid => /\ db.tenants[q.tenant] = q.token
                            /\ stale[n] # Nil => stale[n].tenants[q.tenant] = q.token
    BY <2>1, ValidFinds
  <2>3. request[r].valid => View(n).tenants[q.tenant] = q.token
    BY <1>5, <2>2 DEF View
  <2> QED
    BY <1>6, <2>3 DEF KeyMatches, GetTenant
<1> QED
  BY <1>8, <1>9

\* requireTenantAccess.
LEMMA RequireTenantAccessAPI ==
  ASSUME APIInv, NEW r \in Requests, requireTenantAccess(r)
  PROVE  APIInv'
<1> DEFINE q == request[r].input
           n == request[r].node
<1>1. request[r].pc = "auth" /\ q.endpoint \notin AdminOnly
  BY DEF requireTenantAccess
<1>2. request[r] \in Call /\ Fine(request[r], db, stale, generated)
  BY <1>1, Handled
<1>3. 401 \in Refusals /\ 500 \in Refusals
  BY DEF Refusals
<1>4. Nil \notin KeyHashes /\ AdminKey \notin KeyHashes
  BY RowAssumption, APIAssumption
<1>5. CASE /\ q.token = Nil /\ Answer(r, 401)
           /\ UNCHANGED <<db, clusterVars, ready, generated, shown>>
  <2>1. ~ request[r].valid
    BY <1>1, <1>2, <1>4, <1>5, Zenon DEF Fine, StaysValid, Call
  <2>2. RequestsOnly
    BY <1>5 DEF APIInv, RequestsOnly
  <2> QED
    BY <1>1, <1>3, <1>5, <2>1, <2>2, Rejects
<1>6. CASE /\ q.token = AdminKey /\ allowRate(r)
           /\ UNCHANGED <<db, clusterVars, ready, generated, shown>>
  <2>1. RequestsOnly
    BY <1>6 DEF APIInv, RequestsOnly
  <2> QED
    BY <1>1, <1>4, <1>6, <2>1, AllowRateAPI
<1>7. ASSUME q.token \in KeyHashes, NEW result \in ReadResults(n), Reads(n, result),
             IF result # "ok" THEN Answer(r, ReadErrorStatus(result))
             ELSE IF KeyMatches(View(n), q.tenant, q.token) THEN allowRate(r)
             ELSE Answer(r, 401)
      PROVE  APIInv'
  <2>1. RequestsOnly
    BY <1>2, <1>7 DEF APIInv, Reads, RequestsOnly, Call
  <2>2. CASE result # "ok"
    <3>1. Answer(r, 500) \/ Answer(r, 503)
      BY <1>7, <2>2 DEF ReadErrorStatus
    <3>2. CASE Answer(r, 500)
      BY <1>1, <1>3, <2>1, <3>2, Rejects
    <3>3. CASE Answer(r, 503)
      BY <1>1, <2>1, <3>3, Fails
    <3> QED
      BY <3>1, <3>2, <3>3
  <2>3. CASE result = "ok"
    <3> DEFINE found == KeyMatches(View(n), q.tenant, q.token)
    <3>1. /\ found => db.tenants[q.tenant] = q.token
          /\ request[r].valid => found
      BY <1>1, <1>7, <2>3, ReadsTenants
    <3>2. IF found THEN allowRate(r) ELSE Answer(r, 401)
      BY <1>7, <2>3
    <3> HIDE DEF found
    <3>3. CASE found
      BY <1>1, <2>1, <3>1, <3>2, <3>3, AllowRateAPI
    <3>4. CASE ~ found
      <4>1. ~ request[r].valid /\ Answer(r, 401)
        BY <3>1, <3>2, <3>4
      <4> QED
        BY <1>1, <1>3, <2>1, <4>1, Rejects
    <3> QED
      BY <3>3, <3>4
  <2> QED
    BY <2>2, <2>3
<1> QED
  BY <1>5, <1>6, <1>7 DEF requireTenantAccess

\* The handlers that read, whatever they find.
LEMMA ServeAPI ==
  ASSUME APIInv, NEW r \in Requests, NEW endpoint, endpoint \notin Write,
         NEW status \in {200, 404}, Serve(r, endpoint, status)
  PROVE  APIInv'
<1> DEFINE n == request[r].node
<1>1. request[r].pc = "handler" /\ request[r].input.endpoint \notin Write
  BY DEF Serve
<1>2. request[r] \in Call /\ Fine(request[r], db, stale, generated)
  BY <1>1, Handled
<1>3. PICK result \in ReadResults(n) :
        /\ Reads(n, result)
        /\ Answer(r, IF result = "ok" THEN status ELSE ReadErrorStatus(result))
  BY DEF Serve
<1>4. RequestsOnly
  BY <1>2, <1>3 DEF APIInv, Reads, RequestsOnly, Call
<1>5. CASE Answer(r, status)
  <2>1. PICK y : y = WithAnswer(request[r], status)
    OBVIOUS
  <2>2. y \in Call /\ Fine(y, db, stale, generated)
    BY <1>1, <1>2, <2>1, ServedFine
  <2>3. request' = [request EXCEPT ![r] = y]
    BY <1>5, <2>1, AnswerMeaning
  <2> QED
    BY <1>4, <2>2, <2>3, RequestReads, Zenon
<1>6. CASE Answer(r, 500)
  <2>1. 500 \in Refusals
    BY DEF Refusals
  <2> QED
    BY <1>1, <1>4, <1>6, <2>1, Rejects
<1>7. CASE Answer(r, 503)
  BY <1>1, <1>4, <1>7, Fails
<1> QED
  BY <1>3, <1>5, <1>6, <1>7 DEF ReadErrorStatus

\* A request that is not well-formed.
LEMMA BadRequestAPI ==
  ASSUME APIInv, NEW r \in Requests, NEW endpoint, BadRequest(r, endpoint)
  PROVE  APIInv'
<1>1. request[r].pc = "handler" /\ Answer(r, 400) /\ RequestsOnly
  BY DEF BadRequest, APIInv, RequestsOnly
<1>2. 400 \in Refusals
  BY DEF Refusals
<1> QED
  BY <1>1, <1>2, Rejects

\* The request with the key that was generated for it, and its command.
WithCommand(x, h, cmd) == [x EXCEPT !.pc = "propose", !.key = h, !.cmd = cmd]

\* A command is made.
LEMMA SubmittedFine ==
  ASSUME NEW x \in Call, NEW d, NEW old, NEW keys, keys \subseteq KeyHashes,
         Fine(x, d, old, keys), x.pc = "handler", x.input.endpoint \in Write,
         NEW h, NEW cmd, cmd = CommandOf(x.input, h),
         IF x.input.endpoint = "create_tenant" THEN h \in keys ELSE h = Nil,
         NEW y, y = WithCommand(x, h, cmd)
  PROVE  y \in Call /\ Fine(y, d, old, keys)
<1>1. h \in KeyHashes \cup {Nil} /\ x.input \in Inputs
  BY DEF Call
<1>2. cmd \in Proposals
  BY <1>1 DEF Proposals
<1>3. /\ y \in Call /\ y.pc = "propose" /\ y.input = x.input /\ y.node = x.node /\ y.key = h
      /\ y.applied = x.applied /\ y.sent = x.sent /\ y.valid = x.valid /\ y.cmd = cmd
  BY <1>1, <1>2, Zenon DEF Call, WithCommand
<1>4. ProposesOwn(y, keys)
  BY <1>3 DEF ProposesOwn
<1>5. Definite(y)
  BY <1>3 DEF Fine, Definite
<1>6. KeyShown(y, d)
  BY <1>3 DEF KeyShown
<1>7. StaysValid(y, d, old)
  <2>1. StaysValid(x, d, old) /\ y.pc # "answered"
    BY <1>3 DEF Fine
  <2> QED
    BY <1>3, <2>1, ValidMoves
<1>8. AdmittedOwn(y, d)
  BY <1>3 DEF Fine, AdmittedOwn, Admitted
<1> QED
  BY <1>3, <1>4, <1>5, <1>6, <1>7, <1>8 DEF Fine

\* The handlers that make a command without a key.
LEMMA SubmitAPI ==
  ASSUME APIInv, NEW r \in Requests, NEW endpoint \in Write, endpoint # "create_tenant",
         NEW cmd, cmd = CommandOf(request[r].input, Nil), Submit(r, endpoint, cmd)
  PROVE  APIInv'
<1>1. /\ request[r].pc = "handler" /\ request[r].input.endpoint = endpoint
      /\ request' = [request EXCEPT ![r].pc = "propose", ![r].cmd = cmd]
      /\ RequestsOnly
  BY DEF Submit, APIInv, RequestsOnly
<1>2. request[r] \in Call /\ Fine(request[r], db, stale, generated)
  BY <1>1, Handled
<1>3. request[r].key = Nil
  BY <1>1, <1>2 DEF Fine, ProposesOwn
<1>4. PICK y : y = WithCommand(request[r], Nil, cmd)
  OBVIOUS
<1>5. y = [request[r] EXCEPT !.pc = "propose", !.cmd = cmd]
  BY <1>2, <1>3, <1>4, Zenon DEF WithCommand, Call
<1>6. DOMAIN request = Requests
  BY DEF APIInv
<1>7. request' = [request EXCEPT ![r] = y]
  BY <1>1, <1>5, <1>6, Zenon
<1>8. y \in Call /\ Fine(y, db, stale, generated)
  BY <1>1, <1>2, <1>4, SubmittedFine DEF APIInv
<1> QED
  BY <1>1, <1>7, <1>8, RequestReads, Zenon

\* handleCreateTenant generates a key that has not been in use.
LEMMA CreateTenantAPI ==
  ASSUME APIInv, NEW r \in Requests, handleCreateTenant(r)
  PROVE  APIInv'
<1>1. CASE BadRequest(r, "create_tenant")
  BY <1>1, BadRequestAPI
<1>2. CASE ~ BadRequest(r, "create_tenant")
  <2> DEFINE q == request[r].input
  <2>1. PICK h \in KeyHashes \ generated :
          /\ request[r].pc = "handler" /\ q.endpoint = "create_tenant"
          /\ generated' = generated \cup {h}
          /\ request' = [request EXCEPT ![r].pc = "propose", ![r].key = h,
                           ![r].cmd = CreateTenantCommand(q.tenant, h)]
          /\ UNCHANGED <<db, clusterVars, ready, shown>>
    BY <1>2, Zenon DEF handleCreateTenant
  <2>2. request[r] \in Call /\ Fine(request[r], db, stale, generated)
    BY <2>1, Handled
  <2>3. PICK cmd : cmd = CreateTenantCommand(q.tenant, h)
    OBVIOUS
  <2>4. PICK y : y = WithCommand(request[r], h, cmd)
    OBVIOUS
  <2>5. DOMAIN request = Requests
    BY DEF APIInv
  <2>6. request' = [request EXCEPT ![r] = y]
    BY <2>1, <2>3, <2>4, <2>5, Zenon DEF WithCommand
  <2>7. generated' \subseteq KeyHashes /\ h \in generated' /\ q.endpoint \in Write
    BY <2>1 DEF APIInv, Write
  <2>8. Fine(request[r], db, stale, generated')
    BY <2>1, <2>2, StaysFine DEF APIInv, TenantsKept
  <2>9. y \in Call /\ Fine(y, db, stale, generated')
    <3>1. cmd = CommandOf(q, h)
      BY <2>1, <2>3 DEF CommandOf
    <3> QED
      BY <2>1, <2>2, <2>4, <2>7, <2>8, <3>1, SubmittedFine
  <2>10. /\ Consistent(db') /\ TenantsKept(db, db') /\ UNCHANGED clusterVars
         /\ ready' \in [Nodes -> BOOLEAN] /\ shown' \subseteq generated'
         /\ generated \subseteq generated' /\ db' = db
    BY <2>1 DEF APIInv, TenantsKept
  <2> QED
    BY <2>6, <2>7, <2>9, <2>10, RequestMoves, Zenon
<1> QED
  BY <1>1, <1>2

\* propose asks for leadership.
LEMMA ProposeAPI ==
  ASSUME APIInv, NEW r \in Requests, propose(r)
  PROVE  APIInv'
<1>1. /\ request[r].pc = "propose" /\ RequestsOnly
      /\ Goto(r, "proposing") \/ Answer(r, 503)
  BY DEF propose, APIInv, RequestsOnly
<1>2. CASE Goto(r, "proposing")
  BY <1>1, <1>2, GoesOn, Zenon
<1>3. CASE Answer(r, 503)
  BY <1>1, <1>3, Fails, Zenon
<1> QED
  BY <1>1, <1>2, <1>3

\* Propose fails.
LEMMA ProposeFailsAPI ==
  ASSUME APIInv, NEW r \in Requests, ProposeFails(r)
  PROVE  APIInv'
<1>1. request[r].pc = "proposing" /\ RequestsOnly /\ Answer(r, 503)
  BY DEF ProposeFails, APIInv, RequestsOnly
<1> QED
  BY <1>1, Fails

\* What the command of a request does to the database when it is committed.
LEMMA ProposalEffect ==
  ASSUME APIInv, NEW r \in Requests, request[r].pc = "proposing",
         NEW res, res = Dispatch(db, request[r].cmd, 0),
         db' = IF res.err = "none" THEN res.db ELSE db
  PROVE  LET q == request[r].input IN
         /\ res.err \in ErrorKinds \cup {"none"}
         /\ Consistent(db') /\ TenantsKept(db, db')
         /\ q.endpoint \in Write
         /\ IF q.endpoint = "create_tenant" THEN request[r].key \in generated
            ELSE request[r].key = Nil
         /\ res.err = "none" /\ q.endpoint = "create_tenant" =>
              db'.tenants[q.tenant] = request[r].key
<1> DEFINE q == request[r].input
           h == request[r].key
<1>1. request[r] \in Call /\ Fine(request[r], db, stale, generated)
  BY Handled, Zenon
<1>2. /\ q.endpoint \in Write /\ request[r].cmd = CommandOf(q, h)
      /\ IF q.endpoint = "create_tenant" THEN h \in generated ELSE h = Nil
  BY <1>1, Zenon DEF Fine, ProposesOwn
<1>3. q \in Inputs /\ h \in KeyHashes \cup {Nil} /\ Consistent(db) /\ TenantsKept(db, db)
      /\ generated \subseteq KeyHashes
  BY <1>1, Zenon DEF Call, APIInv, TenantsKept
<1>4. Effective(db, q, h, res)
  <2>1. q.endpoint = "create_tenant" => h \in KeyHashes
    BY <1>2, <1>3, Zenon
  <2>2. res = Dispatch(db, CommandOf(q, h), 0)
    BY <1>2
  <2>3. q.endpoint \in Write /\ q \in Inputs /\ h \in KeyHashes \cup {Nil}
    BY <1>2, <1>3
  <2> HIDE DEF q, h
  <2> QED
    BY <1>3, <2>1, <2>2, <2>3, CommandEffect
<1> QED
  BY <1>2, <1>3, <1>4, Zenon DEF Effective

\* The request with the outcome of its proposal.
WithOutcome(x, s, applied) == [x EXCEPT !.pc = "answered", !.status = s, !.applied = applied]

\* The command is committed and the answer goes out.
LEMMA CommittedAPI ==
  ASSUME APIInv, NEW r \in Requests, Committed(r)
  PROVE  APIInv'
<1> DEFINE q == request[r].input
           h == request[r].key
<1>1. PICK res : res = Dispatch(db, request[r].cmd, 0)
  OBVIOUS
<1>2. PICK s : s = StatusOf(q.endpoint, res.err)
  OBVIOUS
<1>3. PICK applied : applied = (res.err = "none")
  OBVIOUS
<1>4. /\ request[r].pc = "proposing" /\ ~ request[r].sent
      /\ db' = IF res.err = "none" THEN res.db ELSE db
      /\ request' = [request EXCEPT ![r].pc = "answered", ![r].status = s, ![r].applied = applied]
      /\ shown' = IF res.err = "none" THEN shown \cup ({h} \ {Nil}) ELSE shown
      /\ UNCHANGED <<clusterVars, ready, generated>>
  BY <1>1, <1>2, <1>3 DEF Committed
<1>5. request[r] \in Call /\ Fine(request[r], db, stale, generated)
  BY <1>4, Handled
<1>6. /\ res.err \in ErrorKinds \cup {"none"}
      /\ Consistent(db') /\ TenantsKept(db, db')
      /\ q.endpoint \in Write
      /\ IF q.endpoint = "create_tenant" THEN h \in generated ELSE h = Nil
      /\ res.err = "none" /\ q.endpoint = "create_tenant" => db'.tenants[q.tenant] = h
  BY <1>1, <1>4, ProposalEffect
<1>7. /\ s \in Statuses /\ s # 401 /\ applied \in BOOLEAN
      /\ s \in {200, 201} <=> applied
      /\ applied => res.err = "none"
  <2>1. applied \in BOOLEAN /\ (applied <=> res.err = "none")
    BY <1>3, Zenon
  <2>2. s \in Statuses /\ s # 401 /\ (s \in {200, 201} <=> res.err = "none")
    BY <1>2, <1>6 DEF StatusOf, ErrorKinds, Statuses
  <2> QED
    BY <2>1, <2>2
<1>8. PICK y : y = WithOutcome(request[r], s, applied)
  OBVIOUS
<1>9. DOMAIN request = Requests
  BY DEF APIInv
<1>10. request' = [request EXCEPT ![r] = y]
  BY <1>4, <1>8, <1>9, Zenon DEF WithOutcome
<1>11. /\ y \in Call /\ y.pc = "answered" /\ y.input = q /\ y.node = request[r].node
       /\ y.key = h /\ y.status = s
       /\ y.applied = applied /\ y.sent = request[r].sent /\ y.valid = request[r].valid
  BY <1>5, <1>7, <1>8, Zenon DEF Call, WithOutcome
<1>12. Fine(request[r], db', stale, generated)
  BY <1>5, <1>6, StaysFine, Zenon DEF APIInv
<1>13. Fine(y, db', stale, generated)
  <2>1. ProposesOwn(y, generated)
    BY <1>11 DEF ProposesOwn
  <2>2. Definite(y)
    <3>1. /\ y.status \in Statuses
          /\ y.status \in {200, 201} => y.applied
          /\ y.status \notin {200, 201, 503} => ~ y.applied
      BY <1>7, <1>11
    <3> QED
      BY <1>11, <3>1, Zenon DEF Definite
  <2>3. KeyShown(y, db')
    <3> SUFFICES ASSUME q.endpoint = "create_tenant", y.status = 201
                 PROVE  h # Nil /\ db'.tenants[q.tenant] = h
      BY <1>11, Zenon DEF KeyShown
    <3>1. \A k \in generated : k # Nil
      <4>1. generated \subseteq KeyHashes
        BY DEF APIInv
      <4>2. Nil \notin KeyHashes
        BY RowAssumption
      <4> QED
        BY <4>1, <4>2
    <3>2. h # Nil
      <4>1. h \in generated
        BY <1>6
      <4> QED
        BY <3>1, <4>1
    <3>3. s = 201
      BY <1>11
    <3>4. res.err = "none"
      BY <1>7, <3>3
    <3> QED
      BY <1>6, <3>2, <3>4, Zenon
  <2>4. StaysValid(y, db', stale)
    <3>1. StaysValid(request[r], db', stale)
      BY <1>12 DEF Fine
    <3>2. y.status # 401
      BY <1>7, <1>11
    <3> QED
      BY <1>11, <3>1, <3>2, ValidMoves
  <2>5. AdmittedOwn(y, db')
    <3>1. AdmittedOwn(request[r], db') /\ Admitted(request[r])
      BY <1>4, <1>12 DEF Fine, Admitted
    <3> QED
      BY <1>11, <3>1, AdmittedMoves
  <2> QED
    BY <2>1, <2>2, <2>3, <2>4, <2>5 DEF Fine
<1>14. /\ UNCHANGED clusterVars /\ generated' = generated /\ generated \subseteq KeyHashes
       /\ shown' \subseteq generated /\ ready' \in [Nodes -> BOOLEAN]
  BY <1>4, <1>6 DEF APIInv
<1> QED
  BY <1>6, <1>10, <1>11, <1>13, <1>14, RequestMoves, Zenon

\* The request whose proposal has gone to the next leader.
WithSent(x, applied) == [x EXCEPT !.sent = TRUE, !.applied = applied]

\* The command is committed, but nobody is there to answer.
LEMMA SentUnansweredAPI ==
  ASSUME APIInv, NEW r \in Requests, SentUnanswered(r)
  PROVE  APIInv'
<1> DEFINE q == request[r].input
           h == request[r].key
<1>1. PICK res : res = Dispatch(db, request[r].cmd, 0)
  OBVIOUS
<1>2. PICK applied : applied = (res.err = "none")
  OBVIOUS
<1>3. /\ request[r].pc = "proposing" /\ ~ request[r].sent
      /\ db' = IF res.err = "none" THEN res.db ELSE db
      /\ request' = [request EXCEPT ![r].sent = TRUE, ![r].applied = applied]
      /\ UNCHANGED <<clusterVars, ready, generated, shown>>
  BY <1>1, <1>2 DEF SentUnanswered
<1>4. request[r] \in Call /\ Fine(request[r], db, stale, generated)
  BY <1>3, Handled
<1>5. Consistent(db') /\ TenantsKept(db, db')
  BY <1>1, <1>3, ProposalEffect
<1>6. PICK y : y = WithSent(request[r], applied)
  OBVIOUS
<1>7. DOMAIN request = Requests
  BY DEF APIInv
<1>8. request' = [request EXCEPT ![r] = y]
  BY <1>3, <1>6, <1>7, Zenon DEF WithSent
<1>9. applied \in BOOLEAN
  BY <1>2
<1>10. /\ y \in Call /\ y.pc = "proposing" /\ y.input = q /\ y.node = request[r].node
       /\ y.key = h /\ y.cmd = request[r].cmd
       /\ y.applied = applied /\ y.sent = TRUE /\ y.valid = request[r].valid
  BY <1>3, <1>4, <1>6, <1>9, Zenon DEF Call, WithSent
<1>11. Fine(request[r], db', stale, generated)
  BY <1>4, <1>5, StaysFine DEF APIInv
<1>12. Fine(y, db', stale, generated)
  <2>1. ProposesOwn(y, generated)
    BY <1>3, <1>10, <1>11 DEF Fine, ProposesOwn
  <2>2. Definite(y)
    BY <1>10 DEF Definite
  <2>3. KeyShown(y, db')
    BY <1>10 DEF KeyShown
  <2>4. StaysValid(y, db', stale)
    <3>1. StaysValid(request[r], db', stale)
      BY <1>11 DEF Fine
    <3> QED
      BY <1>10, <3>1, ValidMoves
  <2>5. AdmittedOwn(y, db')
    <3>1. AdmittedOwn(request[r], db') /\ Admitted(request[r])
      BY <1>3, <1>11 DEF Fine, Admitted
    <3> QED
      BY <1>10, <3>1, AdmittedMoves
  <2> QED
    BY <2>1, <2>2, <2>3, <2>4, <2>5 DEF Fine
<1>13. /\ UNCHANGED clusterVars /\ generated' = generated /\ generated \subseteq KeyHashes
       /\ shown' \subseteq generated /\ ready' \in [Nodes -> BOOLEAN]
  BY <1>3 DEF APIInv
<1> QED
  BY <1>5, <1>8, <1>10, <1>12, <1>13, RequestMoves, Zenon

\* A step of a handler keeps the invariant.
LEMMA HandleAPI ==
  ASSUME APIInv, NEW r \in Requests, Handle(r)
  PROVE  APIInv'
<1> DEFINE q == request[r].input
<1>1. CASE requireLeader(r) \/ requireAdmin(r) \/ requireTenantAccess(r)
  BY <1>1, RequireLeaderAPI, RequireAdminAPI, RequireTenantAccessAPI
<1>2. CASE handleGetTenant(r) \/ handleGetSchedule(r) \/ handleGetExecution(r) \/ handleGetAttempt(r)
  <2>1. \A row : FoundStatus(row) \in {200, 404}
    BY DEF FoundStatus
  <2>2. Lookup \cap Write = {}
    BY DEF Lookup, Write
  <2>3. PICK endpoint \in Lookup, status \in {200, 404} : Serve(r, endpoint, status)
    BY <1>2, <2>1 DEF handleGetTenant, handleGetSchedule, handleGetExecution, handleGetAttempt, Lookup
  <2> QED
    BY <2>2, <2>3, ServeAPI
<1>3. CASE \/ handleListTenants(r) \/ handleListExecutionsBySchedule(r)
           \/ handleListExecutionsByStatus(r) \/ handleListAttemptsByExecution(r)
  <2>1. Listing \cap Write = {}
    BY DEF Listing, Write
  <2>2. PICK endpoint \in Listing : BadRequest(r, endpoint) \/ Serve(r, endpoint, 200)
    BY <1>3 DEF handleListTenants, handleListExecutionsBySchedule, handleListExecutionsByStatus,
                handleListAttemptsByExecution, List, Listing
  <2> QED
    BY <2>1, <2>2, ServeAPI, BadRequestAPI
<1>4. CASE handleCreateTenant(r)
  BY <1>4, CreateTenantAPI
<1>5. CASE handleCreateSchedule(r)
  <2>1. CASE BadRequest(r, "create_schedule")
    BY <2>1, BadRequestAPI
  <2>2. CASE Submit(r, "create_schedule", CreateScheduleCommand(q.tenant, q.id, q.spec))
    <3>1. CommandOf(q, Nil) = CreateScheduleCommand(q.tenant, q.id, q.spec)
      BY <2>2 DEF CommandOf, Submit
    <3> QED
      BY <2>2, <3>1, SubmitAPI DEF Write
  <2> QED
    BY <1>5, <2>1, <2>2 DEF handleCreateSchedule
<1>6. CASE handlePauseSchedule(r)
  <2>1. Submit(r, "pause", PauseScheduleCommand(q.tenant, q.id))
    BY <1>6 DEF handlePauseSchedule
  <2>2. CommandOf(q, Nil) = PauseScheduleCommand(q.tenant, q.id)
    BY <2>1 DEF CommandOf, Submit
  <2> QED
    BY <2>1, <2>2, SubmitAPI DEF Write
<1>7. CASE handleCancelSchedule(r)
  <2>1. Submit(r, "cancel", CancelScheduleCommand(q.tenant, q.id))
    BY <1>7 DEF handleCancelSchedule
  <2>2. CommandOf(q, Nil) = CancelScheduleCommand(q.tenant, q.id)
    BY <2>1 DEF CommandOf, Submit
  <2> QED
    BY <2>1, <2>2, SubmitAPI DEF Write
<1>8. CASE handleResumeSchedule(r)
  <2>1. Submit(r, "resume", ResumeScheduleCommand(q.tenant, q.id))
    BY <1>8 DEF handleResumeSchedule
  <2>2. CommandOf(q, Nil) = ResumeScheduleCommand(q.tenant, q.id)
    BY <2>1 DEF CommandOf, Submit
  <2> QED
    BY <2>1, <2>2, SubmitAPI DEF Write
<1>9. CASE propose(r) \/ Committed(r) \/ SentUnanswered(r) \/ ProposeFails(r)
  BY <1>9, ProposeAPI, CommittedAPI, SentUnansweredAPI, ProposeFailsAPI
<1> QED
  BY <1>1, <1>2, <1>3, <1>4, <1>5, <1>6, <1>7, <1>8, <1>9 DEF Handle

\* Every step of the API does, and so does one that leaves it alone.
LEMMA NextAPI ==
  ASSUME APIInv, [Next]_vars
  PROVE  APIInv'
<1>1. CASE UNCHANGED vars
  BY <1>1 DEF vars, clusterVars, APIInv
<1>2. ASSUME NEW n \in Nodes, Elect(n) \/ Depose(n) \/ StepDown(n)
      PROVE  APIInv'
  BY <1>2, ElectAPI, DeposeAPI, StepDownAPI
<1>3. ASSUME NEW n \in Nodes, NEW r \in Requests, NEW q \in Inputs, Arrive(r, n, q)
      PROVE  APIInv'
  BY <1>3, ArriveAPI
<1>4. ASSUME NEW r \in Requests, Handle(r)
      PROVE  APIInv'
  BY <1>4, HandleAPI
<1> QED
  BY <1>1, <1>2, <1>3, <1>4 DEF Next

\* What the invariant gives for an answered request.
LEMMA AnsweredFine ==
  ASSUME APIInv, NEW r \in Requests, Answered(r)
  PROVE  request[r] \in Call /\ Fine(request[r], db, stale, generated)
BY Handled DEF Answered

\* The invariant gives the types.
LEMMA InvTypes ==
  ASSUME APIInv
  PROVE  TypeOK
<1>1. db \in DB
  BY DEF APIInv, Consistent, Intact
<1>2. ASSUME NEW r \in Requests, Answered(r)
      PROVE  request[r].status \in Statuses
  BY <1>2, AnsweredFine DEF Fine, Definite, Answered
<1>3. \A n \in Nodes : stale[n] # Nil => role[n] = "leader" /\ n # elected
  BY DEF APIInv
<1> QED
  BY <1>1, <1>2, <1>3 DEF APIInv, TypeOK, Statuses

\* 200 and 201 mean that the command of the request has taken effect, 503 leaves
\* it open, and every other status means that it has not and will not, however
\* leadership changes between the checks of a handler and its proposal.
THEOREM AnswersAreDefinite == Spec => []DefiniteAnswers
<1>1. Init => APIInv
  BY InitAPI
<1>2. APIInv /\ [Next]_vars => APIInv'
  BY NextAPI
<1>3. ASSUME APIInv
      PROVE  DefiniteAnswers
  <2>1. ASSUME NEW r \in Requests
        PROVE  Answered(r) /\ request[r].input.endpoint \in Write =>
                 /\ request[r].status \in {200, 201} => request[r].applied
                 /\ request[r].status \notin {200, 201, 503} => ~ request[r].applied
    <3>1. Answered(r) => request[r].pc = "answered" /\ Definite(request[r])
      BY <1>3, AnsweredFine DEF Fine, Answered
    <3> QED
      BY <3>1 DEF Definite
  <2> QED
    BY <2>1 DEF DefiniteAnswers
<1> QED
  BY <1>1, <1>2, <1>3, PTL DEF Spec

\* The key in a 201 of handleCreateTenant is and stays the key of the tenant, and
\* requireTenantAccess never turns away a request that came with the right key to
\* the leader, deposed or not when it looks.
THEOREM ShownKeysWork == Spec => []ShownKeyWorks
<1>1. Init => APIInv
  BY InitAPI
<1>2. APIInv /\ [Next]_vars => APIInv'
  BY NextAPI
<1>3. ASSUME APIInv
      PROVE  ShownKeyWorks
  <2>1. ASSUME NEW r \in Requests
        PROVE  Answered(r) =>
                 /\ request[r].input.endpoint = "create_tenant" /\ request[r].status = 201 =>
                      GetTenant(db, request[r].input.tenant) = request[r].key
                 /\ request[r].valid /\ request[r].input.endpoint \notin AdminOnly =>
                      request[r].status # 401
    <3>1. Answered(r) => /\ request[r].pc = "answered" /\ KeyShown(request[r], db)
                         /\ StaysValid(request[r], db, stale)
      BY <1>3, AnsweredFine DEF Fine, Answered
    <3>2. Answered(r) /\ request[r].input.endpoint = "create_tenant" /\ request[r].status = 201 =>
            GetTenant(db, request[r].input.tenant) = request[r].key
      BY <3>1 DEF KeyShown, GetTenant
    <3>3. Answered(r) /\ request[r].valid /\ request[r].input.endpoint \notin AdminOnly =>
            request[r].status # 401
      BY <3>1 DEF StaysValid
    <3> QED
      BY <3>2, <3>3
  <2> QED
    BY <2>1 DEF ShownKeyWorks
<1> QED
  BY <1>1, <1>2, <1>3, PTL DEF Spec

\* A request with the key of a tenant reads or changes nothing of another one.
THEOREM KeysOpenOwnTenant == Spec => []OwnTenantOnly
<1>1. Init => APIInv
  BY InitAPI
<1>2. APIInv /\ [Next]_vars => APIInv'
  BY NextAPI
<1>3. ASSUME APIInv
      PROVE  OwnTenantOnly
  <2>1. ASSUME NEW r \in Requests
        PROVE  Answered(r) /\ request[r].input.token \in KeyHashes
                 /\ (request[r].applied \/ request[r].status \in {200, 201, 404, 409}) =>
                 GetTenant(db, request[r].input.tenant) = request[r].input.token
    <3>1. Answered(r) => request[r].pc = "answered" /\ AdmittedOwn(request[r], db)
      BY <1>3, AnsweredFine DEF Fine, Answered
    <3> QED
      BY <3>1 DEF AdmittedOwn, Admitted, GetTenant
  <2> QED
    BY <2>1 DEF OwnTenantOnly
<1> QED
  BY <1>1, <1>2, <1>3, PTL DEF Spec

\* Every variable of the API has its type: the database is well-formed, a node
\* that reads an old database is not the elected one, the keys that clients have
\* were generated, and no handler answers with a status of its own.
THEOREM APITypes == Spec => []TypeOK
<1>1. Init => APIInv
  BY InitAPI
<1>2. APIInv /\ [Next]_vars => APIInv'
  BY NextAPI
<1> QED
  BY <1>1, <1>2, InvTypes, PTL DEF Spec
=============================================================================
