SPECIFICATION MCSpec
CONSTANTS
  SecondLength = 1
  DayLength = 4
  LongMonth = 3
  ShortMonth = 2
  Zones <- MCZones
  Nil = Nil
  Invalid = Invalid
  t1 = t1
  t2 = t2
  s1 = s1
  e1 = e1
  a1 = a1
  n1 = n1
  h1 = h1
  h2 = h2
  h3 = h3
  AdminKey = AdminKey
  Tenants = {t1, t2}
  ScheduleIds = {s1}
  ExecutionIds = {e1}
  AttemptIds = {a1}
  Nodes = {n1, n2}
  KeyHashes = {h1, h2, h3}
  CanonicalKey <- MCCanonicalKey
  Initial <- MCInitial
  Inputs <- AllInputs
  Requests = {r1, r2}
  MaxDepositions = 1
  Handlers = {g1, g2}
  TenantNames = {"acme", "admin"}
  None = None
  Unit = 3
  Rate = 2
  Burst = 6
  Second = 1
  MaxTime = 3
SYMMETRY Symmetry
CHECK_DEADLOCK FALSE
INVARIANTS
  MCTypeOK
  DefiniteAnswers
  ShownKeyWorks
  OwnTenantOnly
  WithinRate
  OwnBudget
  RetryAfterHolds
