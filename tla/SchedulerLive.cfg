SPECIFICATION Spec
CONSTANTS
  SecondLength = 1
  DayLength = 4
  LongMonth = 3
  ShortMonth = 2
  Zones <- MCZones
  Nil = Nil
  Invalid = Invalid
  Tenants = {acme}
  ScheduleIds = {s1}
  ExecutionIds = {e1}
  AttemptIds = {1, 2, 3, 4, 5}
  Nodes = {n1, n2}
  KeyHashes = {h}
  CanonicalKey <- MCCanonicalKey
  Settings <- LiveSettings
  MaxAttempts = 2
  MaxTime = 1
  Backoff = 1
  QueueSize = 1
  PoolSize = 1
  MaxDepositions = 1
  MaxEdits = 0
  MaxFaults = 1
CHECK_DEADLOCK FALSE
INVARIANT TypeOK
PROPERTIES
  DueIsClaimed
  AttemptedEnds
  CanceledWorkerStops
