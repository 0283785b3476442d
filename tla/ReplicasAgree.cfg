SPECIFICATION Spec
CONSTANTS
  SecondLength = 1
  DayLength = 4
  LongMonth = 3
  ShortMonth = 2
  Zones <- MCZones
  Nil = Nil
  Invalid = Invalid
  acme = acme
  s1 = s1
  e1 = e1
  e2 = e2
  a1 = a1
  n1 = n1
  n2 = n2
  Tenants = {acme}
  ScheduleIds = {s1}
  ExecutionIds = {e1, e2}
  AttemptIds = {a1}
  Nodes = {n1, n2}
  KeyHashes = {h}
  CanonicalKey <- MCCanonicalKey
  Entries <- MCEntries
  Histories <- MCHistories
  MaxStarts = 2
CHECK_DEADLOCK FALSE
INVARIANTS
  ReplicasAgree
