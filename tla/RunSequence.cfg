SPECIFICATION Spec
CONSTANTS
  SecondLength = 2
  DayLength = 8
  LongMonth = 4
  ShortMonth = 3
  Zones <- MCZones
  Nil = Nil
  Invalid = Invalid
  Tenants = {acme}
  ScheduleIds = {s1}
  ExecutionIds = {e1}
  AttemptIds = {a1}
  Nodes = {n1}
  KeyHashes = {h}
  CanonicalKey <- MCCanonicalKey
  Created <- MCCreated
  Horizon = 56
INVARIANTS
  NextIsEarliest
  AfterIsEarliest
  LatestIsLatest
  RunsOnCadence
