SPECIFICATION Spec
CONSTANTS
  SecondLength = 1
  DayLength = 4
  LongMonth = 3
  ShortMonth = 2
  Zones <- MCZones
  Nil = Nil
  Invalid = Invalid
  Tenants = {acme}
  ScheduleIds = {s1}
  ExecutionIds = {e1, e2}
  AttemptIds = {a1, a2}
  Nodes = {n1, n2}
  KeyHashes = {h}
  CanonicalKey <- MCCanonicalKey
  Specs <- MCSpecs
  Settings <- MCSettings
  Times <- MCTimes
  RetryTimes <- MCRetryTimes
SYMMETRY Symmetry
INVARIANTS
  TypeOK
  IndexesMirrorRows
  OneExecutionPerOccurrence
  OwnedIffInFlight
  AttemptLedger
  QuietUnlessActive
  CatchUpAllComplete
PROPERTIES
  FinishedIsFrozen
  ScheduleLifecycle
