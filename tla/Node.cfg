SPECIFICATION Spec
CONSTANTS
  MaxChanges = 4
  MaxFailures = 1
  Nodes = {n1, n2}
  Readers = {r1, r2}
  Nil = Nil
  MaxTerm = 2
  MaxEntries = 1
  Keys = {1, 2, 3, 4}
  Listed = {1, 2, 3}
  Limits = {0, 1, 2, 3}
  MaxLimit = 2
  NoKey = NoKey
  Width = 8
  Initials = {0, 1, 3, 10, 127}
  Multipliers <- MCMultipliers
  Maxes = {0, 1, 50, 127}
  AttemptLimits = {0, 3}
  MaxAttempt = 8
CHECK_DEADLOCK FALSE
INVARIANTS
  TypeOK
  OneWorker
  FreshReads
  Exact
PROPERTIES
  WorkerFollowsLeadership
  ShutdownEnds
  ReadsReturn
  WalkEnds
  BacksOffInRange
