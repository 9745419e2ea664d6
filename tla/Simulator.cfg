CONSTANTS
  Node = {n1, n2, n3}
  Cmd = {x}
  Nil = Nil
  Barrier = Barrier
  FixedLeader = Nil
  SnapshotEvery = 0
  BatchLimit = 2
  MaxInflight = 4
  First = n1
  Second = n2
SPECIFICATION MCSimSpec
CHECK_DEADLOCK FALSE
INVARIANTS
  AuditPasses
PROPERTIES
  RunPasses
