CONSTANTS
  A = a
  B = b
  C = c
  Node = {a, b, c}
  Cmd = {x}
  Nil = Nil
  Barrier = Barrier
  FixedLeader = Nil
  SnapshotEvery = 1
  BatchLimit = 2
  MaxInflight = 4
  Schedule <- RepairSchedule
SPECIFICATION PFairSpec
CHECK_DEADLOCK FALSE
PROPERTIES
  CatchesUp
