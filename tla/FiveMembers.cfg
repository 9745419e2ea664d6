CONSTANTS
  A = a
  B = b
  C = c
  D = d
  E = e
  Node = {a, b, c, d, e}
  Cmd = {x}
  Nil = Nil
  Barrier = Barrier
  FixedLeader = Nil
  SnapshotEvery = 2
  BatchLimit = 2
  MaxInflight = 4
  Schedule <- ReturnSchedule
SPECIFICATION PSpec
CHECK_DEADLOCK FALSE
INVARIANTS
  NoPanic
