CONSTANTS
  Node = {n1, n2, n3}
  Cmd = {x}
  Nil = Nil
  Barrier = Barrier
  FixedLeader = Nil
  SnapshotEvery = 2
  BatchLimit = 2
  MaxInflight = 4
  Budgets <- InspectBudgets
  InspectLimit = 2
SPECIFICATION MCSpec
SYMMETRY Symmetry
CHECK_DEADLOCK FALSE
INVARIANTS
  InspectStaysInLog
