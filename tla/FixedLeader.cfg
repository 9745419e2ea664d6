CONSTANTS
  Node = {n1, n2, n3}
  Cmd = {}
  Nil = Nil
  Barrier = Barrier
  FixedLeader = n1
  SnapshotEvery = 1
  BatchLimit = 1
  MaxInflight = 2
  Budgets <- FixedLeaderBudgets
SPECIFICATION FairSpec
CHECK_DEADLOCK FALSE
PROPERTIES
  AllCommitted
INVARIANTS
  MachineIsCommitted
