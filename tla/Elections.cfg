CONSTANTS
  Node = {n1, n2, n3}
  Cmd = {x}
  Nil = Nil
  Barrier = Barrier
  FixedLeader = Nil
  SnapshotEvery = 0
  BatchLimit = 1
  MaxInflight = 4
  Budgets <- ElectionBudgets
SPECIFICATION MCSpec
SYMMETRY Symmetry
CHECK_DEADLOCK FALSE
INVARIANTS
  TypeOK
  OneVotePerTerm
  ElectionSafety
  LeaderHintElected
  LeaderCompleteness
  StateMachineSafety
  LogMatching
