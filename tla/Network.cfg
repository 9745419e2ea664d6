CONSTANTS
  Node = {n1, n2, n3}
  Cmd = {x}
  Nil = Nil
  Barrier = Barrier
  FixedLeader = Nil
  SnapshotEvery = 1
  BatchLimit = 2
  MaxInflight = 2
  Budgets <- ServiceBudgets
SPECIFICATION MCSpec
SYMMETRY Symmetry
CHECK_DEADLOCK FALSE
INVARIANTS
  NoAppendError
  CompactedEverywhere
  NoPanic
  JournalAccepts
  MatchSound
  WaitersOwnTheirEntry
  AnsweredIsDurable
PROPERTIES
  LedgerSpec
