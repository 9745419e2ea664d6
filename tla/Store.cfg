CONSTANTS
  Node = {n1}
  Cmd = {}
  Nil = Nil
  Barrier = Barrier
  None = None
  Payload <- StoreRecord
  Limit = 1
  MaxTerm = 2
  MaxRecords = 3
SPECIFICATION MCStoreSpec
INVARIANTS
  JournalTypeOK
  AcknowledgedSurvive
  StoreOpens
PROPERTIES
  StoreIsAtomic
