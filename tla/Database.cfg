CONSTANTS
  Client = {c1, c2}
  Key = {k}
  Text = {Empty, v}
  Empty = Empty
  Missing = Missing
  None = None
  Payload <- Commands
  MaxRequest = 2
  MaxRecords = 3
SPECIFICATION MCDatabaseSpec
SYMMETRY Symmetry
INVARIANTS
  ReadsAreDurable
  AnsweredOnce
  AlwaysOpens
