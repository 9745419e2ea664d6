CONSTANTS
  Member = {n1, n2}
  Nil = Nil
  Capacity = 2
  Speaker = n1
  MaxPackets = 2
SPECIFICATION MCLabSpec
CHECK_DEADLOCK FALSE
INVARIANTS
  OneProcess
  NoOrphans
  EventsInOrder
  GapsCounted
  OneWorkload
  NothingCrosses
PROPERTIES
  CloseEnds
  DeathShows
