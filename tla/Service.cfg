CONSTANTS
  Client = {c1, c2}
  Key = {k}
  Text = {Empty, v}
  Empty = Empty
  Missing = Missing
  Peers <- MCPeers
  Seeds <- MCSeeds
  Caller = {k1, k2}
  Null = Null
  MaxAttempts = 7
  MaxRequest = 2
  MaxCommands = 3
  MaxCalled = 2
  MaxPatience = 7
  MaxRefused = 3
  MaxRetries = 2
  MaxKnown = 2
SPECIFICATION MCSpec
SYMMETRY Symmetry
INVARIANTS
  EffectOnce
  AnswersRepeat
  ReachesLeader
PROPERTIES
  Settled
