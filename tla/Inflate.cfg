SPECIFICATION Spec
CONSTANTS
  MinBits = 0
  MaxBits = 2
  Conns = {"a", "b"}
  Takeover = {"a"}
  Messages <- MCMessages
  WindowSize = 5
  PoolKeep = 1
  Step = 1
  Limit = 4
  ReadSizes = {2}
  FragmentSize = 2
  MaxMessages = 3
CHECK_DEADLOCK FALSE
INVARIANTS HistoryExact MessageExact OwnedOnce
