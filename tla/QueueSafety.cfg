SPECIFICATION Spec
CONSTANTS
  w1 = w1
  w2 = w2
  w3 = w3
  r1 = r1
  r2 = r2
  NoOne = NoOne
  Writers = {w1, w2}
  Runners = {r1, r2}
  Ops <- QueueOps
  Header = 1
  Limits = {0, 3}
  DefaultLimit = 8
  FragmentSize = 1
  MaxCalls = 4
  MaxFailures = 1
SYMMETRY Symmetry
INVARIANTS
  TypeOK
  OneWriter
  WireInEncodeOrder
  CloseIsLast
  NilMeansWritten
  ReservationHolds
  Accounting
  WriterWhenNeeded
  ArenaWhileNeeded
PROPERTIES
  FailedQueueIsQuiet
  ImplementsOutbox
