SPECIFICATION SlowPeerSpec
CONSTANTS
  w1 = w1
  w2 = w2
  w3 = w3
  r1 = r1
  r2 = r2
  NoOne = NoOne
  Writers = {w1, w2}
  Runners = {r1}
  Ops <- MixedOps
  Header = 1
  Limits = {2}
  DefaultLimit = 8
  FragmentSize = 1
  MaxCalls = 3
  MaxFailures = 1
PROPERTIES
  CallsReturn
  AcceptedIsWritten
  StallsOnlyBehindDirectWrite
