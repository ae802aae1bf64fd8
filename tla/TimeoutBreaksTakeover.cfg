\* ReadMessage of a compressed message times out, with receive takeover.
CONSTANTS
  Streams <- TakeoverStreams
  Cuts = {0}
  HeaderLen = 2
  BufLen = 3
  Limit = 5
  FragmentSize = 2
  ReadSizes = {1}
  Takeovers = {TRUE}
  Calls = {"ReadMessage"}
  MaxCalls = 3
  MaxTimeouts = 1
SPECIFICATION Spec
INVARIANTS
  WellFormedIsAccepted
