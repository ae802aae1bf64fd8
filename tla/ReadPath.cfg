\* Every way of reading over valid and broken streams, cut short or not.
CONSTANTS
  Streams <- MCStreams
  Cuts = {0, 1, 6}
  HeaderLen = 2
  BufLen = 3
  Limit = 5
  FragmentSize = 2
  ReadSizes = {1, 4}
  Takeovers = {TRUE, FALSE}
  Calls <- AllCalls
  MaxCalls = 5
  MaxTimeouts = 1
SPECIFICATION FairSpec
INVARIANTS
  DeliveredExactly
  ControlsOnce
  OpenFrameIsKnown
  WithinLimit
  HistoryInStep
PROPERTIES
  TerminalIsTerminal
  ReadsReturn
