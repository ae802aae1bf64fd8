\* A NetConn with a concurrent Close, and an event handler, over the same streams.
CONSTANTS
  Streams <- SessionStreams
  Cuts = {0}
  HeaderLen = 1
  BufLen = 2
  Limit = 5
  FragmentSize = 2
  ReadSizes = {1, 3}
  Takeovers = {TRUE}
  Calls <- HostCallsUsed
  MaxCalls = 1
  MaxTimeouts = 1
  Hosts = {"netconn", "events"}
  CloseCodes = {"normal", "nostatus", "other"}
  MaxReads = 4
  MaxWrites = 1
  Closers = {TRUE}
SPECIFICATION FairSession
INVARIANTS
  TunnelExact
  EofIsTheEnd
  EventsExact
PROPERTIES
  SessionEnds
