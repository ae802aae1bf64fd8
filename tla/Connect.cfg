SPECIFICATION FairSpec
CONSTANTS
  NoCompression = NoCompression
  Malformed = Malformed
  NoMessage = NoMessage
  l1 = l1
  l2 = l2
  l3 = l3
  Loops = {l1, l2, l3}
  ListenerOf <- MCListenerOf
  Target = "lnA"
  Setups <- MCSetups
  ReadSizes = {1, 2}
  MaxFrames = 2
  MaxRetries = 1
CHECK_DEADLOCK FALSE
INVARIANTS Agreed FramesInOrder
PROPERTIES DialReturns HandshakeEnds CloseStopsServe
