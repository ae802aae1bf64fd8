SPECIFICATION Spec
CONSTANTS
  Setups <- MCSetups
INVARIANTS
  FramesRoundTrip
  RefusedExactly
  TextVerdict
CHECK_DEADLOCK FALSE
