\* Two connections, every negotiated setting, one pool of compressors.
CONSTANTS
  Conns = {c1, c2}
  Compressors = {k1, k2, k3}
  None = None
  Configs <- MCConfigs
  Sizes = {0, 1, 2, 3}
  WindowSize = 3
  MinSize = 1
  PendingHistory = 2
  MaxMessages = 4
  MaxFailures = 1
SYMMETRY MCSymmetry
SPECIFICATION Spec
INVARIANTS
  Decodable
  HistoryKept
  CompressorsGoBack
