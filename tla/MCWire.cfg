SPECIFICATION Spec
CONSTANTS
  Radix = 16
  xidLength = 1
  CorrelationIDLength = 1
  maxInboundPDU = 60
  Pieces = {1, 12, 30, 56}
  PeerUnit <- Kinds
  MaxUnits = 2
  Event <- Events
  Baselines = {"full", "minimal"}
CHECK_DEADLOCK FALSE
INVARIANTS FramingIsExact BufferBounded RecordsConform
