CONSTANTS
  Bufs = {b1, b2}
  flow <- OneFlow
  Workers = {w1, w2}
  RX_RING_SIZE = 2
  TX_RING_SIZE = 1
  RX_BURST_SIZE = 2
  TX_BURST_SIZE = 1
  TX_QUEUE_SIZE = 2
  MAX_PKT_PER_TX = 1
  DIST_BURST = 1
  Nobody = Nobody
SPECIFICATION Spec
INVARIANTS
  OnePlace
  QueueNeverFull
PROPERTIES
  InOrder
  NoneWaitsForEver
CHECK_DEADLOCK FALSE
