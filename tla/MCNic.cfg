SPECIFICATION Spec
CONSTANTS
  RX_BUF_SIZE = 16
  TX_NUM = 3
  Sizes = {1, 2, 3}
  MaxFrames = 6
  MaxSends = 4
INVARIANTS
  RingInSync
  DeliveredIntact
  SendHonest
  InStep
CHECK_DEADLOCK FALSE
