SPECIFICATION Spec
CONSTANTS
  c1 = c1
  c2 = c2
  c3 = c3
  Sockets = {0, 1}
  NoSocket = NoSocket
  Conns = {c1, c2, c3}
  NoConn = NoConn
  Words <- CloseWords
  Chunks = {7}
  RxSize = 7
  SynQueueSize = 1
  Faults = {"hangup", "reset"}
  Interval = 1
  BodyTicks = 1
  WriteTicks = 0
  Pots = {600, 660}
  LeftEnd = 320
  RightEnd = 975
  CentreLow = 620
  CentreHigh = 655
INVARIANTS PickedUpOnce
