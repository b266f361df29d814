SPECIFICATION FairSpec
CONSTANTS
  c1 = c1
  c2 = c2
  c3 = c3
  Sockets = {0, 1}
  NoSocket = NoSocket
  Conns = {c1, c2}
  NoConn = NoConn
  Words <- OwnWords
  Chunks = {3}
  RxSize = 6
  SynQueueSize = 1
  Faults = {}
  Interval = 1
  BodyTicks = 1
  WriteTicks = 0
  Pots = {600, 660}
  LeftEnd = 320
  RightEnd = 975
  CentreLow = 620
  CentreHigh = 655
INVARIANTS WholeCommands
PROPERTIES Answered
