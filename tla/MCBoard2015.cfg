SPECIFICATION FairSpec
CONSTANTS
  c1 = c1
  c2 = c2
  c3 = c3
  Sockets = {0, 1}
  NoSocket = NoSocket
  Conns = {c1}
  NoConn = NoConn
  Words <- MCWords
  Chunks = {2}
  RxSize = 4
  SynQueueSize = 1
  Faults = {"hangup", "reset"}
  Interval = 2
  BodyTicks = 1
  WriteTicks = 1
  Pots = {300, 980}
  LeftEnd = 320
  RightEnd = 975
  CentreLow = 620
  CentreHigh = 655
INVARIANTS TypeOK StopTakesEffect StoppedAfterClose DriveEnvelope
PROPERTIES NoCommandSkipped CommandTakesEffect
