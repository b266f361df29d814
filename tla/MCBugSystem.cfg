SPECIFICATION SysFairSpec
CONSTANTS
  Sockets = {0, 1}
  NoSocket = NoSocket
  Conns = {c1}
  station = c1
  NoConn = NoConn
  Words <- NoWords
  Chunks = {3}
  RxSize = 6
  SynQueueSize = 1
  Faults = {"reset"}
  Interval = 1
  BodyTicks = 1
  WriteTicks = 0
  Pots = {310, 320, 980, 1010}
  LeftEnd = 320
  RightEnd = 975
  CentreLow = 620
  CentreHigh = 655
  Sticks <- MCSticks
INVARIANTS SysTypeOK DeadMansTrigger WheelLetGo
PROPERTIES ImplementsLink WordsAnswered SteeringEnds
