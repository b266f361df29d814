SPECIFICATION Spec
CONSTANTS
  Sockets = {0, 1}
  NoSocket = NoSocket
  Conns = {c1, c2}
  NoConn = NoConn
  Words <- MCWords
  Chunks = {3}
  RxSize = 3
  SynQueueSize = 1
  Faults = {"hangup", "reset"}
  PendingMax = 2
  Pots = {200, 950}
  LeftEnd = 230
  RightEnd = 920
  Centre = 663
INVARIANTS TypeOK HandlesApart AcceptSucceeds StoppedAfterFarewell DriveEnvelope RoomToListen
PROPERTIES NextClientServed
