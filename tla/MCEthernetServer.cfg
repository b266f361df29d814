SPECIFICATION ServerSpec
CONSTANTS
  Sockets = {0, 1, 2}
  NoSocket = NoSocket
  Conns = {c1, c2, c3, c4}
  NoConn = NoConn
  Words <- MCWords
  Chunks = {1}
  RxSize = 1
  SynQueueSize = 2
  Faults = {"hangup", "reset"}
SYMMETRY Symmetry
INVARIANTS ServerTypeOK NoSocketLeak FreeIsClean OneSocketPerClient
PROPERTIES OnlyStopBreaksTheList
