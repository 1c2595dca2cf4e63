SPECIFICATION Spec
CONSTANTS
  Version = 3
  Card = 2
  Challenge = 3
  Format = 3
  MaxName = 1
  MaxConnections = 2
INVARIANTS TypeOK InStep WatchesWindow
PROPERTIES HandshakeEnds
