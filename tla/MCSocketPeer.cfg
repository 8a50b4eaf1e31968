CONSTANTS
  port = port
  path = path
  NoName = NoName
  MaxPeers = 3
  Ports <- MCPorts
  Paths <- MCPaths
  MaxFd = 3
  MaxConns = 1
  MaxObjects = 3
  Senders = {"client"}
  MaxBytes = 2
  SockBuf = 1
SPECIFICATION Spec
INVARIANTS  StreamFaithful
PROPERTIES ShutdownReleasesReceive
CHECK_DEADLOCK FALSE
