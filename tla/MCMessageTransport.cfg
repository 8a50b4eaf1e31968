CONSTANTS
  s1 = s1
  s2 = s2
  Senders <- MCSenders
  Contents <- MCContents
  MinChunkingSize = 2
  ChunkSize = 2
  InitialSize = 1
  LinearSize = 2
  MaxChunks = 2
  MaxFrame = 5
  NameMod = 4
  MaxPuts = 2
SPECIFICATION Spec
INVARIANTS ReceiverSound
PROPERTIES ImplementsChannel EventuallyDelivered
CHECK_DEADLOCK FALSE
