SPECIFICATION Spec
CONSTANTS
  NULL = NULL
  Lobby = lobby
  Objects = {lobby, x}
  Addrs <- MCAddrs
  MaxDepth = 3
  MaxFrames = 6
INVARIANTS
  NoPoppedElementRead
PROPERTIES
  ImplementsContextStack
