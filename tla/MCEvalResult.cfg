SPECIFICATION HSpec
CONSTANTS
  Lobby = Lobby
  Nil = Nil
  NULL = NULL
  Values = {e}
  Excs = {e}
  Contexts = {ctx}
  Builtins <- AllBuiltins
  MaxFrames = 5
  MaxStack = 5
  MaxArgs = 1
  MaxTryArgs = 1
  MaxTimes = 1
  MaxFiles = 1
PROPERTIES
  LastResultUsed
