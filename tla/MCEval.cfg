SPECIFICATION Spec
CONSTANTS
  Lobby = Lobby
  Nil = e
  NULL = NULL
  Values = {e}
  Excs = {e}
  Contexts = {ctx}
  Builtins <- AllBuiltins
  MaxFrames = 5
  MaxStack = 5
  MaxArgs = 2
  MaxTryArgs = 5
  MaxTimes = 2
  MaxFiles = 2
INVARIANTS
  TypeOK
  JumpChain
  CallstackShape
  StackDiscipline
PROPERTIES
  ReturnRestores
  NoHandlerSkipped
