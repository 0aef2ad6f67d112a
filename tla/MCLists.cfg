SPECIFICATION Spec
CONSTANTS
  NULL = NULL
  Threads = {s, t}
  Items = {x, y}
  ListObjs = {List, l}
  ListProto = List
  Indices <- MCIndices
  SizeMax = 15
  MaxItems = 3
PROPERTY ListsAreSequences
CHECK_DEADLOCK FALSE
