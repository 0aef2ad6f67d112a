SPECIFICATION MCSpec
CONSTANTS
  Keys <- MCKeys
  Hash <- MCHash
  Sizes <- MCSizes
  v = v
  w = w
  Values <- MCValues
  NULL = NULL
INVARIANTS
  TypeOK
  NoKeyLost
  Findable
  RoomLeft
PROPERTIES
  ImplementsMap
  CallsReturn
