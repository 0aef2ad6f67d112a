SPECIFICATION Spec
CONSTANTS
  Main = Main
  Tids = {t1, t2}
  Proto = Thread
  Objs = {Thread, a, b}
  Mutexes = {m}
  NULL = NULL
  MaxStarts = 2
INVARIANTS TypeOK RunningSlot WaitsAreValid
PROPERTIES JoinWaits
CHECK_DEADLOCK FALSE
SYMMETRY Symmetry
