SPECIFICATION Spec

CONSTANTS
  NULL = NULL
  MaxObjects = 80
  MaxHeld = 3
  Used <- MCUsed

INVARIANTS
  BootstrapCompletes
  ClonesHaveTheirData
  OnlyPrototypesFail

\* The process ends when it aborts.
CHECK_DEADLOCK FALSE
