SPECIFICATION Spec

CONSTANTS
  Smallest = 2
  Chunk = 2
  BufferSize = 4
  Static = 1
  Reduced = TRUE
  MaxInt = 15
  MaxLen = 4
  Memory = {"plenty", "tight", "none"}
  Words <- MCWords
  Places <- MCPlaces
  Lengths <- MCLengths

INVARIANTS
  Terminated
  OnlyKnownFaults
  SearchesFind
  ComparisonsAgree

PROPERTY
  ImplementsTexts

\* What a program does after a fault is not defined.
CHECK_DEADLOCK FALSE
