SPECIFICATION FairSpec
CONSTANTS
  Main = Main
  Tids = {t1, t2, t3}
  Proto = Thread
  a = a
  b = b
  c = c
  Objs = {Thread, a, b, c}
  Mutexes = {m}
  mutex = m
  NULL = NULL
  MaxStarts = 1
  Order <- ABC
  Reps <- Repetitions
INVARIANTS NoLostUpdate ShouldBe100
PROPERTIES ImplementsAtomic Terminates
