CONSTANTS
  Main = main
  None = None
  Threads = {main, t1, t2, t3, t4}
SPECIFICATION Spec
INVARIANTS
  NoLostWakeUp
  OneRing
PROPERTY EveryoneRuns
