\* Two workers, two callers, two tasks, in every interleaving.
CONSTANTS
  Worker = {w1, w2}
  Caller = {c1, c2}
  Task = {t1, t2}
  NoTask = NoTask
  NoOne = NoOne
SPECIFICATION FairSpec
INVARIANTS
  TypeOK
  CountersExact
  WaitAllSound
  ShutdownDrains
PROPERTIES
  ImplementsTaskPool
  AcceptedIsRun
  ShutdownReturns
