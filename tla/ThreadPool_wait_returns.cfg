SPECIFICATION FairSpec
PROPERTIES
  WaitAllReturns

CONSTANTS
  Worker = {w1}
  Caller = {c1}
  Task = {t1}
  NoTask = NoTask
  NoOne = NoOne
