\* Two workers and three updates of any kind; the pool may be resized, the client
\* destroyed at any moment.
CONSTANTS
  Worker = {1, 2}
  Dispatcher = Dispatcher
  None = None
  MaxUpdates = 3
SPECIFICATION FairSpec
INVARIANTS
  TypeOK
  StartsInOrder
  DestructionSafe
PROPERTIES
  UpdateIsHandled
  DestructionEnds
\* A client that is destroyed, or whose handlers block, stops.
CHECK_DEADLOCK FALSE
