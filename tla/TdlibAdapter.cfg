\* Two callers, three request identifiers, two updates, a stop at any moment.
CONSTANTS
  Caller = {c1, c2}
  NoOne = NoOne
  MaxRequests = 3
  MaxUpdates = 2
SPECIFICATION FairSpec
INVARIANTS
  TypeOK
  DeliverySound
PROPERTIES
  QuietAfterStop
  SendSyncReturns
\* Everybody may have stopped when the adapter has.
CHECK_DEADLOCK FALSE
