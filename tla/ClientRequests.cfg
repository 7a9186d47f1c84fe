\* Two callers with two operations between them, one user and one chat, a
\* profile of two versions, three updates.
CONSTANTS
  Caller = {t1, t2}
  User = {u}
  Chat = {c}
  None = None
  MaxCalls = 2
  MaxVersion = 2
  MaxUpdates = 3
SPECIFICATION FairSpec
INVARIANTS
  TypeOK
  CachesSound
  EffectsKnown
PROPERTIES
  OperationsEnd
\* The callers have made their calls, and everything is published.
CHECK_DEADLOCK FALSE
