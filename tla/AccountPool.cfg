\* Two threads, two accounts, two clients, two plugins of one name.
CONSTANTS
  Thread = {t1, t2}
  Client = {1, 2}
  Plugin = {1, 2}
  Plugged = {1}
  Account = {a1, a2}
  None = 0
  Chats = 1
  MaxTurns = 3
  MaxAsks = 1
SPECIFICATION FairPoolSpec
INVARIANTS
  PoolTypeOK
  EqualTurns
  UnloadedOnce
PROPERTIES
  PoolIsReleased
\* Every client is gone, and nothing is left to add; or a client that is
\* being destroyed waits for itself.
CHECK_DEADLOCK FALSE
