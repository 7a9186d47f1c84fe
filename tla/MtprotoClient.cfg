\* Two attempts to connect, two messages, two packets, two calls of
\* receive_response for each connection, and a clock that may stand still or
\* go back.
CONSTANTS
  Clock = {0, 1}
  WordSize = 2
  Dc = {dc1, dc2}
  UnknownDc = UnknownDc
  MaxConnects = 2
  MaxMessages = 2
  MaxPackets = 2
  MaxReceives = 2
SPECIFICATION Spec
INVARIANTS
  TypeOK
  NumbersFollow
  StreamsIntact
  ActiveDcIsServed
CHECK_DEADLOCK FALSE
