\* Two packets from the server, cut into chunks anywhere.
CONSTANTS
  Clock = {0}
  WordSize = 2
  Dc = {dc1}
  UnknownDc = UnknownDc
  MaxConnects = 1
  MaxMessages = 1
  MaxPackets = 2
  MaxReceives = 2
SPECIFICATION Spec
INVARIANT ReceivedInOrder
CHECK_DEADLOCK FALSE
