CONSTANTS
  Peers = {p1, p2}
  Fds = {3, 4, 5}
  Senders = {t1}
  Closers = {}
  Repliers = {}
  InboundClosers = {t1}
  AcceptLoops = 1
  MaxConnections = 3
SPECIFICATION Spec
INVARIANT ReceivesFromNoOther
CHECK_DEADLOCK FALSE
