CONSTANTS
  Peers = {p1, p2}
  Fds = {3, 4, 5}
  Senders = {t1, t2}
  Closers = {}
  Repliers = {}
  InboundClosers = {}
  AcceptLoops = 1
  MaxConnections = 3
SPECIFICATION Spec
INVARIANT CacheMatchesConnections
CHECK_DEADLOCK FALSE
