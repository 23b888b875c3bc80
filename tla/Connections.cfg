CONSTANTS
  Peers = {p1, p2}
  Fds = {3, 4, 5}
  Senders = {t1}
  Closers = {t1}
  Repliers = {t1}
  InboundClosers = {t1}
  AcceptLoops = 2
  MaxConnections = 3
SPECIFICATION Spec
INVARIANTS
  TypeOK CacheMatchesConnections OneConnectionPerPeer RecipientOpen CloseClosesAll
  LoopsKeepTheirConnections NoBadDescriptor
CHECK_DEADLOCK FALSE
