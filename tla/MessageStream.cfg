CONSTANTS
  Senders = {s1, s2}
  Sizes = {0, 2, 3}
  MaxMessage = 2
  MaxCalls = 2
SPECIFICATION FairSpec
INVARIANTS TypeOK BytesInOrder
PROPERTY EverythingArrives
CHECK_DEADLOCK FALSE
