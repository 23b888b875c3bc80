CONSTANTS
  Threads = {t1, t2, t3}
  NoThread = NoThread
  Requests = {0, 1, 2}
  Gifts = {0, 1, 2}
  Initial = 1
  MaxGiven = 3
SPECIFICATION FairSpec
INVARIANTS TypeOK Conservation NoServableHead SleeperQueuedOrReleased
PROPERTIES NoOvertaking AffordableWaiterReturns ImplementsFifo
CHECK_DEADLOCK FALSE
