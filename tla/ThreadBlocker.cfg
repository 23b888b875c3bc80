CONSTANTS
  Threads = {t1, t2, t3}
  NoThread = NoThread
  MaxUnblocks = 3
SPECIFICATION FairSpec
INVARIANTS TypeOK NoLostWakeup
PROPERTY ImplementsContract
