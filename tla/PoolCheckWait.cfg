CONSTANTS
  Adders = {t1}
  Checkers = {t2}
  Waiters = {t3}
  MaxObjects = 2
SPECIFICATION FairSpec
PROPERTY AddAndCheckReturn
CHECK_DEADLOCK FALSE
