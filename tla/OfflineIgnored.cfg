CONSTANTS
  Onliners = {t1}
  Offliners = {t2}
  Callers = {}
  Addresses = {a1}
SPECIFICATION Spec
PROPERTY LoopChecksIsOnline
CHECK_DEADLOCK FALSE
