CONSTANTS
  Onliners = {t1, t2, t3}
  Offliners = {t3, t4}
  Callers = {t4, t5}
  Addresses = {a1, a2, a3}
SPECIFICATION Spec
INVARIANTS TypeOK LoopHasServer LoopsStartOnline
CHECK_DEADLOCK FALSE
