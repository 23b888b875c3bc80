CONSTANTS
  Onliners = {t1, t2}
  Offliners = {}
  Callers = {}
  Addresses = {a1, a2}
SPECIFICATION Spec
INVARIANT OneServer
CHECK_DEADLOCK FALSE
