CONSTANTS
  Adders = {t1, t2}
  Checkers = {t2, t3}
  Waiters = {t3, t4}
  MaxObjects = 3
SPECIFICATION FairSpec
INVARIANTS
  TypeOK Balance NeverPopsEmpty DeliveredOnceInOrder
  WaitersSleepOnlyWithoutObjects CheckSleepsOnlyOnPromised
PROPERTIES
  SleepingCheckIsNeverReleased ImplementsQueue ReturnsUnlessCheckSleeps
CHECK_DEADLOCK FALSE
