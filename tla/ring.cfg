SPECIFICATION Spec
CONSTANTS
  Threads = {t1, t2, t3}
  Lead = t1
  SLOTS = 2
  MaxEnqueues = 3
  MaxDequeues = 3
  Ready = ready
CHECK_DEADLOCK FALSE
INVARIANTS CopiesAreExclusive RefusalsAreHonest
PROPERTIES IsFifo NeverBlocks
