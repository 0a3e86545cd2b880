SPECIFICATION Spec
CONSTANTS
  Workers = {w1, w2}
  Producers = {c1}
  Main = main
  Ready = ready
  High = 1
  Capacity = 1
  MaxEntries = 3
  MaxSpurious = 1
INVARIANTS IdleCountIsExact NoLostWakeup NoSleeperAfterBroadcast
PROPERTIES EntriesAreTaken DestroyReturns
