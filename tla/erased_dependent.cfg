SPECIFICATION SafeSpec
CONSTANTS
  Workers = {w1}
  Clients = {c1, c2}
  MaxJobs = 4
  MaxSets = 0
  PriorityCount = 1
  Priorities = {0}
  Capacity = 2
  ClientCalls = {"add", "after", "reap"}
  BodyCalls = {}
  Exclusive = TRUE
  PollAfterDep = TRUE
  BeforeFinish = FALSE
CHECK_DEADLOCK FALSE
SYMMETRY Symmetry
INVARIANT WaitingJobIsHeld
