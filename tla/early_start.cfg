SPECIFICATION SafeSpec
CONSTANTS
  Workers = {w1, w2}
  Clients = {c1}
  MaxJobs = 4
  MaxSets = 0
  PriorityCount = 1
  Priorities = {0}
  Capacity = 3
  ClientCalls = {"add", "after", "reap"}
  BodyCalls = {}
  Exclusive = TRUE
  PollAfterDep = FALSE
  BeforeFinish = TRUE
CHECK_DEADLOCK FALSE
SYMMETRY Symmetry
INVARIANT DependencyOrder
