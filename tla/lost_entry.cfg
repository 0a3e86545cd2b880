SPECIFICATION SafeSpec
CONSTANTS
  Workers = {w1}
  Clients = {c1, c2}
  MaxJobs = 2
  MaxSets = 1
  PriorityCount = 2
  Priorities = {0, 1}
  Capacity = 2
  ClientCalls = {"add", "set", "poll"}
  BodyCalls = {}
  Exclusive = FALSE
  PollAfterDep = TRUE
  BeforeFinish = TRUE
CHECK_DEADLOCK FALSE
SYMMETRY Symmetry
INVARIANT ReadyJobIsHeld
