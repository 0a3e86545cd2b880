SPECIFICATION SafeSpec
CONSTANTS
  Workers = {w1, w2}
  Clients = {c1}
  MaxJobs = 3
  MaxSets = 1
  PriorityCount = 2
  Priorities = {0, 1}
  Capacity = 1
  ClientCalls = {"add", "after", "reap"}
  BodyCalls = {"set"}
  Exclusive = TRUE
  PollAfterDep = TRUE
  BeforeFinish = TRUE
CHECK_DEADLOCK FALSE
SYMMETRY Symmetry
INVARIANTS DependencyOrder WaitingJobIsHeld ReadyJobIsHeld
