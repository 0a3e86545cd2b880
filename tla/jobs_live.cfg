SPECIFICATION Spec
CONSTANTS
  Workers = {w1}
  Clients = {c1}
  MaxJobs = 3
  MaxSets = 0
  PriorityCount = 1
  Priorities = {0}
  Capacity = 1
  ClientCalls = {"add", "after", "wait"}
  BodyCalls = {"after"}
  Exclusive = TRUE
  PollAfterDep = TRUE
  BeforeFinish = TRUE
CHECK_DEADLOCK FALSE
PROPERTIES EveryJobRuns 
