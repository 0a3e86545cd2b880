SPECIFICATION SafeSpec
CONSTANTS
  Workers = {w1}
  Clients = {c1, c2}
  MaxJobs = 2
  MaxSets = 1
  PriorityCount = 2
  Priorities = {0, 1}
  Capacity = 3
  ClientCalls = {"add", "after", "poll", "set"}
  BodyCalls = {"set"}
  Exclusive = FALSE
  PollAfterDep = FALSE
  BeforeFinish = FALSE
CHECK_DEADLOCK FALSE
SYMMETRY Symmetry
INVARIANTS AnswersAreTrue FreeListIsSound RunsOnce
