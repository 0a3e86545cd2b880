SPECIFICATION FairSpec
CONSTANTS
  Threads = {t1, t2}
  Word = 64
  PageSize = 2
  Header = 1
  Reserved = 8
  Sizes = {1, 3}
  Alignments = {1, 2}
  MaxRequest = 5
  MaxCalls = 3
  MaxScopes = 1
PROPERTIES AllocationsReturn
CHECK_DEADLOCK FALSE
