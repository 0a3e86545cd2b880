SPECIFICATION Spec
CONSTANTS
  Threads = {t1, t2, t3}
  Word = 64
  PageSize = 2
  Header = 1
  Reserved = 10
  Sizes = {3, 63}
  Alignments = {1, 2}
  MaxRequest = 5
  MaxCalls = 5
  MaxScopes = 1
INVARIANTS BlocksAreApart BlocksAreUsable CommittedIsMapped
SYMMETRY Symmetry
PROPERTIES CommittedNeverShrinks PeakIsHighWater PinnedBlocksSurvive FreshMemory
CHECK_DEADLOCK FALSE
