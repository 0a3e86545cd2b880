\* Memory, containers, text and JSON, each by itself, and the log, whose
\* table has room for CORE and the other channel.
CONSTANTS
  \* Log
  Threads = {t1, t2}
  Names = {"A"}
  Levels = {0, 1}
  MAX_LOG_CHANNELS = 2
  MaxCalls = 2
  MaxOpens = 2
  OneGuard = TRUE
  \* HashMap
  Keys = {"a", "b", "c", "d"}
  Values = {1, 2}
  Hash <- HashOfKeys
  Capacity = 2
  MaxNodes = 3
  \* StringAllocator
  Unset = 0
  STRING_ALLOCATOR_MIN_SIZE_LOG2 = 1
  STRING_ALLOCATOR_NUM_BUCKETS = 2
  STRING_ALLOCATOR_MAX_FREE_LIST_SIZE = 2
  Lengths = {0, 2, 5}
  MaxBlocks = 3
  \* PoolAllocator
  Words = {0, 1, 2, 3}
  MaxItems = 3
  \* ScratchArenas
  MaxDepth = 4
  MaxUnits = 3
  \* Tlsf: 16-byte classes and two subdivisions become two-byte ones; sizes
  \* have eight bits, so that a large request wraps.
  SL_INDEX_COUNT_LOG2 = 1
  ALIGN_SIZE_LOG2 = 1
  FL_INDEX_MAX = 6
  SizeBits = 8
  Pools <- SomePools
  FirstPool <- CreatedPool
  Requests = {0, 1, 7, 100, 255}
  AlignBits = {1, 3}
INIT DataInit
NEXT DataNext
INVARIANTS HeapIsSound MemoryIsApart    
 
PROPERTY ImplementsDictionary
\* The instances are bounded.
CHECK_DEADLOCK FALSE
