\* The services that threads, callbacks, the kernel or a restart act on.
CONSTANTS
  t1 = t1
  t2 = t2
  Unset = 0
  \* FileWatcher
  Paths = {p, q}
  Events <- SomeEvents
  Capacity = 2
  MaxChanges = 2
  MaxCallbacks = 2
  Window = 1
  Reenter = TRUE
  MaxStarts = 2
  MaxAdds = 3
  MaxTime = 1
  MaxRegs = 1
  \* InotifyWatcher: a name that is hidden, three settings.
  Filenames = {"a", ".b"}
  Hidden = {".b"}
  Settings <- SomeSettings
  MaxDepth = 3
  MaxInodes = 5
  \* Foundation
  Threads = {1, 2, 3}
  Copies = {"host", "plugin"}
  Host = "host"
  CopyOf <- CopyOfThread
  MaxCalls = 3
  None = None
  \* ArenaTracker
  ArenaThreads = {t1, t2}
  Main = t1
  MaxArenas = 5
  InitFirst = TRUE
  MaxArenaCalls <- CallsOfThreads
  Nil = Nil
  \* CrashDetector: a history of two records; the clock may step back once.
  CRASH_HISTORY_SIZE = 2
  CRASH_LOOP_THRESHOLD = 2
  CRASH_LOOP_WINDOW_SECONDS = 1
  LongSession = 2
  TimeWidth = 16
  MaxClock = 3
  MaxSteps = 1
  MaxCrashes = 3
  WorkersCrash = FALSE
  StartupFirst = TRUE
  \* Directories
  Processes = {t1, t2}
  Names = {"a", "b"}
  MaxLength = 2
  MaxOthers = 2
  Wanted <- WantedDirectories
  \* ArenaDiagnostics: a table of two slots; arenas that go between samples.
  Sites = {"a", "b", "c"}
  Hash <- HashOfSite
  TRACKER_TABLE_SIZE = 2
  Sizes = {1, 2}
  MaxRecords = 2
  Addresses = {1, 2}
  MaxPos = 3
  MaxLives = 2
  MaxSamples = 5
  WATCHDOG_RING_SIZE = 3
  MinGrowth = 2
  \* PerfScope: the fourth scope of a frame overflows the entries, the third
  \* nested one the stack.
  PERF_SCOPE_MAX_DEPTH = 2
  PERF_SCOPE_MAX_ENTRIES = 3
  PERF_SCOPE_FRAME_BUDGET_NS = 1
  MaxGuards = 4
  MaxNow = 2
  \* Stats
  Callers = {t1, t2}
  CounterNames = {"a", "b"}
  Categories = {"c"}
  counter_capacity = 2
  MaxCounterCalls = 2
  UINT32_MAX = UINT32_MAX
INIT ServicesInit
NEXT ServicesNext
INVARIANTS   FoundationIsWhole ArenasAreListed DiagnosticsAreTrue  DirectoriesAreMade
\* The instances are bounded.
CHECK_DEADLOCK FALSE
