----------------------------- MODULE MCServices -----------------------------
(* Instances for TLC of the services around the core that several threads,  *)
(* callbacks, the kernel or a restart act on: watching files, bringing the  *)
(* core up and down, diagnostics of arenas, profiler and statistics, making *)
(* directories, crash detection.  A behaviour runs one, the part.  Of the   *)
(* file watcher callbacks stop and start watches (Reenter).                 *)
EXTENDS FileWatcher, InotifyWatcher, Foundation, ArenaTracker, CrashDetector, Directories, Diagnostics, TLC

CONSTANTS t1, t2

VARIABLE part

(* A move and a creation.                                                   *)
SomeEvents == {<<{"moved"}, FALSE>>, <<{"created"}, TRUE>>}

(* Directories change once earlier events are handled; a hidden one is not  *)
(* watched.                                                                 *)
PatientTree == [recursive |-> TRUE, watch_files |-> TRUE, watch_directories |-> FALSE,
  max_watches |-> 3, max_ops |-> 5, patient |-> TRUE, moves |-> FALSE, root_goes |-> FALSE]

(* Directories change at any time, the root goes, the table is too small.   *)
HastyTree == [PatientTree EXCEPT !.max_watches = 2, !.max_ops = 4, !.patient = FALSE, !.root_goes = TRUE]

(* One directory, with renames at any time.                                 *)
OneDirectory == [HastyTree EXCEPT !.recursive = FALSE, !.watch_directories = TRUE, !.moves = TRUE]

SomeSettings == {PatientTree, HastyTree, OneDirectory}

(* A thread's scratch arenas are two of the five addresses.                *)
CallsOfThreads == (t1 :> 3) @@ (t2 :> 2)

(* Two threads of the host and one of a plugin.                            *)
CopyOfThread == <<"host", "host", "plugin">>

(* Two processes make the directory of a file, others change the tree.     *)
WantedDirectories == {<< >>, <<"a">>, <<"a", "b">>}

(* Two sites hash to one slot of a table that three sites overfill.         *)
HashOfSite == [s \in {"a", "b", "c"} |-> IF s = "c" THEN 1 ELSE 0]

Parts == {"inotify", "watch", "tracker", "allocs", "watchdog", "crash", "perf", "stats", "dirs", "base"}

ServicesInit ==
  /\ part \in Parts
  /\ InotifyInit /\ (part # "inotify" => setting = PatientTree)
  /\ Init /\ TrackerInit /\ DiagnosticsInit /\ CrashInit /\ DirInit /\ CoreInit

OthersRest ==
  /\ UNCHANGED part
  /\ part # "inotify" => UNCHANGED inotify_vars
  /\ part # "watch" => UNCHANGED vars
  /\ part # "tracker" => UNCHANGED tracker_vars
  /\ part # "allocs" => UNCHANGED alloc_vars
  /\ part # "watchdog" => UNCHANGED watchdog_vars
  /\ part # "crash" => UNCHANGED crash_vars
  /\ part # "perf" => UNCHANGED perf_vars
  /\ part # "stats" => UNCHANGED stats_vars
  /\ part # "dirs" => UNCHANGED dir_vars
  /\ part # "base" => UNCHANGED core_vars

InotifyStep == part = "inotify" /\ InotifyNext /\ OthersRest
WatchStep == part = "watch" /\ Next /\ OthersRest
TrackerStep == part = "tracker" /\ TrackerNext /\ OthersRest
AllocsStep == part = "allocs" /\ AllocNext /\ OthersRest
WatchdogStep == part = "watchdog" /\ WatchdogNext /\ OthersRest
CrashStep == part = "crash" /\ CrashNext /\ OthersRest
PerfStep == part = "perf" /\ PerfNext /\ OthersRest
StatsStep == part = "stats" /\ StatsNext /\ OthersRest
DirsStep == part = "dirs" /\ DirNext /\ OthersRest
BaseStep == part = "base" /\ CoreNext /\ OthersRest

ServicesNext ==
  \/ InotifyStep \/ WatchStep \/ TrackerStep \/ AllocsStep
  \/ WatchdogStep \/ CrashStep \/ PerfStep \/ StatsStep \/ DirsStep \/ BaseStep

=============================================================================
