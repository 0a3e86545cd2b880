--------------------------- MODULE InotifyWatcher ---------------------------
(***************************************************************************)
(* The Linux back end of the file watcher, src/core/os/file_watcher_linux.c*)
(* with the kernel's inotify and a small tree of directories around it.    *)
(* The kernel watches inodes and names them by descriptor; the watcher     *)
(* keeps a table from descriptor to path and extends it as directories     *)
(* appear.  Directories change between, and during, the polls.             *)
(***************************************************************************)
EXTENDS FixedArray, Sequences, FiniteSets, SequencesExt, FiniteSetsExt

CONSTANTS
  Filenames,   (* names of directories and files                           *)
  Hidden,      (* those with a leading dot                                 *)
  Settings,    (* see setting                                              *)
  MaxDepth,    (* bound: longest path                                      *)
  MaxInodes    (* bound: directories ever made                             *)

ASSUME InotifyAssumption ==
  Settings \subseteq [recursive : BOOLEAN, watch_files : BOOLEAN, watch_directories : BOOLEAN,
                      max_watches : Nat, max_ops : Nat, patient : BOOLEAN, moves : BOOLEAN, root_goes : BOOLEAN]

VARIABLES
  setting,     (* recursive, watch_files, watch_directories: configuration *)
               (* max_watches: FILE_WATCHER_MAX_RECURSIVE_DIRECTORIES      *)
               (* patient: directories change only once earlier events are *)
               (*   handled; moves: directories of the tree are renamed;   *)
               (*   root_goes: the watched directory may be removed        *)
               (* max_ops, bound: changes to the tree                      *)
  dirs,        (* the file system: path of each directory, by inode        *)
  inodes, ops, (* counts for the bounds                                    *)
  mark,        (* kernel: descriptor of each watched inode                 *)
  queue,       (* kernel: events not read; "at" is the directory's path    *)
               (* when the event happened, which the kernel does not tell  *)
  started, is_active, watches,
  walk,        (* directories being listed: [path, todo, then], "then"     *)
               (* being what is reported after the first of them           *)
  report       (* the change reported last: path reported and true path    *)

inotify_vars == <<setting, dirs, inodes, ops, mark, queue, started, is_active, watches, walk, report>>
fs   == <<setting, dirs, inodes, ops>>
own  == <<started, is_active, watches, walk, report>>

Root    == <<"watched">>
Outside == <<"elsewhere">>
Nothing == << >>

InodeAt(p) == {i \in DOMAIN dirs : dirs[i] = p}
Without(f, S) == [x \in DOMAIN f \ S |-> f[x]]
With(f, k, v) == [x \in DOMAIN f \cup {k} |-> IF x = k THEN v ELSE f[x]]

InotifyInit ==
  /\ setting \in Settings
  /\ dirs = [i \in {1, 2} |-> IF i = 1 THEN Root ELSE Outside]
  /\ inodes = 2 /\ ops = 0
  /\ mark = << >> /\ queue = << >>
  /\ started = FALSE /\ is_active = FALSE
  /\ watches = fixed_array_init_raw(setting.max_watches)
  /\ walk = << >> /\ report = Nothing

----------------------------------------------------------------------------
(* The kernel and the file system (external).                              *)

(* Kinds of event in notify_mask.                                          *)
notify_mask ==
  (IF setting.watch_files THEN {"create", "delete", "modify", "from", "to"} ELSE {})
    \cup (IF setting.watch_directories \/ setting.recursive
          THEN {"create", "delete", "from", "to"} ELSE {})

(* The event of a change to a name in directory i, if anyone watches it.   *)
Notice(i, kind, name, isDir) ==
  IF i \in DOMAIN mark /\ kind \in notify_mask
  THEN <<[wd |-> mark[i], kind |-> kind, name |-> name, dir |-> isDir, at |-> dirs[i]]>>
  ELSE << >>

Ignored(i) ==
  IF i \in DOMAIN mark
  THEN <<[wd |-> mark[i], kind |-> "ignored", name |-> "", dir |-> FALSE, at |-> dirs[i]]>>
  ELSE << >>

Settled == queue = << >> /\ walk = << >> /\ (started \/ mark = << >>)

MayChange == ops < setting.max_ops /\ (setting.patient => Settled)

make_dir(i, name) ==
  /\ MayChange /\ inodes < MaxInodes
  /\ Len(dirs[i]) < MaxDepth /\ InodeAt(Append(dirs[i], name)) = {}
  /\ inodes' = inodes + 1 /\ ops' = ops + 1
  /\ dirs' = With(dirs, inodes + 1, Append(dirs[i], name))
  /\ queue' = queue \o Notice(i, "create", name, TRUE)
  /\ UNCHANGED <<setting, mark, own>>

IsEmpty(i) == \A j \in DOMAIN dirs : j # i => ~IsPrefix(dirs[i], dirs[j])
Parent(i)  == InodeAt(Front(dirs[i]))

remove_dir(i) ==
  /\ MayChange /\ IsEmpty(i)
  /\ dirs[i] # Outside /\ (dirs[i] = Root => setting.root_goes)
  /\ ops' = ops + 1
  /\ dirs' = Without(dirs, {i})
  /\ mark' = Without(mark, {i})
  /\ queue' = queue \o (IF Parent(i) = {} THEN << >>
                         ELSE Notice(CHOOSE p \in Parent(i) : TRUE, "delete", Last(dirs[i]), TRUE))
                    \o Ignored(i)
  /\ UNCHANGED <<setting, inodes, own>>

(* The watch of a directory that moves goes with it.                       *)
move_dir(i, p, name) ==
  LET old == dirs[i]
      new == Append(dirs[p], name)
      moved == {j \in DOMAIN dirs : IsPrefix(old, dirs[j])}
      from  == CHOOSE q \in Parent(i) : TRUE
  IN  /\ MayChange
      /\ Len(old) > 1 /\ (IsPrefix(Root, old) => setting.moves)
      /\ p \notin moved /\ InodeAt(new) = {}
      /\ \A j \in moved : Len(dirs[j]) + Len(new) - Len(old) <= MaxDepth
      /\ ops' = ops + 1
      /\ dirs' = [j \in DOMAIN dirs |->
                    IF j \in moved THEN new \o SubSeq(dirs[j], Len(old) + 1, Len(dirs[j])) ELSE dirs[j]]
      /\ queue' = queue \o Notice(from, "from", Last(old), TRUE) \o Notice(p, "to", name, TRUE)
      /\ UNCHANGED <<setting, inodes, mark, own>>

write_file(i, name) ==
  /\ ops < setting.max_ops
  /\ ops' = ops + 1
  /\ queue' = queue \o Notice(i, "modify", name, FALSE)
  /\ UNCHANGED <<setting, dirs, inodes, mark, own>>

(* The same inode keeps its descriptor; a new one gets one never used.     *)
Wd(i) == IF i \in DOMAIN mark THEN mark[i] ELSE i

----------------------------------------------------------------------------
(* The watcher.                                                            *)

Table  == {watches.data[k] : k \in 0..watches.length - 1}
IsFull == watches.length >= watches.capacity

find_path_for_wd(wd) ==
  LET at == {k \in 0..watches.length - 1 : watches.data[k].wd = wd}
  IN  IF at = {} THEN Nothing ELSE watches.data[Min(at)].path

(* ENOSPC when the table is full, ENOENT when the path is gone.            *)
CanAdd(path) == ~IsFull /\ InodeAt(path) # {}

add_watch_for_directory(path) ==
  LET i == CHOOSE x \in InodeAt(path) : TRUE
  IN  /\ mark' = With(mark, i, Wd(i))
      /\ watches' = fixed_array_add_raw(watches, [wd |-> Wd(i), path |-> path])

(* What a listing of a directory yields: visible subdirectories, nothing   *)
(* when it cannot be opened.                                               *)
Listing(path) == {n \in Filenames \ Hidden : InodeAt(Append(path, n)) # {}}
Visit(path, then) == <<[path |-> path, todo |-> Listing(path), then |-> then]>>

remove_all_watches ==
  /\ mark' = << >>
  /\ watches' = fixed_array_clear_raw(watches)

(* Closing the descriptor forgets its events.                              *)
Close == remove_all_watches /\ queue' = << >>

platform_start_watching ==
  /\ ~started /\ ~is_active /\ walk = << >>
  /\ CanAdd(Root) /\ notify_mask # {}
  /\ add_watch_for_directory(Root)
  /\ IF setting.recursive
     THEN walk' = Visit(Root, Nothing) /\ UNCHANGED <<started, is_active>>
     ELSE started' = TRUE /\ is_active' = TRUE /\ UNCHANGED walk
  /\ UNCHANGED <<fs, queue, report>>

(* A directory that cannot be watched fails the start, or ends the watch.  *)
WalkFails ==
  /\ walk' = << >>
  /\ IF started
     THEN is_active' = FALSE /\ UNCHANGED <<mark, watches, queue>>
     ELSE Close /\ UNCHANGED is_active

add_watches_recursive ==
  /\ walk # << >>
  /\ LET top == Last(walk) IN
     \/ /\ top.todo = {}
        /\ walk' = Front(walk)
        /\ IF Len(walk) = 1 /\ ~started
           THEN started' = TRUE /\ is_active' = TRUE ELSE UNCHANGED <<started, is_active>>
        /\ report' = IF Len(walk) = 1 THEN top.then ELSE report
        /\ UNCHANGED <<mark, queue, watches>>
     \/ \E name \in top.todo :
          LET sub == Append(top.path, name) IN
          /\ IF CanAdd(sub)
             THEN /\ add_watch_for_directory(sub)
                  /\ walk' = Append(Front(walk), [top EXCEPT !.todo = @ \ {name}]) \o Visit(sub, Nothing)
                  /\ UNCHANGED <<is_active, queue>>
             ELSE WalkFails
          /\ UNCHANGED <<started, report>>
  /\ UNCHANGED fs

platform_stop_watching ==
  /\ started /\ walk = << >>
  /\ Close
  /\ started' = FALSE /\ is_active' = FALSE
  /\ UNCHANGED <<fs, walk, report>>

(* A poll handles the events in order; the tree may change in between.     *)
Reading == started /\ is_active /\ walk = << >> /\ queue # << >>

(* Mutant: the last entry goes, whichever descriptor it has.               *)
PruneLast ==
  /\ Reading /\ Head(queue).kind = "ignored"
  /\ queue' = Tail(queue)
  /\ watches' = fixed_array_remove_swap_raw(watches, watches.length - 1)
  /\ UNCHANGED <<fs, mark, started, is_active, walk, report>>

PruneIgnored ==
  /\ Reading /\ Head(queue).kind = "ignored"
  /\ queue' = Tail(queue)
  /\ LET at == {k \in 0..watches.length - 1 : watches.data[k].wd = Head(queue).wd}
     IN  watches' = IF at = {} THEN watches ELSE fixed_array_remove_swap_raw(watches, Min(at))
  /\ UNCHANGED <<fs, mark, started, is_active, walk, report>>

(* An unknown descriptor is skipped.                                       *)
ReportChange ==
  LET e == Head(queue)
      full == Append(find_path_for_wd(e.wd), e.name)
      change == <<full, Append(e.at, e.name)>>
      extend == setting.recursive /\ e.dir /\ e.kind \in {"create", "to"}
  IN  /\ Reading /\ e.kind # "ignored"
      /\ queue' = Tail(queue)
      /\ IF find_path_for_wd(e.wd) = Nothing
         THEN UNCHANGED <<mark, watches, walk, report, is_active>>
         ELSE IF extend /\ ~CanAdd(full)
         THEN is_active' = FALSE /\ UNCHANGED <<mark, watches, walk, report>>
         ELSE /\ IF extend THEN add_watch_for_directory(full) ELSE UNCHANGED <<mark, watches>>
              /\ IF extend /\ e.kind = "to"
                 THEN walk' = Visit(full, change) /\ UNCHANGED report
                 ELSE report' = change /\ UNCHANGED walk
              /\ UNCHANGED is_active
      /\ UNCHANGED <<fs, started>>

platform_poll_changes == PruneIgnored \/ ReportChange

InotifyNext ==
  \/ \E i \in DOMAIN dirs, n \in Filenames : make_dir(i, n)
  \/ \E i \in DOMAIN dirs : remove_dir(i)
  \/ \E i, p \in DOMAIN dirs, n \in Filenames : move_dir(i, p, n)
  \/ \E i \in DOMAIN dirs, n \in Filenames : write_file(i, n)
  \/ platform_start_watching
  \/ add_watches_recursive
  \/ platform_stop_watching
  \/ platform_poll_changes

InotifySpec == InotifyInit /\ [][InotifyNext]_inotify_vars

----------------------------------------------------------------------------
(* Everything that happened has been handled by a watcher still active.    *)
UpToDate == started /\ is_active /\ walk = << >> /\ queue = << >>

(* Each directory of the tree is watched, and known by its path.           *)
TreeIsWatched ==
  UpToDate /\ setting.recursive =>
    \A i \in DOMAIN dirs : IsPrefix(Root, dirs[i]) /\ ToSet(dirs[i]) \cap Hidden = {} =>
      i \in DOMAIN mark /\ find_path_for_wd(mark[i]) = dirs[i]

(* A change is reported at the path where it happened.                     *)
ReportsNameTheFile == report # Nothing => report[1] = report[2]

(* WatchesAreFaithful: once the events are handled, every directory the     *)
(* configuration covers is watched, up to the limit, if the tree waits for  *)
(* the watcher and its directories are not renamed; a reported path is      *)
(* where the change happened, unless a directory of a tree watched as a     *)
(* whole is renamed (file_watcher_linux.c:53-350).                          *)
WatchesAreFaithful ==
  /\ setting.patient /\ ~setting.moves => TreeIsWatched
  /\ ~(setting.moves /\ setting.recursive) => ReportsNameTheFile

=============================================================================
