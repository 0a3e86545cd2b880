----------------------------- MODULE Directories -----------------------------
(***************************************************************************)
(* Making a directory with all its parents (src/core/os/posix.c), which    *)
(* the log file and the crash history do, while other processes make,      *)
(* remove and replace directories of the same tree.                        *)
(***************************************************************************)
EXTENDS Integers, Sequences, SequencesExt, FiniteSets

CONSTANTS
  Processes,
  Names, MaxLength,   (* bounds: names of a path, and how many             *)
  MaxOthers,          (* bound: changes by other programs                  *)
  Wanted              (* the paths asked for                               *)

ASSUME DirAssumption == Wanted \subseteq Seq(Names) /\ MaxLength \in Nat

VARIABLES
  folders, files,   (* the file system                                     *)
  others,           (* changes by other programs so far                    *)
  at,               (* process -> its step, with the component it is at    *)
  seen, lost        (* of the call: directories there were, those removed  *)

dir_vars == <<folders, files, others, at, seen, lost>>

Prefix(p, i) == SubSeq(p, 1, i)
AtRest == [step |-> "idle", path |-> << >>, i |-> 0]

file_directory_exists_os(p) == p = << >> \/ p \in folders
mkdir(p) == file_directory_exists_os(Front(p)) /\ p \notin folders \cup files

Observe(made, gone) ==
  /\ seen' = [t \in Processes |-> seen[t] \cup made]
  /\ lost' = [t \in Processes |-> lost[t] \cup gone]

Ask(t, p) ==
  /\ at[t].step = "idle"
  /\ at' = [at EXCEPT ![t] = [step |-> "whole", path |-> p, i |-> 1]]
  /\ seen' = [seen EXCEPT ![t] = folders] /\ lost' = [lost EXCEPT ![t] = {}]
  /\ UNCHANGED <<folders, files, others>>

StepTo(t, step, i) == at' = [at EXCEPT ![t].step = step, ![t].i = i]
Advance(t) == IF at[t].i = Len(at[t].path) THEN StepTo(t, "made", at[t].i) ELSE StepTo(t, "look", at[t].i + 1)

(* Mutant: a component that cannot be made is not looked for again.        *)
CheckOnce(t) ==
  /\ at[t].step \in {"whole", "look", "again"}
  /\ LET p == at[t].path
         exists == file_directory_exists_os(IF at[t].step = "whole" THEN p ELSE Prefix(p, at[t].i))
     IN  CASE p = << >> -> StepTo(t, "failed", 0)
           [] p # << >> /\ at[t].step = "whole" -> IF exists THEN StepTo(t, "made", Len(p)) ELSE StepTo(t, "look", 1)
           [] at[t].step = "look" -> IF exists THEN Advance(t) ELSE StepTo(t, "make", at[t].i)
           [] at[t].step = "again" -> StepTo(t, "failed", at[t].i)
  /\ UNCHANGED <<folders, files, others, seen, lost>>

(* Whether the whole path exists, then component by component.             *)
Check(t) ==
  /\ at[t].step \in {"whole", "look", "again"}
  /\ LET p == at[t].path
         exists == file_directory_exists_os(IF at[t].step = "whole" THEN p ELSE Prefix(p, at[t].i))
     IN  CASE p = << >> -> StepTo(t, "failed", 0)
           [] p # << >> /\ at[t].step = "whole" -> IF exists THEN StepTo(t, "made", Len(p)) ELSE StepTo(t, "look", 1)
           [] at[t].step = "look" -> IF exists THEN Advance(t) ELSE StepTo(t, "make", at[t].i)
           [] at[t].step = "again" -> IF exists THEN Advance(t) ELSE StepTo(t, "failed", at[t].i)
  /\ UNCHANGED <<folders, files, others, seen, lost>>

file_create_directory_os(t) ==
  LET p == Prefix(at[t].path, at[t].i)
  IN  /\ at[t].step = "make"
      /\ IF mkdir(p)
         THEN folders' = folders \cup {p} /\ Advance(t) /\ Observe({p}, {})
         ELSE StepTo(t, "again", at[t].i) /\ UNCHANGED <<folders, seen, lost>>
      /\ UNCHANGED <<files, others>>

Answer(t) ==
  /\ at[t].step \in {"made", "failed"}
  /\ at' = [at EXCEPT ![t] = AtRest]
  /\ UNCHANGED <<folders, files, others, seen, lost>>

(* Other programs make files and directories and remove empty directories. *)
Other(p) ==
  /\ others < MaxOthers /\ others' = others + 1
  /\ \/ mkdir(p) /\ folders' = folders \cup {p} /\ Observe({p}, {}) /\ UNCHANGED files
     \/ mkdir(p) /\ files' = files \cup {p} /\ UNCHANGED <<folders, seen, lost>>
     \/ /\ p \in folders /\ ~\E q \in folders \cup files : Len(q) = Len(p) + 1 /\ Front(q) = p
        /\ folders' = folders \ {p} /\ Observe({}, {p}) /\ UNCHANGED files
  /\ UNCHANGED at

DirInit ==
  /\ folders = {} /\ files = {} /\ others = 0
  /\ at = [t \in Processes |-> AtRest]
  /\ seen = [t \in Processes |-> {}] /\ lost = [t \in Processes |-> {}]

file_create_directory_recursive_os(t) == (\E p \in Wanted : Ask(t, p)) \/ Check(t) \/ file_create_directory_os(t) \/ Answer(t)

DirNext ==
  \/ \E t \in Processes : file_create_directory_recursive_os(t)
  \/ \E n \in 1..MaxLength : \E p \in [1..n -> Names] : Other(p)

DirSpec == DirInit /\ [][DirNext]_dir_vars

-----------------------------------------------------------------------------
(* DirectoriesAreMade: however the calls of several processes interleave, a    *)
(* call that succeeds met every directory of the path, which exists unless *)
(* someone removed one meanwhile; and unless someone did, it fails only    *)
(* for a file in its way (posix.c:427-473).                                *)
DirectoriesAreMade ==
  \A t \in Processes :
    LET p == at[t].path
    IN  /\ at[t].step = "made" =>
             /\ \A i \in DOMAIN p : Prefix(p, i) \in seen[t]
             /\ p \in folders \/ \E i \in DOMAIN p : Prefix(p, i) \in lost[t]
        /\ at[t].step = "failed" =>
             p = << >> \/ \E i \in DOMAIN p : Prefix(p, i) \in files \cup lost[t]
=============================================================================
