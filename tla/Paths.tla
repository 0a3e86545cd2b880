-------------------------------- MODULE Paths --------------------------------
(***************************************************************************)
(* Path manipulation (src/core/path.c, and the test of src/core/           *)
(* file_watcher.c for direct children).  A path is a sequence of units:    *)
(* the two separators, a dot, names, a drive and the scheme of a URL.  The *)
(* state is two paths that grow; every function is an operator on them.    *)
(***************************************************************************)
EXTENDS Integers, Sequences, SequencesExt, FiniteSetsExt

CONSTANTS
  Units,      (* units a path is made of: "/", "bs" (backslash), ".",      *)
              (* "C:", "http:" and names                                   *)
  MaxUnits,   (* bound: units of both paths together                       *)
  Home        (* segments of the current directory                         *)

VARIABLES base, relative, found

vars == <<base, relative, found>>

path_is_separator(u) == u \in {"/", "bs"}
At(p, i) == IF i \in DOMAIN p THEN p[i] ELSE "end"
SeparatorAt(p, i) == path_is_separator(At(p, i))
EndsInSeparator(p) == SeparatorAt(p, Len(p))
LastSeparator(p) == Max({0} \cup {i \in DOMAIN p : SeparatorAt(p, i)})
LastDot(p) == Max({0} \cup {i \in DOMAIN p : p[i] = "."})
IsUrl(p) == At(p, 1) = "http:" /\ At(p, 2) = "/" /\ At(p, 3) = "/"
Protocol == 3   (* units of http://                                        *)

path_to_forward_slashes(p) == [i \in DOMAIN p |-> IF SeparatorAt(p, i) THEN "/" ELSE p[i]]

path_normalize(p) ==
  LET Repeats(i) == SeparatorAt(p, i) /\ SeparatorAt(p, i - 1) /\ (IsUrl(p) => i > Protocol)
      kept == FoldLeft(LAMBDA out, i : IF Repeats(i) THEN out ELSE Append(out, path_to_forward_slashes(p)[i]),
                       << >>, [i \in DOMAIN p |-> i])
  IN  IF Len(kept) > 1 /\ Last(kept) = "/" /\ ~IsUrl(p) THEN Front(kept) ELSE kept

(* The non-empty segments between separators.                              *)
path_split(p) ==
  LET starts == {i \in DOMAIN p : ~SeparatorAt(p, i) /\ ~(i > 1 /\ ~SeparatorAt(p, i - 1))}
      End(i) == Min({j \in i..Len(p) + 1 : j > Len(p) \/ SeparatorAt(p, j)}) - 1
      from == SetToSortSeq(starts, <)
  IN  [k \in DOMAIN from |-> SubSeq(p, from[k], End(from[k]))]

path_is_absolute(p) ==
  \/ At(p, 1) = "/"
  \/ At(p, 1) = "C:" /\ SeparatorAt(p, 2)
  \/ SeparatorAt(p, 1) /\ SeparatorAt(p, 2)
  \/ IsUrl(p)

(* A single component with one leading slash is relative.                  *)
path_join(b, r) ==
  LET inner == {i \in 2..Len(r) : SeparatorAt(r, i)}
      wins == path_is_absolute(r) /\ ~(At(r, 1) = "/" /\ inner = {})
  IN  CASE b = << >> \/ (r # << >> /\ wins) -> r
        [] b # << >> /\ r = << >> -> b
        [] OTHER -> CASE EndsInSeparator(b) /\ SeparatorAt(r, 1) -> b \o Tail(r)
                      [] ~EndsInSeparator(b) /\ ~SeparatorAt(r, 1) -> b \o <<"/">> \o r
                      [] OTHER -> b \o r

JoinAll(first, segments) == FoldLeft(path_join, first, segments)

Resolve(out, seg, isAbsolute) ==
  CASE seg = <<".">> -> out
    [] seg = <<".", ".">> ->
         IF out # << >> /\ Last(out) # seg THEN Front(out)
         ELSE IF isAbsolute THEN out ELSE Append(out, seg)
    [] OTHER -> Append(out, seg)

path_normalize_full(p) ==
  LET isAbsolute == At(p, 1) = "/"
      resolved == FoldLeft(LAMBDA out, seg : Resolve(out, seg, isAbsolute), << >>, path_split(p))
  IN  CASE resolved = << >> -> IF isAbsolute THEN <<"/">> ELSE <<".">>
        [] resolved # << >> /\ isAbsolute -> JoinAll(<<"/">>, resolved)
        [] OTHER -> JoinAll(Head(resolved), Tail(resolved))

path_get_filename(p) == SubSeq(p, LastSeparator(p) + 1, Len(p))

path_get_extension(p) ==
  LET name == path_get_filename(p)
  IN  IF LastDot(name) > 1 /\ LastDot(name) < Len(name) THEN SubSeq(name, LastDot(name) + 1, Len(name))
      ELSE << >>

path_get_filename_prefix(p) ==
  LET name == path_get_filename(p)
      dots == {i \in 2..Len(name) : name[i] = "."}
  IN  IF dots = {} THEN << >> ELSE SubSeq(name, 1, Min(dots) - 1)

path_get_basename(p) ==
  LET name == path_get_filename(p)
  IN  IF LastDot(name) > 1 THEN SubSeq(name, 1, LastDot(name) - 1) ELSE name

(* Everything before the separator at i, or the root.                      *)
Before(p, i) == CASE i = 0 -> << >> [] i = 1 -> <<"/">> [] OTHER -> SubSeq(p, 1, i - 1)

path_get_directory(p) == Before(p, LastSeparator(p))

path_get_parent(p) ==
  LET end == Max({1} \cup {i \in DOMAIN p : ~SeparatorAt(p, i)})
  IN  IF p = << >> THEN p ELSE Before(p, LastSeparator(SubSeq(p, 1, end)))

path_remove_trailing_separator(p) == IF Len(p) > 1 /\ EndsInSeparator(p) THEN Front(p) ELSE p
path_ensure_trailing_separator(p) == IF p # << >> /\ EndsInSeparator(p) THEN p ELSE Append(p, "/")
path_make_absolute(b, p) == IF path_is_absolute(p) THEN p ELSE path_join(b, p)
path_equals(p, q) == path_to_forward_slashes(p) = path_to_forward_slashes(q)

path_components(p) ==
  [segments |-> path_split(path_normalize(p)), is_absolute |-> path_is_absolute(p),
   trailing |-> p # << >> /\ EndsInSeparator(p)]

path_reconstruct_from_segments(c, count) ==
  LET isUrl == count > 1 /\ c.segments[1] = <<"http:">>
      isDrive == c.is_absolute /\ c.segments # << >> /\ c.segments[1] = <<"C:">>
      root == IF c.is_absolute /\ ~isDrive THEN <<"/">> ELSE << >>
      closing == IF c.trailing /\ count = Len(c.segments) THEN <<"/">> ELSE << >>
  IN  IF isUrl
      THEN JoinAll(<<"http:", "/", "/">> \o c.segments[2], SubSeq(c.segments, 3, count)) \o closing
      ELSE JoinAll(root, SubSeq(c.segments, 1, count))

path_get_remaining_from_segments(c, skip) == JoinAll(<< >>, SubSeq(c.segments, skip + 1, Len(c.segments)))

(* Where a process in a directory ends up that follows the segments of a   *)
(* path one by one.                                                        *)
Walk(from, p) ==
  FoldLeft(LAMBDA at, seg : CASE seg = <<".">> -> at
                              [] seg = <<".", ".">> -> IF at = << >> THEN at ELSE Front(at)
                              [] OTHER -> Append(at, seg),
           IF At(p, 1) = "/" THEN << >> ELSE from, path_split(p))

(* The directory itself, then below each ancestor of the current one,      *)
(* nearest first, the root last.  It exists below one ancestor of Home,    *)
(* named by its depth.                                                     *)
path_find_directory(start, depth) ==
  LET cwd == path_components(<<"/">> \o JoinAll(<< >>, Home))
      Exists(p) == Walk(Home, p) = Walk(SubSeq(Home, 1, depth), start)
      Candidate(n) ==
        IF n = 0 THEN path_join(<<"/">>, start)
        ELSE path_join(path_reconstruct_from_segments(cwd, n), start)
      hits == {n \in 0..Len(Home) - 1 : Exists(Candidate(n))}
  IN  CASE start = << >> -> << >>
        [] start # << >> /\ Exists(start) -> start
        [] OTHER -> IF hits = {} THEN << >> ELSE Candidate(Max(hits))

length_without_trailing_slashes(p) ==
  IF p = << >> THEN 0 ELSE Max({1} \cup {i \in DOMAIN p : p[i] # "/"})

(* The macOS back end reports these for a watch that is not recursive.     *)
file_watcher_path_is_direct_child(root, p) ==
  LET n == length_without_trailing_slashes(root)
      end == length_without_trailing_slashes(p)
      name == IF root[n] = "/" THEN n + 1 ELSE n + 2
  IN  /\ 0 < n /\ n <= end
      /\ SubSeq(p, 1, n) = SubSeq(root, 1, n)
      /\ end # n =>
           /\ root[n] # "/" => p[n + 1] = "/"
           /\ name <= end
           /\ \A i \in name..end : p[i] # "/"

-----------------------------------------------------------------------------
Init == base = << >> /\ relative = << >> /\ found = << >>

Grow(u) ==
  /\ Len(base) + Len(relative) < MaxUnits
  /\ \/ base' = Append(base, u) /\ UNCHANGED relative
     \/ relative' = Append(relative, u) /\ UNCHANGED base
  /\ found' = [d \in DOMAIN Home |-> path_find_directory(relative', d)]

Next == \E u \in Units : Grow(u)

Spec == Init /\ [][Next]_vars

-----------------------------------------------------------------------------
(* ResolvedPathsLeadThere: path_normalize_full leads every process to the  *)
(* directory the path led to, from every directory, has no "." or inner    *)
(* ".." left and is its own normal form (path.c:66-112).                   *)
Deep == << <<"d">>, <<"d">>, <<"d">> >>
ResolvedPathsLeadThere ==
  LET full == path_normalize_full(base)
      segments == path_split(full)
  IN  /\ Walk(Deep, full) = Walk(Deep, base)
      /\ path_normalize_full(full) = full
      /\ \A i \in DOMAIN segments :
           /\ segments[i] = <<".">> => Len(segments) = 1
           /\ i > 1 /\ segments[i] = <<".", ".">> => segments[i - 1] = segments[i]

(* The components of a bare drive, of a scheme without its two slashes or  *)
(* host, and of a rooted directory named like either, lose the root.       *)
LosesRoot(p) ==
  LET segments == path_split(p)
  IN  \/ segments = << <<"C:">> >>
      \/ segments # << >> /\ segments[1] = <<"C:">> /\ SeparatorAt(p, 1)
      \/ segments # << >> /\ segments[1] = <<"http:">> /\ (~IsUrl(p) \/ Len(segments) = 1)

(* PartsMakeTheWhole: what the functions take apart the others put         *)
(* together again: directory and file name, base name and extension, the   *)
(* parent, the components of a path, and the operands of a join            *)
(* (path.c:14-62, 116-636).                                                *)
PartsMakeTheWhole ==
  LET segments == path_split(base)
      c == path_components(base)
      whole == path_reconstruct_from_segments(c, Len(c.segments))
      name == path_get_filename(base)
      joined == path_join(base, relative)
  IN  /\ name # << >> => segments = Append(path_split(path_get_directory(base)), name)
      /\ segments # << >> => path_split(path_get_parent(base)) = Front(segments)
      /\ path_get_extension(base) # << >> =>
           name = path_get_basename(base) \o <<".">> \o path_get_extension(base)
      /\ c.segments = segments
      /\ ~LosesRoot(base) => path_split(whole) = segments /\ path_is_absolute(whole) = c.is_absolute
      /\ \A k \in 0..Len(segments) : path_split(path_get_remaining_from_segments(c, k)) = SubSeq(segments, k + 1, Len(segments))
      /\ \/ joined = relative
         \/ /\ path_split(joined) = segments \o path_split(relative)
            /\ At(base, 1) \notin {"C:", "http:", "bs", "end"} =>
                 path_is_absolute(joined) = path_is_absolute(base)
      /\ IsPrefix(path_get_filename_prefix(base), path_get_basename(base))
      /\ base # << >> =>
           LET ended == path_ensure_trailing_separator(base)
           IN  /\ path_split(ended) = segments
               /\ path_remove_trailing_separator(ended) = path_remove_trailing_separator(base)
      /\ path_is_absolute(relative) => path_is_absolute(path_make_absolute(relative, base))
      /\ path_equals(base, relative) => segments = path_split(relative)
      /\ ~\E i \in 2..Len(path_normalize(base)) :
           SeparatorAt(path_normalize(base), i) /\ SeparatorAt(path_normalize(base), i - 1) /\ ~IsUrl(base)

(* NearestIsFound: the search finds a directory wherever it exists below   *)
(* an ancestor of the current directory, and never another one             *)
(* (path.c:647-695).                                                       *)
NearestIsFound ==
  \A d \in DOMAIN found :
    relative # << >> /\ ~path_is_absolute(relative) =>
      Walk(Home, found[d]) = Walk(SubSeq(Home, 1, d), relative)

(* ChildrenAreDirect: of the paths below a watched directory exactly the   *)
(* directory and its own entries are reported, neither what lies deeper    *)
(* nor a sibling whose name starts like it (file_watcher.c:148-194).       *)
ChildrenAreDirect ==
  LET Plain(p) == \A i \in DOMAIN p : p[i] # "bs" /\ ~(i > 1 /\ p[i] = "/" /\ p[i - 1] = "/")
      root == path_split(base)
      path == path_split(relative)
  IN  base # << >> /\ relative # << >> /\ Plain(base) /\ Plain(relative) =>
        (file_watcher_path_is_direct_child(base, relative) <=>
           /\ (At(base, 1) = "/") = (At(relative, 1) = "/")
           /\ root = path \/ (path # << >> /\ root = Front(path)))
=============================================================================
