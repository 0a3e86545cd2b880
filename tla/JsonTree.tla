------------------------------ MODULE JsonTree ------------------------------
(***************************************************************************)
(* Trees of JSON values: building them (src/core/json_builder.c), printing *)
(* and copying them (src/core/json.c), comparing, differencing and merging *)
(* them (src/core/json_delta.c).  Each writer and the copier measures the  *)
(* tree first and fills one block afterwards.  A value is a record of its  *)
(* type and contents; characters that a string must escape are "esc".      *)
(***************************************************************************)
EXTENDS Integers, Sequences, SequencesExt

CONSTANTS
  Names,       (* property names: sequences of characters                  *)
  Strings,     (* string values                                            *)
  Numbers,     (* numbers: sequences of digits                             *)
  MaxNodes     (* bound: values of the two documents                       *)

VARIABLES docs (* two documents, both objects                              *)

vars == <<docs>>

Text == INSTANCE JsonText WITH
          Units <- {}, FlagSets <- {}, Seeds <- {}, MaxUnits <- 0, JSON_PARSE_MAX_DEPTH <- 256,
          text <- docs, flags <- docs, result <- docs

Object(items) == [type |-> "Object", of |-> items]
Array(values) == [type |-> "Array", of |-> values]
Leaves == [type : {"String"}, of : Strings] \cup [type : {"Number"}, of : Numbers]
            \cup [type : Text!Literals, of : {<< >>}]

Total(seq) == FoldSeq(LAMBDA x, y : x + y, 0, seq)
Each(f(_), seq) == [i \in DOMAIN seq |-> f(seq[i])]
Joined(seqs, between) ==
  FoldLeft(LAMBDA out, x : IF out = << >> THEN x ELSE out \o between \o x, << >>, seqs)

-----------------------------------------------------------------------------
(* Building.                                                               *)

Places(object, key) == {i \in DOMAIN object.of : object.of[i].name = key}

fl_json_find_property(object, key) ==
  IF object.type = "Object" /\ Places(object, key) # {}
  THEN object.of[CHOOSE i \in Places(object, key) : \A j \in Places(object, key) : i <= j].value
  ELSE [type |-> "none"]

(* Names separated by dots, looked up one in the value of the other.       *)
fl_json_get_path(root, path) ==
  LET Segment(s, i) == SubSeq(path, s.start, i - 1)
      Scan(s, i) ==
        IF i <= Len(path) /\ path[i] # "." THEN s
        ELSE [start |-> i + 1,
              current |-> IF Segment(s, i) = << >> THEN [type |-> "none"]
                          ELSE fl_json_find_property(s.current, Segment(s, i))]
  IN  FoldLeft(Scan, [start |-> 1, current |-> root], [i \in 1..Len(path) + 1 |-> i]).current

(* The first property of that name is replaced, or one added at the end.   *)
object_set(object, key, value) ==
  IF Places(object, key) = {}
  THEN Object(Append(object.of, [name |-> key, value |-> value]))
  ELSE LET i == CHOOSE i \in Places(object, key) : \A j \in Places(object, key) : i <= j
       IN  Object([object.of EXCEPT ![i].value = value])

json_build_object == Object(<< >>)
json_build_array == Array(<< >>)
json_build_array_push(array, value) == Array(Append(array.of, value))

-----------------------------------------------------------------------------
(* Minified and pretty text, measured and written.                         *)

Printed(u) == IF u = "esc" THEN 2 ELSE Text!Bytes(u)
Quoted(name) == <<"dq">> \o name \o <<"dq">>
json_write_get_string_size(string) == Total(Each(Printed, string)) + 2

Commas(seq) == IF seq = << >> THEN 0 ELSE Len(seq) - 1

RECURSIVE MinifiedSize(_), Minified(_)
MinifiedSize(v) ==
  LET Pair(p) == json_write_get_string_size(p.name) + 1 + MinifiedSize(p.value)
  IN  CASE v.type = "Number" -> Len(v.of)
        [] v.type = "String" -> json_write_get_string_size(v.of)
        [] v.type = "Array" -> 2 + Commas(v.of) + Total(Each(MinifiedSize, v.of))
        [] v.type = "Object" -> 2 + Commas(v.of) + Total(Each(Pair, v.of))
        [] OTHER -> Text!Bytes(v.type)
Minified(v) ==
  LET Pair(p) == Quoted(p.name) \o <<":">> \o Minified(p.value)
  IN  CASE v.type = "Number" -> v.of
        [] v.type = "String" -> Quoted(v.of)
        [] v.type = "Array" -> <<"[">> \o Joined(Each(Minified, v.of), <<",">>) \o <<"]">>
        [] v.type = "Object" -> <<"{">> \o Joined(Each(Pair, v.of), <<",">>) \o <<"}">>
        [] OTHER -> <<v.type>>

(* Every element of a list takes an indent and a newline, and the closing  *)
(* bracket the indent of its own depth and no newline.                     *)
RECURSIVE PrettySize(_, _, _, _), Pretty(_, _, _, _)
PrettySize(v, depth, indent, newline) ==
  LET Inner(x) == (depth + 1) * indent + newline + PrettySize(x, depth + 1, indent, newline)
      Pair(p) == json_write_get_string_size(p.name) + 3 + Inner(p.value)
      list == IF v.type = "Array" THEN Each(Inner, v.of) ELSE Each(Pair, v.of)
  IN  CASE v.type = "Number" -> Len(v.of)
        [] v.type = "String" -> json_write_get_string_size(v.of)
        [] v.type \in {"Array", "Object"} ->
             IF v.of = << >> THEN 2
             ELSE 2 + newline + Commas(v.of) + Total(list) + depth * indent
        [] OTHER -> Text!Bytes(v.type)
Pretty(v, depth, indent, newline) ==
  LET Indent(n) == [i \in 1..n * indent |-> "sp"]
      Newline == [i \in 1..newline |-> "nl"]
      Inner(x) == Indent(depth + 1) \o Pretty(x, depth + 1, indent, newline)
      Pair(p) == Indent(depth + 1) \o Quoted(p.name) \o <<"sp", ":", "sp">>
                   \o Pretty(p.value, depth + 1, indent, newline)
      list == IF v.type = "Array" THEN Each(Inner, v.of) ELSE Each(Pair, v.of)
      body == IF v.of = << >> THEN << >>
              ELSE Newline \o Joined(list, <<",">> \o Newline) \o Newline \o Indent(depth)
  IN  CASE v.type = "Number" -> v.of
        [] v.type = "String" -> Quoted(v.of)
        [] v.type = "Array" -> <<"[">> \o body \o <<"]">>
        [] v.type = "Object" -> <<"{">> \o body \o <<"}">>
        [] OTHER -> <<v.type>>

(* The callers' text: the length is what was measured.  An indent and a    *)
(* newline are << >> for a null pointer, which stands for two spaces and   *)
(* one newline, or their length.                                           *)
fl_json_write_minified(v) == [data |-> Minified(v), length |-> MinifiedSize(v)]
fl_json_write_pretty(v, indent, newline) ==
  LET spaces == IF indent = << >> THEN 2 ELSE indent[1]
      lines == IF newline = << >> THEN 1 ELSE newline[1]
  IN  [data |-> Pretty(v, 0, spaces, lines), length |-> PrettySize(v, 0, spaces, lines)]

-----------------------------------------------------------------------------
(* Copying: json_extract_get_value_size measures, json_extract_copy_value  *)
(* moves two cursors, dom in words and data in bytes, and notes the bytes  *)
(* that each name, string and number takes.                                *)

RECURSIVE ExtractSize(_)
ExtractSize(v) ==
  LET Pair(p) == [dom |-> Text!StringWords + ExtractSize(p.value).dom,
                  data |-> Len(p.name) + 1 + ExtractSize(p.value).data]
      Sum(words, list) == [dom |-> words + Total([i \in DOMAIN list |-> list[i].dom]),
                           data |-> Total([i \in DOMAIN list |-> list[i].data])]
      own == CASE v.type = "Number" -> [dom |-> Text!NumberWords, data |-> Len(v.of)]
               [] v.type = "String" -> [dom |-> Text!StringWords, data |-> Len(v.of) + 1]
               [] v.type = "Array" -> Sum(Text!ArrayWords + Text!ArrayElementWords * Len(v.of),
                                          Each(ExtractSize, v.of))
               [] v.type = "Object" -> Sum(Text!ObjectWords + Text!ElementWords * Len(v.of),
                                           Each(Pair, v.of))
               [] OTHER -> [dom |-> 0, data |-> 0]
  IN  [own EXCEPT !.dom = @ + Text!ValueWords]

(* The cursors, the bytes of the data block, and for each number copied    *)
(* where in the block its digits start.                                    *)
Put(c, words, bytes) == [c EXCEPT !.dom = @ + words, !.data = @ \o bytes]

PutNumber(c, digits) == Put(c, Text!NumberWords, digits)

RECURSIVE Copy(_, _)
Copy(c, v) ==
  LET at == Put(c, Text!ValueWords, << >>)
      Element(x, acc) == Copy(Put(acc, Text!ArrayElementWords, << >>), x)
      Pair(p, acc) ==
        Copy(Put(acc, Text!ElementWords + Text!StringWords, Append(p.name, "nul")), p.value)
  IN  CASE v.type = "String" -> Put(at, Text!StringWords, Append(v.of, "nul"))
        [] v.type = "Number" -> PutNumber(at, v.of)
        [] v.type = "Array" -> FoldLeft(LAMBDA a, x : Element(x, a), Put(at, Text!ArrayWords, << >>), v.of)
        [] v.type = "Object" -> FoldLeft(LAMBDA a, x : Pair(x, a), Put(at, Text!ObjectWords, << >>), v.of)
        [] OTHER -> at

fl_json_extract_value(v) == Copy([dom |-> 0, data |-> << >>], v)

-----------------------------------------------------------------------------
(* json_delta.c.                                                           *)

RECURSIVE json_value_equals(_, _), json_delta_merge(_, _), json_delta_diff(_, _)
json_value_equals(a, b) ==
  /\ a.type = b.type
  /\ CASE a.type = "Array" ->
            Len(a.of) = Len(b.of) /\ \A i \in DOMAIN a.of : json_value_equals(a.of[i], b.of[i])
       [] a.type = "Object" ->
            /\ Len(a.of) = Len(b.of)
            /\ \A i \in DOMAIN a.of :
                 json_value_equals(a.of[i].value, fl_json_find_property(b, a.of[i].name))
       [] a.type \in {"String", "Number"} -> a.of = b.of
       [] OTHER -> TRUE

(* Properties are set one by one on a fresh object, override after base.   *)
json_delta_merge(base, override) ==
  LET Keep(p, acc) ==
        IF fl_json_find_property(override, p.name).type = "null" THEN acc
        ELSE object_set(acc, p.name, p.value)
      Take(p, acc) ==
        LET existing == fl_json_find_property(acc, p.name)
        IN  IF p.value.type = "null" THEN acc
            ELSE IF existing.type = "Object" /\ p.value.type = "Object"
                 THEN object_set(acc, p.name, json_delta_merge(existing, p.value))
                 ELSE object_set(acc, p.name, p.value)
  IN  IF override.type = "none" THEN base
      ELSE IF override.type # "Object" \/ base.type # "Object" THEN override
      ELSE FoldLeft(LAMBDA a, p : Take(p, a),
                    FoldLeft(LAMBDA a, p : Keep(p, a), json_build_object, base.of), override.of)

(* Mutant: removed properties are not recorded.                            *)
RECURSIVE DiffWithoutRemovals(_, _)
DiffWithoutRemovals(base, current) ==
  LET Changed(p, acc) ==
        IF json_value_equals(fl_json_find_property(base, p.name), p.value) THEN acc
        ELSE object_set(acc, p.name, p.value)
      diff == FoldLeft(LAMBDA a, p : Changed(p, a), json_build_object, current.of)
  IN  IF diff.of = << >> THEN [type |-> "none"] ELSE diff

json_delta_diff(base, current) ==
  LET None == [type |-> "none"]
      Changed(p, acc) ==
        LET old == fl_json_find_property(base, p.name)
            nested == json_delta_diff(old, p.value)
        IN  IF old.type = "Object" /\ p.value.type = "Object"
            THEN IF nested.type = "none" THEN acc ELSE object_set(acc, p.name, nested)
            ELSE IF json_value_equals(old, p.value) THEN acc
            ELSE object_set(acc, p.name, p.value)
      Removed(p, acc) ==
        IF fl_json_find_property(current, p.name).type = "none"
        THEN object_set(acc, p.name, [type |-> "null", of |-> << >>]) ELSE acc
      diff == FoldLeft(LAMBDA a, p : Removed(p, a),
                       FoldLeft(LAMBDA a, p : Changed(p, a), json_build_object, current.of), base.of)
  IN  IF base.type # "Object" \/ current.type # "Object"
      THEN IF json_value_equals(base, current) THEN None ELSE current
      ELSE IF diff.of = << >> THEN None ELSE diff

-----------------------------------------------------------------------------
RECURSIVE Nodes(_)
Nodes(v) ==
  LET OfPair(p) == Nodes(p.value)
  IN  CASE v.type = "Array" -> 1 + Total(Each(Nodes, v.of))
        [] v.type = "Object" -> 1 + Total(Each(OfPair, v.of))
        [] OTHER -> 1

Room(n) == Nodes(docs[1]) + Nodes(docs[2]) + n <= MaxNodes

Init == docs = [d \in {1, 2} |-> json_build_object]

(* json_build_set_...: a leaf, an empty array or an empty object.          *)
Set(d, key, value) ==
  /\ Room(1)
  /\ docs' = [docs EXCEPT ![d] = object_set(@, key, value)]

(* The other document becomes a property, and its caller starts a new one. *)
Attach(d, key) ==
  /\ Room(1)
  /\ docs' = [docs EXCEPT ![d] = object_set(@, key, docs[3 - d]), ![3 - d] = json_build_object]

Push(d, key, value) ==
  LET array == fl_json_find_property(docs[d], key)
  IN  /\ Room(1)
      /\ array.type = "Array"
      /\ docs' = [docs EXCEPT ![d] = object_set(@, key, json_build_array_push(array, value))]

Next ==
  \E d \in {1, 2}, key \in Names :
    \/ \E v \in Leaves \cup {json_build_array, json_build_object} : Set(d, key, v)
    \/ Attach(d, key)
    \/ \E v \in Leaves : Push(d, key, v)

Spec == Init /\ [][Next]_vars

-----------------------------------------------------------------------------
(* What json_parse makes of a text, without the locations.                 *)
RECURSIVE Plain(_)
Plain(at) ==
  LET Pair(p) == [name |-> p.name, value |-> Plain(p.value)]
  IN  CASE at.node.type = "Array" -> Array(Each(Plain, at.node.of))
        [] at.node.type = "Object" -> Object(Each(Pair, at.node.of))
        [] OTHER -> at.node

ReadBack(units) == Plain(Text!fl_json_parse_with_flags(units, {}).value)

(* WrittenTextsFit: each writer fills exactly the bytes it measured, and   *)
(* parsing what it wrote gives the tree back, whatever the indent and the  *)
(* newline are (json.c:2410-2514, 2722-2895 minified, 2908-3242 pretty).   *)
WrittenTextsFit ==
  \A d \in {1, 2} :
    \A out \in {fl_json_write_minified(docs[d]), fl_json_write_pretty(docs[d], << >>, << >>),
                fl_json_write_pretty(docs[d], <<0>>, <<2>>)} :
      out.length = Total(Each(Printed, out.data)) /\ ReadBack(out.data) = docs[d]

(* PathsLeadToValues: a path leads where its names lead one after the      *)
(* other, and nowhere when one of them is missing, empty, or asked of a    *)
(* value that is no object (json.c:3270-3293).                             *)
PathsLeadToValues ==
  \A d \in {1, 2} :
    /\ \A first, second \in Names :
         /\ fl_json_get_path(docs[d], first) = fl_json_find_property(docs[d], first)
         /\ fl_json_get_path(docs[d], first \o <<".">> \o second)
              = fl_json_find_property(fl_json_find_property(docs[d], first), second)
    /\ \A name \in Names \cup {<< >>} :
         \A path \in {name \o <<".">>, <<".">> \o name, name \o <<".", ".">> \o name} :
           fl_json_get_path(docs[d], path).type = "none"

(* CopiesFit: a copy takes the words and bytes that were measured for it   *)
(* (json.c:1939-2135).                                                     *)
CopiesFit ==
  \A d \in {1, 2} :
    LET c == fl_json_extract_value(docs[d])
    IN  c.dom = ExtractSize(docs[d]).dom /\ Len(c.data) = ExtractSize(docs[d]).data

RECURSIVE HasNull(_)
HasNull(v) ==
  \/ v.type = "null"
  \/ v.type = "Array" /\ \E i \in DOMAIN v.of : HasNull(v.of[i])
  \/ v.type = "Object" /\ \E i \in DOMAIN v.of : HasNull(v.of[i].value)

(* DeltaRoundTrips: merging the difference of two documents into the first *)
(* gives the second, unless it holds a null, and equal documents have no   *)
(* difference (json_delta.h:11-28; json_delta.c:91-173).                   *)
DeltaRoundTrips ==
  LET diff == json_delta_diff(docs[1], docs[2])
  IN  /\ diff.type = "none" <=> json_value_equals(docs[1], docs[2])
      /\ ~HasNull(docs[2]) => json_value_equals(json_delta_merge(docs[1], diff), docs[2])
=============================================================================
