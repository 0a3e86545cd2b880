------------------------------ MODULE JsonText ------------------------------
(***************************************************************************)
(* The parser of src/core/json.c.  It reads its text twice: a sizing pass  *)
(* (json_get_..) that validates the text and adds up the memory a tree of  *)
(* it takes, and a parse pass (json_parse_..) that trusts the first and    *)
(* carves its nodes out of one block.                                      *)
(* A text is a sequence of units: one byte, or a token no rule looks into  *)
(* (true, an escape sequence).  Node sizes count 8-byte words.             *)
(***************************************************************************)
EXTENDS Integers, Sequences, FiniteSets, SequencesExt

CONSTANTS
  Units,       (* units a text is made of                                  *)
  FlagSets,    (* sets of flags callers parse with                         *)
  Seeds,       (* texts the exploration starts from                        *)
  MaxUnits,    (* bound: units that follow a seed                          *)
  JSON_PARSE_MAX_DEPTH

VARIABLES
  text,        (* the source text: a sequence of units                     *)
  flags,       (* the flags of the parse                                   *)
  result       (* what fl_json_parse_with_flags left behind                *)

vars == <<text, flags, result>>

(* FlJsonParseFlags.                                                       *)
Flag == {"TrailingComma", "UnquotedKeys", "GlobalObject", "EqualsInObject", "NoCommas",
         "CStyleComments", "LocationInformation", "SingleQuotedStrings", "MultiLineStrings"}

Ch(d, i) == IF i < Len(d.src) THEN d.src[i + 1] ELSE "end"

(* sizeof in words: a value carries its location, a key only when asked.   *)
ValueWords == 7
StringWords == 2
KeyWords(d) == IF "LocationInformation" \in d.flags THEN 5 ELSE 2
ObjectWords == 2
ElementWords == 3
ArrayWords == 2
ArrayElementWords == 2
NumberWords == 2

Literals == {"true", "false", "null"}
Bytes(u) == CASE u \in {"true", "null"} -> 4 [] u = "false" -> 5 [] OTHER -> 1

Escapes == {"esc", "u1", "u2", "u3", "uH", "uL"}
Unicode == Escapes \ {"esc"}

Fail(s, e) == [s EXCEPT !.error = e, !.ok = FALSE]
Step(s) == [s EXCEPT !.offset = @ + 1]

(* Go on unless something failed.                                          *)
Then(s, Go(_)) == IF s.ok THEN Go(s) ELSE s

-----------------------------------------------------------------------------
(* White space and comments, the same for both passes.                     *)

RECURSIVE SkipWhitespace(_, _)
SkipWhitespace(d, s) ==
  CASE Ch(d, s.offset) \in {"sp", "cr", "tab"} -> SkipWhitespace(d, Step(s))
    [] Ch(d, s.offset) = "nl" ->
         SkipWhitespace(d, Step([s EXCEPT !.line_no = @ + 1, !.line_offset = s.offset]))
    [] OTHER -> s

RECURSIVE LineComment(_, _)
LineComment(d, s) ==
  CASE Ch(d, s.offset) = "end" -> s
    [] Ch(d, s.offset) = "nl" ->
         [s EXCEPT !.offset = @ + 1, !.line_no = @ + 1, !.line_offset = s.offset + 1]
    [] OTHER -> LineComment(d, Step(s))

(* A comment that never ends leaves the last unit to be read as text.      *)
RECURSIVE BlockComment(_, _)
BlockComment(d, s) ==
  CASE s.offset + 1 >= Len(d.src) -> s
    [] Ch(d, s.offset) = "*" /\ Ch(d, s.offset + 1) = "/" -> Step(Step(s))
    [] Ch(d, s.offset) = "nl" ->
         BlockComment(d, Step([s EXCEPT !.line_no = @ + 1, !.line_offset = s.offset]))
    [] OTHER -> BlockComment(d, Step(s))

SkipComment(d, s) ==
  CASE Ch(d, s.offset) = "/" /\ Ch(d, s.offset + 1) = "/" -> LineComment(d, Step(Step(s)))
    [] Ch(d, s.offset) = "/" /\ Ch(d, s.offset + 1) = "*" -> BlockComment(d, Step(Step(s)))
    [] OTHER -> s

RECURSIVE Skip(_, _)
Skip(d, s) ==
  LET Again(x) == IF x.offset = s.offset THEN [s EXCEPT !.ok = TRUE] ELSE Skip(d, x)
      After(x) ==
        IF x.offset >= Len(d.src) THEN Fail(x, "PrematureEndOfBuffer")
        ELSE Again(IF "CStyleComments" \in d.flags THEN SkipComment(d, x) ELSE x)
  IN  After(SkipWhitespace(d, s))

-----------------------------------------------------------------------------
(* The sizing pass.                                                        *)

(* Bytes reserved for a unit of a string: the second half of a surrogate   *)
(* pair pays for the whole code point.                                     *)
UnitBytes(u) == CASE u = "u2" -> 2 [] u = "u3" -> 3 [] u = "uL" -> 4 [] OTHER -> Bytes(u)

(* A scan of the characters of a string from offset i.                     *)
RECURSIVE SizeChars(_, _, _, _, _)
SizeChars(d, quote, i, data, high) ==
  LET u == Ch(d, i)
      Bad(e, at) == [error |-> e, offset |-> at, data |-> data]
      Good == SizeChars(d, quote, i + 1, data + UnitBytes(u), u = "uH")
  IN  CASE u = "end" -> Bad("PrematureEndOfBuffer", i - 1)
        [] u = quote -> [error |-> "None", offset |-> i + 1, data |-> data + 1]
        [] u = "tab" -> Bad("InvalidString", i)
        [] u \in Unicode ->
             (* Looks one byte past the four digits, and for both halves.  *)
             IF /\ Ch(d, i + 1) # "end"
                /\ (u = "uL") = high
                /\ u = "uH" => Ch(d, i + 1) \in Unicode
             THEN Good ELSE Bad("InvalidStringEscapeSequence", i)
        [] u \in {"nl", "cr"} /\ "MultiLineStrings" \notin d.flags ->
             Bad("InvalidStringEscapeSequence", i)
        [] OTHER -> Good

GetStringSize(d, s, words) ==
  LET quote == Ch(d, s.offset)
      Counted(x, r) ==
        [x EXCEPT !.offset = r.offset, !.ok = r.error = "None",
                  !.error = IF r.error = "None" THEN @ ELSE r.error,
                  !.data = IF r.error = "None" THEN @ + r.data ELSE @]
      begun == [s EXCEPT !.dom = @ + words]
  IN  IF ~(quote = "dq" \/ (quote = "sq" /\ "SingleQuotedStrings" \in d.flags))
      THEN Fail(begun, "ExpectedOpeningQuote")
      ELSE Counted(begun, SizeChars(d, quote, s.offset + 1, 0, FALSE))

KeyUnits == {"a", "1"} \cup Literals

RECURSIVE KeyEnd(_, _)
KeyEnd(d, i) == IF Ch(d, i) \in KeyUnits THEN KeyEnd(d, i + 1) ELSE i

RECURSIVE KeyBytes(_, _, _)
KeyBytes(d, i, j) == IF i = j THEN 0 ELSE Bytes(Ch(d, i)) + KeyBytes(d, i + 1, j)

Unquoted(d, s) ==
  /\ "UnquotedKeys" \in d.flags
  /\ Ch(d, s.offset) # "dq"
  /\ ~("SingleQuotedStrings" \in d.flags /\ Ch(d, s.offset) = "sq")

GetKeySize(d, s) ==
  LET stop == KeyEnd(d, s.offset)
  IN  IF Unquoted(d, s)
      THEN [s EXCEPT !.offset = stop, !.data = @ + KeyBytes(d, s.offset, stop) + 1,
                     !.dom = @ + KeyWords(d), !.ok = TRUE]
      ELSE GetStringSize(d, s, KeyWords(d))

(* A number here is a run of digits; JsonNumber has the rest of its text.  *)
RECURSIVE DigitsEnd(_, _)
DigitsEnd(d, i) == IF Ch(d, i) = "1" THEN DigitsEnd(d, i + 1) ELSE i

GetNumberSize(d, s) ==
  LET stop == DigitsEnd(d, s.offset)
      ends == {"end", "sp", "cr", "tab", "nl", "}", ",", "]"}
                \cup (IF "EqualsInObject" \in d.flags THEN {"="} ELSE {})
  IN  IF Ch(d, stop) \in ends
      THEN [s EXCEPT !.offset = stop, !.dom = @ + NumberWords,
                     !.data = @ + (stop - s.offset) + 1, !.ok = TRUE]
      ELSE Fail([s EXCEPT !.offset = stop], "InvalidNumberFormat")

Push(d, s) ==
  IF s.depth >= JSON_PARSE_MAX_DEPTH THEN Fail(s, "TooDeep")
  ELSE [s EXCEPT !.depth = @ + 1, !.ok = TRUE]
Pop(s) == [s EXCEPT !.depth = @ - 1]

(* Mutant: a missing comma is never an error.                              *)
OptionalComma(d, s) == IF Ch(d, s.offset) = "," THEN Step(s) ELSE s

(* The comma rule before an element: what is left to do, or why it fails.  *)
Comma(d, s) ==
  CASE Ch(d, s.offset) = "," -> Step(s)
    [] "NoCommas" \in d.flags -> s
    [] OTHER -> Fail(s, "ExpectedCommaOrClosingBracket")

RECURSIVE GetValueSize(_, _, _), SizeItems(_, _, _, _, _), SizeElements(_, _, _, _)

(* One pair of the loop of json_get_object_size, the n-th after the first. *)
SizePair(d, s, global, n) ==
  LET signs == IF "EqualsInObject" \in d.flags THEN {":", "="} ELSE {":"}
      Key(x) == IF x.ok THEN x ELSE Fail(x, "InvalidString")
      Sign(x) == IF Ch(d, x.offset) \in signs THEN Step(x) ELSE Fail(x, "ExpectedColon")
      colon == Then(Key(GetKeySize(d, s)), LAMBDA x : Skip(d, x))
      start == Then(Then(colon, Sign), LAMBDA x : Skip(d, x))
      value == Then(start, LAMBDA x : GetValueSize(d, x, FALSE))
      After(x) ==
        IF x.offset < Len(d.src) THEN SizeItems(d, x, global, "wanted", n + 1)
        ELSE IF global THEN [x EXCEPT !.dom = @ + (n + 1) * ElementWords]
        ELSE Fail(x, "PrematureEndOfBuffer")
  IN  Then(value, After)

(* One turn of that loop; n counts the pairs.  A comma may be "wanted"     *)
(* before a pair, or just "read", when nothing but a pair may follow, or   *)
(* neither: "first".                                                       *)
SizeItems(d, s, global, comma, n) ==
  LET Closed(x) == [x EXCEPT !.dom = @ + n * ElementWords, !.ok = TRUE]
      Past(c) ==
        IF c.offset < Len(d.src) THEN SizeItems(d, c, global, "first", n)
        ELSE IF global THEN Closed(c) ELSE Fail(c, "PrematureEndOfBuffer")
      AfterComma(c) ==
        IF "TrailingComma" \in d.flags THEN Past(c)
        ELSE SizeItems(d, c, global, "read", n)
      Turn(at) ==
        IF ~at.ok THEN IF global /\ comma # "read" THEN Closed(at) ELSE at
        ELSE IF ~global /\ comma # "read" /\ Ch(d, at.offset) = "}" THEN Closed(Step(at))
        ELSE IF comma = "wanted" THEN Then(Comma(d, at), AfterComma)
        ELSE SizePair(d, at, global, n)
  IN  Turn(Skip(d, s))

GetObjectSize(d, s, asked) ==
  LET Inside(x, global) ==
        IF ~global /\ x.offset = Len(d.src) THEN Fail(x, "PrematureEndOfBuffer")
        ELSE SizeItems(d, [x EXCEPT !.dom = @ + ObjectWords], global, "first", 0)
      Bare(at) == asked /\ ~(at.ok /\ Ch(d, at.offset) = "{")
      Opened(at) == Inside(IF Bare(at) THEN at ELSE Step(at), Bare(at))
  IN  Opened(IF asked THEN Skip(d, s) ELSE s)

(* One turn of the loop of json_get_array_size; n counts the elements.     *)
SizeElements(d, s, comma, n) ==
  LET Element(x) ==
        Then(GetValueSize(d, x, FALSE), LAMBDA v : SizeElements(d, v, "wanted", n + 1))
      AfterComma(c) ==
        IF "TrailingComma" \in d.flags THEN SizeElements(d, c, "first", n)
        ELSE SizeElements(d, c, "read", n)
      Turn(at) ==
        IF comma # "read" /\ Ch(d, at.offset) = "]"
        THEN [Step(at) EXCEPT !.dom = @ + n * ArrayElementWords, !.ok = TRUE]
        ELSE IF comma = "wanted" THEN Then(Comma(d, at), AfterComma) ELSE Element(at)
  IN  IF s.offset >= Len(d.src) THEN Fail(s, "PrematureEndOfBuffer") ELSE Then(Skip(d, s), Turn)

GetArraySize(d, s) == SizeElements(d, [Step(s) EXCEPT !.dom = @ + ArrayWords], "first", 0)

GetValueSize(d, s, global) ==
  LET At(x, u) ==
        CASE global \/ u = "{" -> Then(Push(d, x), LAMBDA o : Pop(GetObjectSize(d, o, global)))
          [] ~global /\ u = "[" -> Then(Push(d, x), LAMBDA o : Pop(GetArraySize(d, o)))
          [] ~global /\ (u = "dq" \/ (u = "sq" /\ "SingleQuotedStrings" \in d.flags)) ->
               GetStringSize(d, x, StringWords)
          [] ~global /\ u = "1" -> GetNumberSize(d, x)
          [] ~global /\ u \in Literals -> Step(x)
          [] OTHER -> Fail(x, "InvalidValue")
      counted == [s EXCEPT !.dom = @ + ValueWords]
  IN  IF global THEN At(counted, "global")
      ELSE Then(Skip(d, counted), LAMBDA x : At(x, Ch(d, x.offset)))

-----------------------------------------------------------------------------
(* The parse pass: every function leaves what it built in s.v.             *)

(* Mutant: the first half of a surrogate pair writes a code point as well. *)
WrittenTwice(u) == IF u = "uH" THEN 3 ELSE UnitBytes(u)

(* Bytes written for a unit: a high surrogate waits for its other half.    *)
Written(u) == IF u = "uH" THEN 0 ELSE UnitBytes(u)

RECURSIVE WrittenBytes(_)
WrittenBytes(units) ==
  IF units = << >> THEN 0 ELSE Written(Head(units)) + WrittenBytes(Tail(units))

(* Nothing but the closing quote stops this loop.                          *)
RECURSIVE QuoteAt(_, _, _)
QuoteAt(d, quote, i) == IF Ch(d, i) \in {quote, "end"} THEN i ELSE QuoteAt(d, quote, i + 1)

ParseString(d, s) ==
  LET quote == IF Ch(d, s.offset) = "sq" THEN "sq" ELSE "dq"
      To(stop, units) ==
        [s EXCEPT !.offset = stop + 1, !.data = @ + WrittenBytes(units) + 1,
                  !.over = @ \/ stop >= Len(d.src), !.v = units]
      Scanned(stop) == To(stop, SubSeq(d.src, s.offset + 2, stop))
  IN  Scanned(QuoteAt(d, quote, s.offset + 1))

ParseKey(d, s) ==
  LET stop == KeyEnd(d, s.offset)
  IN  IF "UnquotedKeys" \in d.flags /\ Ch(d, s.offset) \notin {"dq", "sq"}
      THEN [s EXCEPT !.offset = stop, !.data = @ + KeyBytes(d, s.offset, stop) + 1,
                     !.v = SubSeq(d.src, s.offset + 1, stop)]
      ELSE ParseString(d, s)

ParseNumber(d, s) ==
  LET stop == DigitsEnd(d, s.offset)
  IN  [s EXCEPT !.offset = stop, !.data = @ + (stop - s.offset) + 1,
                !.v = [type |-> "Number", of |-> SubSeq(d.src, s.offset + 1, stop)]]

(* Where json_alloc_dom_value says that the next value starts.             *)
Located(d, s, v) ==
  [node |-> v, line_no |-> IF "LocationInformation" \in d.flags THEN s.line_no ELSE 0,
   row_no |-> IF "LocationInformation" \in d.flags THEN s.offset - s.line_offset ELSE 0,
   offset |-> s.offset]

RECURSIVE ParseValue(_, _, _), ParseItems(_, _, _, _, _), ParseElements(_, _, _, _)

ParseItems(d, s, global, comma, items) ==
  LET Done(x) == [x EXCEPT !.v = [type |-> "Object", of |-> items]]
      Added(name, start, x) ==
        ParseItems(d, x, global, TRUE, Append(items, [name |-> name, value |-> Located(d, start, x.v)]))
      Valued(name, start) == Added(name, start, ParseValue(d, start, FALSE))
      Keyed(key) == Valued(key.v, [Skip(d, Step(Skip(d, key))) EXCEPT !.dom = @ + ValueWords])
      Turn(at) ==
        IF global /\ ~at.ok THEN Done(at)
        ELSE IF ~global /\ Ch(d, at.offset) = "}" THEN Done(Step(at))
        ELSE IF comma /\ Ch(d, at.offset) = "," THEN ParseItems(d, Step(at), global, FALSE, items)
        ELSE Keyed(ParseKey(d, [at EXCEPT !.dom = @ + ElementWords + KeyWords(d)]))
  IN  IF s.offset >= Len(d.src) THEN Done(s) ELSE Turn(Skip(d, s))

ParseObject(d, s, asked) ==
  LET global == asked /\ Ch(d, s.offset) # "{"
      read == [s EXCEPT !.over = @ \/ s.offset >= Len(d.src)]
  IN  ParseItems(d, Skip(d, IF global THEN read ELSE Step(read)), global, FALSE, << >>)

ParseElements(d, s, comma, items) ==
  LET Done(x, seq) == [x EXCEPT !.v = [type |-> "Array", of |-> seq]]
      With(x, more) ==
        IF x.offset < Len(d.src) THEN ParseElements(d, x, TRUE, more) ELSE Done(x, more)
      Added(start, x) == With(x, Append(items, Located(d, start, x.v)))
      Element(start) == Added(start, ParseValue(d, start, FALSE))
      Turn(at) ==
        IF Ch(d, at.offset) = "]" THEN Done(Step(at), items)
        ELSE IF comma /\ Ch(d, at.offset) = ","
             THEN IF at.offset + 1 < Len(d.src) THEN ParseElements(d, Step(at), FALSE, items)
                  ELSE Done(Step(at), items)
        ELSE Element([at EXCEPT !.dom = @ + ArrayElementWords + ValueWords])
  IN  Turn(Skip(d, s))

ParseArray(d, s) == ParseElements(d, Skip(d, Step(s)), FALSE, << >>)

ParseValue(d, s, global) ==
  LET Jam(x, type) == [x EXCEPT !.offset = Len(d.src), !.v = [type |-> type, of |-> << >>]]
      Object(x, o) == IF o.ok THEN Pop(ParseObject(d, o, global)) ELSE Jam(x, "Object")
      Array(x, o) == IF o.ok THEN Pop(ParseArray(d, o)) ELSE Jam(x, "Array")
      String(x) == [x EXCEPT !.v = [type |-> "String", of |-> x.v]]
      With(x, words) == [x EXCEPT !.dom = @ + words]
      At(x, u) ==
        CASE global \/ u = "{" -> Object(x, Push(d, With(x, ObjectWords)))
          [] ~global /\ u = "[" -> Array(x, Push(d, With(x, ArrayWords)))
          [] ~global /\ u \in {"dq", "sq"} -> String(ParseString(d, With(x, StringWords)))
          [] ~global /\ u = "1" -> ParseNumber(d, With(x, NumberWords))
          [] ~global /\ u \in Literals -> [Step(x) EXCEPT !.v = [type |-> u, of |-> << >>]]
          [] OTHER -> [x EXCEPT !.v = [type |-> "Unset", of |-> << >>]]
      Found(x) == At(x, Ch(d, x.offset))
  IN  Found(Skip(d, s))

-----------------------------------------------------------------------------
(* fl_json_parse_with_flags: size, check that nothing is left, parse.      *)

Start == [offset |-> 0, line_no |-> 1, line_offset |-> 0, depth |-> 0,
          error |-> "None", ok |-> TRUE, dom |-> 0, data |-> 0, over |-> FALSE, v |-> << >>]

fl_json_parse_with_flags(src, fs) ==
  LET d == [src |-> src, flags |-> fs]
      global == "GlobalObject" \in fs
      Refuse(s, e) == [error |-> e, offset |-> s.offset, line_no |-> s.line_no,
                       row_no |-> s.offset - s.line_offset]
      Tree(sized, parsed) ==
        [error |-> "None", offset |-> 0, line_no |-> 0, row_no |-> 0,
         reserved |-> [dom |-> sized.dom, data |-> sized.data],
         used |-> [dom |-> parsed.dom, data |-> parsed.data],
         stopped |-> parsed.offset, ended |-> sized.offset, over |-> parsed.over,
         value |-> Located(d, Start, parsed.v)]
      Parsed(sized) == Tree(sized, ParseValue(d, [Start EXCEPT !.dom = ValueWords], global))
      Ended(sized, rest) ==
        IF rest.offset # Len(src) THEN Refuse(rest, "UnexpectedTrailingCharacters") ELSE Parsed(sized)
      Sized(s) == IF ~s.ok THEN Refuse(s, s.error) ELSE Ended(s, Skip(d, s))
  IN  Sized(GetValueSize(d, Start, global))

(* fl_json_format_parse_error quotes the line it finds by counting         *)
(* newlines, and pads the caret with one character per column.             *)
Line(src, line_no) ==
  LET starts == {i \in 0..Len(src) : Cardinality({j \in 1..i : src[j] = "nl"}) = line_no - 1}
      start == CHOOSE i \in starts : \A j \in starts : i <= j
      ends == {i \in start..Len(src) - 1 : src[i + 1] = "nl"} \cup {Len(src)}
  IN  IF src = << >> \/ starts = {} THEN << >>
      ELSE <<start, CHOOSE i \in ends : \A j \in ends : i <= j>>

json_format_error_with_context(line, row_no) ==
  LET length == line[2] - line[1]
  IN  [start |-> line[1], end |-> line[2], pad |-> IF row_no < length THEN row_no ELSE length]

(* Empty when no line is quoted.                                           *)
fl_json_format_parse_error(r, src) ==
  IF r.error = "None" \/ r.line_no = 0 \/ Line(src, r.line_no) = << >> THEN << >>
  ELSE <<json_format_error_with_context(Line(src, r.line_no), r.row_no)>>

TypeOK ==
  /\ text \in Seq(Units) /\ flags \in SUBSET Flag
  /\ result.error \in {"None", "ExpectedCommaOrClosingBracket", "ExpectedColon",
                       "ExpectedOpeningQuote", "InvalidStringEscapeSequence",
                       "InvalidNumberFormat", "InvalidValue", "PrematureEndOfBuffer",
                       "InvalidString", "UnexpectedTrailingCharacters", "TooDeep"}

Init ==
  /\ text \in Seeds /\ flags \in FlagSets
  /\ result = fl_json_parse_with_flags(text, flags)

(* A caller parses a text one unit longer.  Once the parser objects to     *)
(* something before the last unit, every longer text fails the same way.   *)
Parse(u) ==
  /\ \E seed \in Seeds : IsPrefix(seed, text) /\ Len(text) < Len(seed) + MaxUnits
  /\ result.error = "None" \/ result.offset >= Len(text) - 1
  /\ text' = Append(text, u)
  /\ result' = fl_json_parse_with_flags(text', flags)
  /\ UNCHANGED flags

Next == \E u \in Units : Parse(u)

Spec == Init /\ [][Next]_vars

-----------------------------------------------------------------------------
(* What a text means, said without the parser.                             *)

Space == {"sp", "cr", "nl", "tab"}

(* The lexical elements of a text: a string and a run of digits are one.   *)
RECURSIVE Tokens(_)
Tokens(t) ==
  LET ends == {i \in 2..Len(t) : t[i] = "dq" /\ \A j \in 2..i - 1 : t[j] # "dq"}
      run == {i \in 1..Len(t) : \A j \in 1..i : t[j] = "1"}
      Cut(n) == <<SubSeq(t, 1, n)>> \o Tokens(SubSeq(t, n + 1, Len(t)))
  IN  CASE t = << >> -> << >>
        [] t # << >> /\ Head(t) \in Space -> Tokens(Tail(t))
        [] t # << >> /\ Head(t) = "dq" ->
             IF ends = {} THEN <<t>> ELSE Cut(CHOOSE i \in ends : TRUE)
        [] OTHER -> Cut(IF run = {} THEN 1 ELSE Cardinality(run))

IsString(tok) ==
  /\ Len(tok) >= 2 /\ tok[1] = "dq" /\ tok[Len(tok)] = "dq"
  /\ \A i \in 1..Len(tok) :
       /\ tok[i] \notin {"nl", "cr", "tab"}
       /\ tok[i] = "uH" => tok[i + 1] = "uL"
       /\ tok[i] = "uL" => tok[i - 1] = "uH"

(* ECMA-404 over lexical elements.                                         *)
RECURSIVE IsValue(_), IsElements(_), IsMembers(_)
Between(t, open, close, P(_)) ==
  /\ Len(t) >= 2 /\ t[1] = <<open>> /\ t[Len(t)] = <<close>>
  /\ Len(t) = 2 \/ P(SubSeq(t, 2, Len(t) - 1))
Listed(t, One(_), More(_)) ==
  \/ One(t)
  \/ \E k \in 2..Len(t) - 1 : /\ t[k] = <<",">>
                              /\ One(SubSeq(t, 1, k - 1)) /\ More(SubSeq(t, k + 1, Len(t)))
IsMember(t) ==
  Len(t) >= 3 /\ IsString(t[1]) /\ t[2] = <<":">> /\ IsValue(SubSeq(t, 3, Len(t)))
IsElements(t) == Listed(t, IsValue, IsElements)
IsMembers(t) == Listed(t, IsMember, IsMembers)
IsValue(t) ==
  \/ Len(t) = 1 /\ (t[1][1] = "1" \/ t[1][1] \in Literals \/ IsString(t[1]))
  \/ Between(t, "{", "}", IsMembers)
  \/ Between(t, "[", "]", IsElements)

(* How deep the brackets nest.                                             *)
Nesting(t) ==
  LET Count(n, set) == Cardinality({i \in 1..n : t[i] \in set})
      depth == {Count(n, {<<"{">>, <<"[">>}) - Count(n, {<<"}">>, <<"]">>}) : n \in 0..Len(t)}
  IN  CHOOSE m \in depth : \A o \in depth : o <= m

(* Every node of a tree below its root.                                    *)
RECURSIVE Below(_)
Below(at) ==
  CASE at.node.type = "Array" ->
         UNION {{at.node.of[i]} \cup Below(at.node.of[i]) : i \in DOMAIN at.node.of}
    [] at.node.type = "Object" ->
         UNION {{at.node.of[i].value} \cup Below(at.node.of[i].value) : i \in DOMAIN at.node.of}
    [] OTHER -> {}

(* A tree written out, brackets, names and leaves.                         *)
RECURSIVE Flat(_), FlatAll(_)
FlatAll(seq) ==
  IF seq = << >> THEN << >>
  ELSE (IF "name" \in DOMAIN Head(seq) THEN Head(seq).name \o Flat(Head(seq).value)
        ELSE Flat(Head(seq))) \o FlatAll(Tail(seq))
Flat(at) ==
  CASE at.node.type = "Array" -> <<"[">> \o FlatAll(at.node.of) \o <<"]">>
    [] at.node.type = "Object" -> <<"{">> \o FlatAll(at.node.of) \o <<"}">>
    [] at.node.type \in Literals -> <<at.node.type>>
    [] OTHER -> at.node.of

Significant(t) == SelectSeq(t, LAMBDA u : u \notin Space \cup {",", ":", "=", "dq", "sq"})

Accepted == result.error = "None"

(* PassesAgree: the tree that the parse pass builds takes the nodes that   *)
(* the sizing pass reserved and no more bytes, the passes end at the same  *)
(* place, and the tree says what the text says.  Only an empty global      *)
(* object reads src[size] (json.c:284-1238 against json.c:1246-1821).      *)
PassesAgree ==
  Accepted =>
    /\ result.used.dom = result.reserved.dom
    /\ result.used.data <= result.reserved.data
    /\ result.stopped = result.ended
    /\ result.over => result.value.node.of = << >>
    /\ (\A i \in DOMAIN text : text[i] # "/") =>
         Significant(Flat(result.value))
           \in {Significant(text), <<"{">> \o Significant(text) \o <<"}">>}

(* OnlyJson: without flags the parser accepts the texts of ECMA-404 that   *)
(* nest no deeper than its limit, and nothing else (json.c:1823-1902).     *)
OnlyJson ==
  flags \subseteq {"LocationInformation"} =>
    (Accepted <=> IsValue(Tokens(text)) /\ Nesting(Tokens(text)) <= JSON_PARSE_MAX_DEPTH)

Newlines(i) == {j \in 1..i : text[j] = "nl"}

(* LinesAreExact: a value inside the document knows the line it starts on, *)
(* comments before it included, as long as no string spans lines           *)
(* (json.def get_line_number; json.c:178-208).                             *)
LinesAreExact ==
  Accepted /\ "LocationInformation" \in flags /\ "MultiLineStrings" \notin flags =>
    \A v \in Below(result.value) : v.line_no = Cardinality(Newlines(v.offset)) + 1

(* ReportsPointAtErrors: a refused text is quoted, by the line the error   *)
(* lies on, with the caret under the error or, on the lines after the      *)
(* first, one place to the right of it, as long as no string spans lines   *)
(* (json.c:3434-3540; the newline itself counts as the first column).      *)
ReportsPointAtErrors ==
  ~Accepted /\ "MultiLineStrings" \notin flags /\ text # << >> =>
    \E report \in {fl_json_format_parse_error(result, text)[1]} :
      /\ result.offset \in report.start..report.end
      /\ report.pad - (result.offset - report.start) \in (IF result.line_no = 1 THEN {0} ELSE {0, 1})

=============================================================================
