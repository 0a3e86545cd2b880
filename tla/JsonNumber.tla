----------------------------- MODULE JsonNumber -----------------------------
(***************************************************************************)
(* Numbers in src/core/json.c: json_get_number_size validates and measures *)
(* one, json_parse_number copies it, json_write_get_number_size and        *)
(* json_write_number print it as standard JSON.  A text is a sequence of   *)
(* units, a number and what follows it; Infinity and NaN are one unit.     *)
(***************************************************************************)
EXTENDS Integers, Sequences

CONSTANTS
  Units,       (* units a text is made of                                  *)
  FlagSets,    (* sets of flags callers parse with                         *)
  MaxUnits     (* bound: length of a text                                  *)

VARIABLES
  text,        (* the source from the first unit of the number on          *)
  flags,       (* the flags of the parse                                   *)
  result       (* what the sizing pass, the parse pass and the writer did  *)

vars == <<text, flags, result>>

Flag == {"HexadecimalNumbers", "LeadingPlusSign", "DecimalPoint", "InfAndNan", "EqualsInObject"}

Digit == {"0", "1"}
HexDigit == Digit \cup {"a", "e"}
Word == {"Infinity", "NaN"}
Bytes(u) == CASE u = "Infinity" -> 8 [] u = "NaN" -> 3 [] OTHER -> 1

(* Offsets count units; past the end there is nothing.                     *)
At(t, i) == IF i < Len(t) THEN t[i + 1] ELSE "end"
RECURSIVE RunEnd(_, _, _)
RunEnd(t, i, set) == IF At(t, i) \in set THEN RunEnd(t, i + 1, set) ELSE i
RECURSIVE BytesOf(_)
BytesOf(t) == IF t = << >> THEN 0 ELSE Bytes(Head(t)) + BytesOf(Tail(t))
If(u, set) == IF u \in set THEN 1 ELSE 0

-----------------------------------------------------------------------------
(* The units json_get_value_size and json_parse_value start a number at.   *)
StartsNumber(t, fs) ==
  \/ At(t, 0) \in Digit \cup {"-"}
  \/ At(t, 0) = "+" /\ "LeadingPlusSign" \in fs
  \/ At(t, 0) = "." /\ "DecimalPoint" \in fs
  \/ At(t, 0) \in Word /\ "InfAndNan" \in fs

IsHex(t, fs) == "HexadecimalNumbers" \in fs /\ At(t, 0) = "0" /\ At(t, 1) = "x"

(* Past the words at offset i; one that ends the text is not recognised.   *)
WordsEnd(t, i, fs) ==
  LET Past(w, j) == IF At(t, j) = w /\ j + 1 < Len(t) THEN j + 1 ELSE j
  IN  IF "InfAndNan" \in fs THEN Past("NaN", Past("Infinity", i)) ELSE i

(* The offset of the first unit after the number, or -1 for an error.      *)
DecimalEnd(t, fs) ==
  LET sign == If(At(t, 0), {"-"} \cup (IF "LeadingPlusSign" \in fs THEN {"+"} ELSE {}))
      word == WordsEnd(t, sign, fs)
      isWord == word > sign
      digits == RunEnd(t, word, Digit)
      point == At(t, digits) = "."
      fraction == RunEnd(t, digits + 1, Digit)
      mantissa == IF point THEN fraction ELSE digits
      signed == mantissa + 1 + If(At(t, mantissa + 1), {"-", "+"})
      loose == "DecimalPoint" \in fs
  IN  CASE isWord /\ At(t, word) \in Digit \cup {"e"} -> -1
        [] /\ sign = 1 /\ ~isWord /\ At(t, sign) \notin Digit \cup {"end"}
           /\ ~(loose /\ At(t, sign) = ".") -> -1
        [] At(t, word) = "0" /\ At(t, word + 1) \in Digit -> -1
        [] point /\ fraction = digits + 1 /\ ~(loose /\ digits > word) -> -1
        [] OTHER ->
             IF At(t, mantissa) # "e" THEN mantissa
             ELSE IF At(t, signed) \notin Digit \cup {"end"} THEN -1
             ELSE RunEnd(t, signed + 1, Digit)

json_get_number_size(t, fs) ==
  LET stop == IF IsHex(t, fs) THEN RunEnd(t, 2, HexDigit) ELSE DecimalEnd(t, fs)
      ends == {"end", "sp", "}", ",", "]"} \cup (IF "EqualsInObject" \in fs THEN {"="} ELSE {})
  IN  IF stop \in 0..Len(t) /\ At(t, stop) \in ends THEN stop ELSE -1

(* Where json_parse_number stops: any run of the characters of a number.   *)
json_parse_number(t, fs) ==
  LET hex == IF IsHex(t, fs) THEN RunEnd(t, 0, HexDigit \cup {"x"}) ELSE 0
      plain == RunEnd(t, hex, Digit \cup {".", "e", "+", "-"})
  IN  WordsEnd(t, plain, fs)

-----------------------------------------------------------------------------
(* Printing.                                                               *)

RECURSIVE HexValue(_)
HexValue(t) ==
  IF t = << >> THEN 0
  ELSE 16 * HexValue(SubSeq(t, 1, Len(t) - 1))
         + (CASE t[Len(t)] = "1" -> 1 [] t[Len(t)] = "a" -> 10
              [] t[Len(t)] = "e" -> 14 [] OTHER -> 0)

RECURSIVE Decimals(_)
Decimals(n) == IF n < 10 THEN 1 ELSE 1 + Decimals(n \div 10)

Sign(n) == If(At(n, 0), {"+", "-"})
LeadingPoint(n) == At(n, Sign(n)) = "."
TrailingPoint(n) ==
  LET i == RunEnd(n, Sign(n), Digit) IN i + 1 = Len(n) /\ At(n, i) = "."

json_write_get_number_size(n) ==
  CASE At(n, 1) = "x" -> Decimals(HexValue(SubSeq(n, 3, Len(n))))
    [] At(n, Sign(n)) = "Infinity" -> 22 + If(At(n, 0), {"-"})
    [] At(n, Sign(n)) = "NaN" -> 1
    [] OTHER -> (IF LeadingPoint(n) \/ TrailingPoint(n) THEN 1 ELSE 0)
                  + BytesOf(n) - If(At(n, 0), {"+"})

(* The value of Infinity is printed as the largest double.                 *)
Largest == <<"1", ".", "7976931348623158", "e", "308">>
PrintedBytes(out) ==
  IF \E i \in DOMAIN out : out[i] = "308" THEN 22 + (Len(out) - Len(Largest)) ELSE Len(out)

json_write_number(n) ==
  LET minus == IF At(n, 0) = "-" THEN <<"-">> ELSE << >>
      rest == SubSeq(n, Sign(n) + 1, Len(n))
  IN  CASE At(n, 1) = "x" ->
             [i \in 1..Decimals(HexValue(SubSeq(n, 3, Len(n)))) |-> "1"]
        [] At(n, Sign(n)) = "Infinity" -> minus \o Largest
        [] At(n, Sign(n)) = "NaN" -> <<"0">>
        [] LeadingPoint(n) -> minus \o <<"0">> \o rest
        [] ~LeadingPoint(n) /\ TrailingPoint(n) -> minus \o rest \o <<"0">>
        [] OTHER -> minus \o rest

-----------------------------------------------------------------------------
Outcome(t, fs) ==
  LET ended == IF StartsNumber(t, fs) THEN json_get_number_size(t, fs) ELSE -1
      stopped == json_parse_number(t, fs)
      n == SubSeq(t, 1, stopped)
  IN  IF ended = -1 THEN [ended |-> -1, stopped |-> 0, size |-> 0, written |-> << >>]
      ELSE [ended |-> ended, stopped |-> stopped,
            size |-> json_write_get_number_size(n), written |-> json_write_number(n)]

Init ==
  /\ text \in {<<u>> : u \in Units} /\ flags \in FlagSets
  /\ result = Outcome(text, flags)

(* A caller parses and prints a number of one more unit.                   *)
Parse(u) ==
  /\ Len(text) < MaxUnits
  /\ \A i \in DOMAIN text : text[i] \notin {"sp", "}", ",", "]"}
  /\ text' = Append(text, u)
  /\ result' = Outcome(text', flags)
  /\ UNCHANGED flags

Next == \E u \in Units : Parse(u)

Spec == Init /\ [][Next]_vars

-----------------------------------------------------------------------------
Accepted == result.ended # -1

(* The number as JSON writes it.                                           *)
IsJsonNumber(n) ==
  LET sign == If(At(n, 0), {"-"})
      int == IF At(n, sign) = "0" THEN sign + 1 ELSE RunEnd(n, sign, Digit)
      frac == IF At(n, int) = "." THEN RunEnd(n, int + 1, Digit) ELSE int
      mark == frac + 1 + If(At(n, frac + 1), {"+", "-"})
      exp == IF At(n, frac) = "e" THEN RunEnd(n, mark, Digit) ELSE frac
  IN  /\ int > sign
      /\ At(n, int) = "." => frac > int + 1
      /\ At(n, frac) = "e" => exp > mark
      /\ exp = Len(n)

(* Texts the sizing pass lets through that are no numbers: a sign that     *)
(* ends the text, a word followed by a point or a word, a point followed   *)
(* by an exponent.                                                         *)
Oddity(t) ==
  \/ t \in {<<"-">>, <<"+">>}
  \/ \E i \in 1..Len(t) - 1 :
       \/ t[i] \in Word /\ t[i + 1] \in Word \cup {"."}
       \/ t[i] = "." /\ t[i + 1] = "e"

(* NumbersRoundTrip: the parse pass copies the number that the sizing pass *)
(* measured, and the writer prints a JSON number in exactly the bytes it   *)
(* measured, hexadecimal, signed, bare-point and infinite ones included    *)
(* (json.c:910-1122, 1614-1699, 2271-2404, 2522-2716).                     *)
NumbersRoundTrip ==
  Accepted /\ ~Oddity(text) =>
    /\ result.stopped = result.ended
    /\ result.size = PrintedBytes(result.written)
    /\ \/ result.written \in {Largest, <<"-">> \o Largest}
       \/ IsJsonNumber(result.written)
=============================================================================
