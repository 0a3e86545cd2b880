------------------------------- MODULE Strings -------------------------------
(***************************************************************************)
(* Strings: comparing, searching and parsing of src/core/string.c, and     *)
(* expand_env_vars of src/core/env_expand.c.  A character is its ASCII     *)
(* code; the state is three strings that grow.  strtoull, strtoll and      *)
(* getenv are what the code makes of them.                                 *)
(***************************************************************************)
EXTENDS Integers, Sequences, SequencesExt, FiniteSetsExt

CONSTANTS
  Chars, OrderChars,   (* characters of the first string; of all three     *)
  MaxChars,            (* bound: characters of the three together          *)
  W64, W32,            (* 64-bit values are below W64, 32-bit ones below   *)
                       (* W32                                              *)
  Buffer,              (* size of the buffer a number is copied to         *)
  Env                  (* the environment: a function from names to values *)

VARIABLES a, b, c

vars == <<a, b, c>>

NUL == 0  Space == 32  Dollar == 36  Plus == 43  Minus == 45  Underscore == 95
Open == 123  Close == 125
Digits == 48..57   Uppers == 65..90   Lowers == 97..122
IsHex(ch) == ch \in Digits \cup 65..70 \cup 97..102
to_lower(ch) == IF ch \in Uppers THEN ch + 32 ELSE ch
lower(s) == [i \in DOMAIN s |-> to_lower(s[i])]
At(s, i) == IF i \in DOMAIN s THEN s[i] ELSE -1
RunEnd(s, i, set) == Min({j \in i..Len(s) : s[j] \notin set} \cup {Len(s) + 1})

-----------------------------------------------------------------------------
(* Searching.                                                              *)

string_find_char_from(s, ch, i) == Min({j \in i..Len(s) : s[j] = ch} \cup {Len(s) + 1})
Occurs(s, n, i) == SubSeq(s, i, i + Len(n) - 1) = n
string_find_substr(s, n) ==
  LET at == {i \in 1..Len(s) - Len(n) + 1 : Occurs(s, n, i)}
  IN  IF n = << >> THEN 0 ELSE IF at = {} THEN -1 ELSE Min(at) - 1
string_begins_with(s, n) == Len(n) <= Len(s) /\ Occurs(s, n, 1)
string_ends_with(s, n) == Len(n) <= Len(s) /\ Occurs(s, n, Len(s) - Len(n) + 1)
string_contains_nocase(s, n) == n = << >> \/ string_find_substr(lower(s), lower(n)) # -1

(* start + length is computed in 64 bits.                                  *)
string_substr(s, start, length) ==
  CASE start >= Len(s) -> 0
    [] start < Len(s) /\ (start + length) % W64 > Len(s) -> Len(s) - start
    [] OTHER -> length

-----------------------------------------------------------------------------
(* Comparing.                                                              *)

Sign(x, y) == IF x < y THEN -1 ELSE IF x > y THEN 1 ELSE 0
memory_compare(s, t, n) ==
  LET differ == {i \in 1..n : s[i] # t[i]}
  IN  IF differ = {} THEN 0 ELSE Sign(s[Min(differ)], t[Min(differ)])

string_compare_n(s, t, n) ==
  LET shorter == Min({Len(s), Len(t)})
      byBytes == memory_compare(s, t, Min({n, shorter}))
  IN  IF byBytes = 0 /\ n >= shorter THEN Sign(Len(s), Len(t)) ELSE byBytes

(* The number at the front of s without its leading zeros.                 *)
Number(s) ==
  LET from == RunEnd(s, 1, {48}) IN SubSeq(s, from, RunEnd(s, from, Digits) - 1)
AfterNumber(s) == SubSeq(s, RunEnd(s, 1, Digits), Len(s))

(* Mutant: the difference of the two lengths is unsigned.                  *)
CompareUnsigned(x, y) == IF Len(x) # Len(y) THEN 1 ELSE memory_compare(x, y, Len(x))

CompareNumbers(x, y) ==
  IF Len(x) # Len(y) THEN Sign(Len(x), Len(y)) ELSE memory_compare(x, y, Len(x))

RECURSIVE string_compare_natural(_, _)
string_compare_natural(s, t) ==
  IF s = << >> \/ t = << >> THEN Sign(Len(s), Len(t))
  ELSE IF s[1] \in Digits /\ t[1] \in Digits
       THEN IF CompareNumbers(Number(s), Number(t)) # 0 THEN CompareNumbers(Number(s), Number(t))
            ELSE string_compare_natural(AfterNumber(s), AfterNumber(t))
       ELSE IF to_lower(s[1]) # to_lower(t[1]) THEN Sign(to_lower(s[1]), to_lower(t[1]))
            ELSE string_compare_natural(Tail(s), Tail(t))

-----------------------------------------------------------------------------
(* Parsing: a status and a value.                                          *)

Ok(v) == [status |-> "Success", value |-> v]
Fails(status) == [status |-> status, value |-> 0]
Decimal(s) == FoldLeft(LAMBDA v, ch : v * 10 + ch - 48, 0, s)

(* What strtoll reads of a buffer: the value, or the place it stops at.    *)
(* The terminator it stops at may be a NUL of the string itself.           *)
Strto(s, low, high) ==
  LET start == RunEnd(s, 1, {Space})
      from == IF At(s, start) \in {Plus, Minus} THEN start + 1 ELSE start
      end == RunEnd(s, from, Digits)
      magnitude == Decimal(SubSeq(s, from, end - 1))
      value == IF At(s, start) = Minus THEN -magnitude ELSE magnitude
  IN  CASE end = from \/ At(s, end) \notin {NUL, -1} -> Fails("InvalidFormat")
        [] end # from /\ At(s, end) \in {NUL, -1} /\ value < low -> Fails("Underflow")
        [] end # from /\ At(s, end) \in {NUL, -1} /\ value >= high -> Fails("Overflow")
        [] OTHER -> Ok(value)

string_parse_u64(s) ==
  CASE s = << >> -> Fails("Empty")
    [] s # << >> /\ (Len(s) >= Buffer \/ At(s, RunEnd(s, 1, {Space})) \in {Plus, Minus}) -> Fails("InvalidFormat")
    [] OTHER -> Strto(s, 0, W64)

string_parse_i64(s) ==
  CASE s = << >> -> Fails("Empty")
    [] Len(s) >= Buffer -> Fails("InvalidFormat")
    [] OTHER -> Strto(s, -(W64 \div 2), W64 \div 2)

Narrowed(r, low, high) ==
  CASE r.status # "Success" -> Fails(r.status)
    [] r.status = "Success" /\ r.value >= high -> Fails("Overflow")
    [] r.status = "Success" /\ r.value < low -> Fails("Underflow")
    [] OTHER -> r
string_parse_u32(s) == Narrowed(string_parse_u64(s), 0, W32)
string_parse_i32(s) == Narrowed(string_parse_i64(s), -(W32 \div 2), W32 \div 2)

HexDigit(ch) == CASE ch \in Digits -> ch - 48 [] ch \in Lowers -> ch - 87 [] OTHER -> ch - 55
IsPrefixed(s) == Len(s) >= 2 /\ s[1] = 48 /\ to_lower(s[2]) = 120

HexStep(r, ch) ==
  IF r.status # "Success" THEN r
  ELSE IF ~IsHex(ch) THEN Fails("InvalidFormat")
  ELSE IF r.value > (W64 - 1) \div 16 THEN Fails("Overflow")
  ELSE Ok((r.value * 16 + HexDigit(ch)) % W64)

string_parse_hex_u64(s) ==
  LET digits == IF IsPrefixed(s) THEN SubSeq(s, 3, Len(s)) ELSE s
  IN  CASE s = << >> -> Fails("Empty")
        [] s # << >> /\ digits = << >> -> Fails("InvalidHexPrefix")
        [] OTHER -> FoldLeft(HexStep, Ok(0), digits)
string_parse_hex_u32(s) == Narrowed(string_parse_hex_u64(s), 0, W32)
string_parse_number_u64(s) == IF IsPrefixed(s) THEN string_parse_hex_u64(s) ELSE string_parse_u64(s)
string_parse_number_u32(s) == Narrowed(string_parse_number_u64(s), 0, W32)

-----------------------------------------------------------------------------
(* expand_env_vars: ${VAR} and $VAR, in one pass from left to right.       *)

is_var_char(ch) == ch \in Digits \cup Uppers \cup Lowers \cup {Underscore}

(* An unknown or unfinished reference as it stands.                        *)
Kept(t, d, end, braced) == SubSeq(t, d, IF braced THEN Min({end, Len(t)}) ELSE end - 1)

(* What the reference at the dollar sign at d becomes, and where the text  *)
(* goes on.  Unknown variables and unfinished references stay.             *)
Reference(t, d) ==
  LET braced == At(t, d + 1) = Open
      from == IF braced THEN d + 2 ELSE d + 1
      end == IF braced THEN string_find_char_from(t, Close, from)
             ELSE Min({j \in from..Len(t) : ~is_var_char(t[j])} \cup {Len(t) + 1})
      name == SubSeq(t, from, end - 1)
  IN  [put |-> IF name \in DOMAIN Env /\ (braced => end <= Len(t)) THEN Env[name]
               ELSE Kept(t, d, end, braced),
       next |-> IF braced THEN end + 1 ELSE end]

expand_env_vars(t) ==
  FoldLeft(LAMBDA at, i :
             IF i < at.next THEN at
             ELSE IF t[i] # Dollar THEN [at EXCEPT !.put = Append(@, t[i])]
             ELSE [put |-> at.put \o Reference(t, i).put, next |-> Reference(t, i).next],
           [put |-> << >>, next |-> 1], [i \in DOMAIN t |-> i]).put

-----------------------------------------------------------------------------
Init == a = << >> /\ b = << >> /\ c = << >>

AllOrdered(s) == \A i \in DOMAIN s : s[i] \in OrderChars
Grow ==
  /\ Len(a) + Len(b) + Len(c) < MaxChars
  /\ \/ \E ch \in Chars : a' = Append(a, ch) /\ (b = << >> \/ ch \in OrderChars)
        /\ UNCHANGED <<b, c>>
     \/ \E ch \in OrderChars : b' = Append(b, ch) /\ AllOrdered(a) /\ UNCHANGED <<a, c>>
     \/ \E ch \in OrderChars : c' = Append(c, ch) /\ b # << >> /\ UNCHANGED <<a, b>>

Next == Grow

Spec == Init /\ [][Next]_vars

-----------------------------------------------------------------------------
(* SearchesAgree: the ways to look for a text in another answer alike, what*)
(* was found can be cut out again, and a bounded comparison changes sign   *)
(* with its operands and within its bound only sees the prefixes           *)
(* (string.c:38-114, 361-463, 676-760).                                    *)
SearchesAgree ==
  c = << >> => LET at == string_find_substr(a, b) IN
  /\ b # << >> => (string_begins_with(a, b) <=> at = 0)
  /\ string_ends_with(a, b) <=> string_begins_with(Reverse(a), Reverse(b))
  /\ at # -1 => string_contains_nocase(a, b) /\ (a # << >> => string_substr(a, at, Len(b)) = Len(b))
  /\ string_contains_nocase(lower(a), b) <=> string_contains_nocase(a, b)
  /\ \A n \in 0..MaxChars :
       /\ string_compare_n(b, a, n) = -string_compare_n(a, b, n)
       /\ n < Min({Len(a), Len(b)}) =>
            (string_compare_n(a, b, n) = 0 <=> SubSeq(a, 1, n) = SubSeq(b, 1, n))

(* NaturalIsAnOrder: natural comparison can be sorted by: it changes sign  *)
(* with its operands, and it and equality under it are transitive, numbers *)
(* with leading zeros included (string.c:134-188).                         *)
NaturalIsAnOrder ==
  LET ab == string_compare_natural(a, b)
      bc == string_compare_natural(b, c)
      ac == string_compare_natural(a, c)
  IN  /\ string_compare_natural(b, a) = -ab
      /\ ab <= 0 /\ bc <= 0 => ac = (IF ab = 0 /\ bc = 0 THEN 0 ELSE -1)

(* ParsesAreExact: a parse that succeeds returns the number the text is, a *)
(* hexadecimal one overflows only if the number does not fit, and          *)
(* narrowing never changes a value (string.c:391-671).                     *)
HexValue(s) == FoldLeft(LAMBDA v, ch : v * 16 + HexDigit(ch), 0, s)
ParsesAreExact ==
  LET digits == IF IsPrefixed(a) THEN SubSeq(a, 3, Len(a)) ELSE a
      hex == string_parse_hex_u64(a)
      narrow == string_parse_number_u32(a)
  IN  /\ digits # << >> /\ (\A i \in DOMAIN digits : IsHex(digits[i])) =>
           hex = (IF HexValue(digits) < W64 THEN Ok(HexValue(digits)) ELSE Fails("Overflow"))
      /\ narrow.status = "Success" => narrow = string_parse_number_u64(a) /\ narrow.value < W32
      /\ string_parse_i32(a).status = "Success" /\ string_parse_u32(a).status = "Success" =>
           string_parse_i32(a) = string_parse_u32(a)
      /\ string_parse_hex_u32(a).status = "Success" => string_parse_hex_u32(a) = hex

(* UnknownsStay: without the variables it names a text is left as it is,   *)
(* whatever braces are missing, and a value is not expanded again          *)
(* (env_expand.c:17-103).                                                  *)
Mentions(t, name) == string_find_substr(t, name) # -1
UnknownsStay ==
  /\ (\A name \in DOMAIN Env : ~Mentions(a, name)) => expand_env_vars(a) = a
  /\ \A name \in DOMAIN Env : expand_env_vars(<<Dollar>> \o name) = Env[name]
                           /\ expand_env_vars(<<Dollar, Open>> \o name \o <<Close>> \o a) = Env[name] \o expand_env_vars(a)

=============================================================================
