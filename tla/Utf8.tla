-------------------------------- MODULE Utf8 --------------------------------
(***************************************************************************)
(* UTF-8 (src/core/utf8.c, utf8.h): the bounds-checked decoder, the        *)
(* branchless one, which reads three bytes past the text, the encoder,     *)
(* the iterator and the validity test.  The state is a text that grows.    *)
(***************************************************************************)
EXTENDS Integers, Sequences, SequencesExt, FiniteSetsExt

CONSTANTS Bytes, MaxBytes   (* bytes of a text; bound: their number        *)

VARIABLE text

UTF8_REPLACEMENT_CHAR == 65533
UTF8_MAX_CODEPOINT == 1114111
IsSurrogate(cp) == cp \in 55296..57343
utf8_is_continuation(b) == b \in 128..191

utf8_sequence_length(b) ==
  CASE b < 128 -> 1
    [] b \in 194..223 -> 2
    [] b \in 224..239 -> 3
    [] b \in 240..244 -> 4
    [] OTHER -> 0

(* The bits of a lead byte of a sequence of n bytes, then of the others.   *)
LeadBits(b, n) == b % (CASE n = 1 -> 128 [] n = 2 -> 32 [] n = 3 -> 16 [] n = 4 -> 8 [] OTHER -> 1)
Codepoint(s, n) == FoldLeft(LAMBDA cp, b : (cp * 64) + (b % 64), LeadBits(s[1], n), SubSeq(s, 2, n))

Least(n) == CASE n = 2 -> 128 [] n = 3 -> 2048 [] n = 4 -> 65536 [] OTHER -> 0

(* The codepoint at the front of s, and the bytes it takes.                *)
utf8_decode_safe(s) ==
  LET n == utf8_sequence_length(s[1])
      cp == Codepoint(s, n)
      Bad(bytes) == [cp |-> UTF8_REPLACEMENT_CHAR, bytes |-> bytes]
  IN  IF n = 0 \/ n > Len(s) THEN Bad(1)
      ELSE IF \E i \in 2..n : ~utf8_is_continuation(s[i]) THEN Bad(1)
      ELSE IF cp > UTF8_MAX_CODEPOINT \/ IsSurrogate(cp) \/ cp < Least(n) THEN Bad(n)
      ELSE [cp |-> cp, bytes |-> n]

(* The branchless decoder takes the length from the top five bits and      *)
(* collects errors; the text is followed by zeros.                         *)
utf8_decode(s) ==
  LET padded == s \o <<0, 0, 0>>
      b == s[1]
      n == CASE b < 128 -> 1 [] b \in 192..223 -> 2 [] b \in 224..239 -> 3 [] b \in 240..247 -> 4 [] OTHER -> 0
      cp == Codepoint(padded, n)
  IN  [bytes |-> Max({n, 1}),
       cp |-> IF n = 0 THEN 0 ELSE cp,
       error |-> \/ n = 0 \/ cp < Least(n) \/ IsSurrogate(cp) \/ cp > UTF8_MAX_CODEPOINT
                 \/ \E i \in 2..n : ~utf8_is_continuation(padded[i])]

utf8_encode(cp) ==
  LET Tail6(k) == 128 + ((cp \div 64^k) % 64)
  IN  CASE cp > UTF8_MAX_CODEPOINT \/ IsSurrogate(cp) -> << >>
        [] cp < 128 -> <<cp>>
        [] cp \in 128..2047 -> <<192 + (cp \div 64), Tail6(0)>>
        [] cp \in 2048..65535 /\ ~IsSurrogate(cp) -> <<224 + (cp \div 4096), Tail6(1), Tail6(0)>>
        [] cp \in 65536..UTF8_MAX_CODEPOINT -> <<240 + (cp \div 262144), Tail6(2), Tail6(1), Tail6(0)>>

(* utf8_iter_next until the end: the sequences a text falls into.          *)
Sequences8(s) ==
  FoldLeft(LAMBDA at, i :
             IF i < at.next THEN at
             ELSE LET n == utf8_decode_safe(SubSeq(s, i, Len(s))).bytes
                  IN  [parts |-> Append(at.parts, SubSeq(s, i, i + n - 1)), next |-> i + n],
           [parts |-> << >>, next |-> 1], [i \in DOMAIN s |-> i]).parts

utf8_codepoint_count(s) == Len(Sequences8(s))

utf8_is_valid(s) ==
  \A i \in DOMAIN Sequences8(s) :
    LET part == Sequences8(s)[i]
    IN  utf8_decode_safe(part).cp = UTF8_REPLACEMENT_CHAR => part = <<239, 191, 189>>

Init == text = << >>
Next == Len(text) < MaxBytes /\ \E b \in Bytes : text' = Append(text, b)
Spec == Init /\ [][Next]_text

-----------------------------------------------------------------------------
(* DecodersAgree: both decoders accept the same texts and read the same    *)
(* codepoint from as many bytes, which is the only way to write it, and    *)
(* no decoder passes the end of a text (utf8.c:7-61, utf8.h:35-71).        *)
DecodersAgree ==
  text # << >> =>
    LET safe == utf8_decode_safe(text)
        fast == utf8_decode(text)
        written == SubSeq(text, 1, safe.bytes)
        accepted == safe.cp # UTF8_REPLACEMENT_CHAR \/ written = <<239, 191, 189>>
    IN  /\ safe.bytes \in 1..Len(text)
        /\ ~fast.error <=> accepted
        /\ accepted => safe.cp = fast.cp /\ safe.bytes = fast.bytes /\ utf8_encode(safe.cp) = written

(* ValidTextsAreEncodings: a text is valid just if encodings in a row make *)
(* it up, and the iterator then counts them (utf8.c:65-136).               *)
IsEncoding(s) == \E cp \in {utf8_decode_safe(s).cp} : utf8_encode(cp) = s
ValidTextsAreEncodings ==
  LET splits == {cut \in SUBSET (1..Len(text)) :
                   /\ text # << >> => Len(text) \in cut
                   /\ \A i \in cut : IsEncoding(SubSeq(text, Max({0} \cup {j \in cut : j < i}) + 1, i))}
  IN  /\ utf8_is_valid(text) <=> splits # {}
      /\ \A cut \in splits : utf8_codepoint_count(text) = Cardinality(cut)
=============================================================================
