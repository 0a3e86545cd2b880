------------------------------- MODULE MCData -------------------------------
(* Instances for TLC of the components one thread runs by itself: memory,   *)
(* containers, text and JSON; and of the log, which all others write to.    *)
(* They share nothing, so a behaviour runs one of them, the part, and the   *)
(* others keep their initial state.                                         *)
EXTENDS Log, Memory, Tlsf, TLC

VARIABLES
  part,
  source, flags, result,             (* JsonText                            *)
  number, number_flags, outcome,     (* JsonNumber                          *)
  docs,                              (* JsonTree                            *)
  base, relative, found,             (* Paths                               *)
  a, b, c,                           (* Strings                             *)
  text                               (* Utf8                                *)

(* The pool of the creation, and a smaller one.                             *)
CreatedPool == [mem |-> 4, bytes |-> 44]
SomePools == {CreatedPool, [mem |-> 64, bytes |-> 13]}

(* Two keys have one hash and a third shares their bucket.                  *)
HashOfKeys == [k \in Keys |-> CASE k \in {"a", "b"} -> 1 [] k = "c" -> 3 [] OTHER -> 2]

(* Every unit the grammar tells apart, after texts that open each context.  *)
JsonUnits == {"{", "}", "[", "]", ":", ",", "dq", "1", "sp", "=", "sq", "/", "*", "nl", "a", "true",
              "esc", "u2", "uH", "uL"}
Relaxed == {"TrailingComma", "UnquotedKeys", "CStyleComments", "SingleQuotedStrings", "MultiLineStrings"}
JsonFlags ==
  {{"LocationInformation"}, Relaxed \cup {"LocationInformation"}, {"CStyleComments", "LocationInformation"},
   {"TrailingComma", "UnquotedKeys", "GlobalObject", "EqualsInObject", "NoCommas", "LocationInformation"},
   Relaxed \cup {"GlobalObject"}}
JsonSeeds ==
  {<< >>, <<"[">>, <<"{">>, <<"{", "dq", "a", "dq", ":">>, <<"{", "a", ":", "1", ",">>, <<"[", "1", ",">>,
   <<"[", "dq", "uH", "uL">>, <<"[", "/", "*", "nl", "*", "/">>, <<"[", "[", "[", "]", "]">>,
   <<"{", "dq", "a", "dq", ":", "nl", "1">>}
JsonText == INSTANCE JsonText WITH
  Units <- JsonUnits, FlagSets <- JsonFlags, Seeds <- JsonSeeds, MaxUnits <- 3, JSON_PARSE_MAX_DEPTH <- 3,
  text <- source

NumberFlags == {"HexadecimalNumbers", "LeadingPlusSign", "DecimalPoint", "InfAndNan", "EqualsInObject"}
JsonNumber == INSTANCE JsonNumber WITH
  Units <- {"0", "1", ".", "e", "+", "-", "x", "a", "Infinity", "NaN", ","},
  FlagSets <- {{}, NumberFlags}, MaxUnits <- 4, text <- number, flags <- number_flags, result <- outcome

JsonTree == INSTANCE JsonTree WITH
  Names <- {<<"a">>, <<"a", "esc">>}, Strings <- {<<"esc">>}, Numbers <- {<<"1">>}, MaxNodes <- 5

Paths == INSTANCE Paths WITH
  Units <- {"/", "bs", ".", "a", "C:", "http:"}, MaxUnits <- 5, Home <- << <<"h">>, <<"i">> >>

(* NUL, space, "$", "-", ".", "0", "1", "A", "a", "x", "{" and "}"; the     *)
(* value of the variable a mentions b, which is set too.                    *)
Strings == INSTANCE Strings WITH
  Chars <- {0, 32, 36, 45, 46, 48, 49, 65, 97, 120, 123, 125}, OrderChars <- {46, 48, 49, 65, 97},
  MaxChars <- 4, W64 <- 64, W32 <- 16, Buffer <- 4, Env <- (<<97>> :> <<36, 98>>) @@ (<<98>> :> <<49>>)

(* Lead and continuation bytes on both sides of every boundary.             *)
Utf8 == INSTANCE Utf8 WITH
  Bytes <- {65, 128, 143, 144, 159, 160, 189, 191, 192, 194, 224, 237, 239, 240, 244, 245}, MaxBytes <- 4

Parts == {"tlsf", "strings", "pool", "map", "scratch", "json", "number", "tree", "path", "string", "utf8", "log"}

DataInit ==
  /\ part \in Parts
  /\ Init /\ StringsInit /\ PoolInit /\ HashMapInit /\ ScratchInit
  /\ JsonTree!Init /\ Paths!Init /\ Strings!Init /\ Utf8!Init
  /\ IF part = "tlsf" THEN TlsfInit ELSE heap = control_construct /\ pools = {} /\ live = << >>
  /\ IF part = "json" THEN JsonText!Init ELSE source = << >> /\ flags = {} /\ result = << >>
  /\ IF part = "number" THEN JsonNumber!Init ELSE number = << >> /\ number_flags = {} /\ outcome = << >>

OthersRest ==
  /\ UNCHANGED part
  /\ part # "tlsf" => UNCHANGED tlsf_vars
  /\ part # "strings" => UNCHANGED strings_vars
  /\ part # "pool" => UNCHANGED pool_vars
  /\ part # "map" => UNCHANGED hashmap_vars
  /\ part # "scratch" => UNCHANGED scratch_vars
  /\ part # "json" => UNCHANGED <<source, flags, result>>
  /\ part # "number" => UNCHANGED <<number, number_flags, outcome>>
  /\ part # "tree" => UNCHANGED docs
  /\ part # "path" => UNCHANGED <<base, relative, found>>
  /\ part # "string" => UNCHANGED <<a, b, c>>
  /\ part # "utf8" => UNCHANGED text
  /\ part # "log" => UNCHANGED vars

TlsfStep == part = "tlsf" /\ TlsfNext /\ OthersRest
StringAllocatorStep == part = "strings" /\ StringsNext /\ OthersRest
PoolStep == part = "pool" /\ PoolNext /\ OthersRest
MapStep == part = "map" /\ HashMapNext /\ OthersRest
ScratchStep == part = "scratch" /\ ScratchNext /\ OthersRest
JsonStep == part = "json" /\ JsonText!Next /\ OthersRest
NumberStep == part = "number" /\ JsonNumber!Next /\ OthersRest
TreeStep == part = "tree" /\ JsonTree!Next /\ OthersRest
PathStep == part = "path" /\ Paths!Next /\ OthersRest
StringStep == part = "string" /\ Strings!Next /\ OthersRest
Utf8Step == part = "utf8" /\ Utf8!Next /\ OthersRest
LogStep == part = "log" /\ Next /\ OthersRest

DataNext ==
  \/ TlsfStep \/ StringAllocatorStep \/ PoolStep \/ MapStep \/ ScratchStep \/ JsonStep \/ NumberStep
  \/ TreeStep \/ PathStep \/ StringStep \/ Utf8Step \/ LogStep

-----------------------------------------------------------------------------
(* PassesAgree: the pass that sizes a document and the pass that parses it  *)
(* agree on every text: the same verdict, the same bytes, no read past the  *)
(* end; and a number is copied and printed in exactly the bytes measured    *)
(* (json.c:284-1902, 2271-2716).                                            *)
PassesAgree ==
  /\ part = "json" => JsonText!TypeOK /\ JsonText!PassesAgree
  /\ part = "number" => JsonNumber!NumbersRoundTrip

(* OnlyJson: without flags only JSON is accepted, every value knows the     *)
(* line it starts on, and a report of a refused text quotes the line of the *)
(* error with the caret under it (json.c:178-1238, 3434-3540).              *)
OnlyJson ==
  part = "json" =>
    JsonText!OnlyJson /\ JsonText!LinesAreExact /\ JsonText!ReportsPointAtErrors

(* DocumentsSurvive: a document is written in exactly the bytes that were   *)
(* measured for it, an extracted copy fills its buffer and not more, a path *)
(* leads to the value its names lead to, and a difference applied to one    *)
(* document gives the other (json.c:1939-3293, json_delta.c:9-173).         *)
DocumentsSurvive ==
  part = "tree" =>
    /\ JsonTree!WrittenTextsFit /\ JsonTree!CopiesFit /\ JsonTree!PathsLeadToValues
    /\ JsonTree!DeltaRoundTrips

(* TextKeepsItsMeaning: a resolved path leads where the path led, the parts *)
(* of a path make the whole and the entries of a directory are told from    *)
(* what lies elsewhere; strings sort by an order, numbers are parsed        *)
(* exactly and expansion leaves unknown variables alone; and the two UTF-8  *)
(* decoders and the encoder agree (path.c, file_watcher.c:148-194,          *)
(* string.c, env_expand.c, utf8.c).                                         *)
TextKeepsItsMeaning ==
  /\ part = "path" => Paths!ResolvedPathsLeadThere /\ Paths!PartsMakeTheWhole /\ Paths!NearestIsFound
  /\ part = "path" => Paths!ChildrenAreDirect
  /\ part = "string" =>
       Strings!SearchesAgree /\ Strings!NaturalIsAnOrder /\ Strings!ParsesAreExact /\ Strings!UnknownsStay
  /\ part = "utf8" => Utf8!DecodersAgree /\ Utf8!ValidTextsAreEncodings
=============================================================================
