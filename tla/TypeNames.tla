------------------------------ MODULE TypeNames ------------------------------
(***************************************************************************)
(* How the text of a type is read: the splitting of a list of types and    *)
(* the names of elements (base.ts), the definition of an enumeration       *)
(* (types.ts), and the choice of a codec (createCodec of registry.ts).     *)
(* A text is a sequence of tokens, each a string: a character ("tick" is a *)
(* backtick, "quote" an apostrophe), or a word of letters.  A type is a    *)
(* tuple: its name, then what it is made of; names in it are texts.        *)
(***************************************************************************)
LOCAL INSTANCE Integers
LOCAL INSTANCE Sequences
LOCAL INSTANCE SequencesExt
LOCAL INSTANCE FiniteSetsExt
LOCAL INSTANCE TLC

CONSTANTS PlainTypes,      \* words that are types by themselves
          Words,           \* the words an unquoted name may have
          LeafTypes,       \* types to grow others from
          NamePairs,       \* pairs of names for elements
          PathPairs,       \* pairs of names for the paths of a JSON
          JsonParams,      \* what else a JSON may have between its parentheses
          MaxGrowth        \* how many times a type is wrapped in another

VARIABLES tree,            \* a type
          style,           \* who writes it: the server, or another writer
          growth           \* how often it was wrapped
nameVars == <<tree, style, growth>>

Blanks == {" ", "tab", "newline", "return"}
DigitOf == [c \in {"0", "1", "2", "3", "4", "5", "6", "7", "8", "9"} |->
              CHOOSE n \in 0 .. 9 : ToString(n) = c]
Unknown == <<"unknown">>   \* stands for an exception

Dropped(text, n) == SubSeq(text, n + 1, Len(text))
\* The text from its first token that is not one of some.
SkipAll(text, tokens) ==
  LET others == {i \in DOMAIN text : text[i] \notin tokens}
  IN IF others = {} THEN <<>> ELSE SubSeq(text, Min(others), Len(text))
Trimmed(text) == Reverse(SkipAll(Reverse(SkipAll(text, Blanks)), Blanks))
\* The digits a text begins with, and the number of some digits.
LeadingDigits(text) == SubSeq(text, 1, Len(text) - Len(SkipAll(text, DOMAIN DigitOf)))
NumberOf(digits) == FoldLeft(LAMBDA n, c : 10 * n + DigitOf[c], 0, digits)

-----------------------------------------------------------------------------
(* Lists of types. *)

\* (A mutation: backslashes hide nothing.)
HidesNothing(acc, c) == FALSE
\* A backslash within quotes hides the next character.
Hides(acc, c) == acc.quoted /\ c = "\\"

Nesting(c) == IF c = "(" THEN 1 ELSE IF c = ")" THEN -1 ELSE 0
ListStep(acc, c) ==
  IF acc.hidden THEN [acc EXCEPT !.hidden = FALSE, !.current = Append(@, c)]
  ELSE IF Hides(acc, c) THEN [acc EXCEPT !.hidden = TRUE, !.current = Append(@, c)]
  ELSE IF c = "tick" THEN [acc EXCEPT !.quoted = ~acc.quoted, !.current = Append(@, c)]
  ELSE IF acc.quoted THEN [acc EXCEPT !.current = Append(@, c)]
  ELSE IF c = "," /\ acc.depth = 0 THEN [acc EXCEPT !.types = Append(@, Trimmed(acc.current)), !.current = <<>>]
  ELSE [acc EXCEPT !.depth = @ + Nesting(c), !.current = Append(@, c)]

LOCAL WithLast(acc) ==
  IF Trimmed(acc.current) = <<>> THEN acc.types ELSE Append(acc.types, Trimmed(acc.current))
ParseTypeList(inner) ==
  WithLast(FoldLeft(ListStep, [types |-> <<>>, depth |-> 0, quoted |-> FALSE, hidden |-> FALSE, current |-> <<>>],
                    inner))

\* Between the first and the last parenthesis.
ExtractTypeArgs(text) ==
  SubSeq(text, Min({i \in DOMAIN text : text[i] = "("}) + 1, Max({i \in DOMAIN text : text[i] = ")"}) - 1)

-----------------------------------------------------------------------------
(* Names of elements. *)

IdentEscapes ==
  [n |-> "newline", r |-> "return", t |-> "tab", b |-> "backspace", f |-> "feed", a |-> "bell", v |-> "vtab"]
    @@ ("0" :> "NUL")
Unescaped(c) == IF c \in DOMAIN IdentEscapes THEN IdentEscapes[c] ELSE c

NoPath == [ok |-> FALSE, name |-> <<>>, rest |-> <<>>, quoted |-> FALSE]

\* A segment up to its closing backtick; a doubled one stands for itself.
RECURSIVE QuotedSegment(_, _)
QuotedSegment(rest, name) ==
  IF rest = <<>> THEN NoPath
  ELSE IF rest[1] = "\\" /\ Len(rest) > 1 THEN QuotedSegment(Dropped(rest, 2), Append(name, Unescaped(rest[2])))
  ELSE IF rest[1] # "tick" THEN QuotedSegment(Tail(rest), Append(name, rest[1]))
  ELSE IF Len(rest) > 1 /\ rest[2] = "tick" THEN QuotedSegment(Dropped(rest, 2), Append(name, "tick"))
  ELSE [ok |-> TRUE, name |-> name, rest |-> Tail(rest), quoted |-> TRUE]

\* A word, with the digits and words that follow it.
BareSegment(rest) ==
  LET after == SkipAll(Tail(rest), Words \cup DOMAIN DigitOf)
  IN IF rest[1] \notin Words THEN NoPath
     ELSE [ok |-> TRUE, name |-> SubSeq(rest, 1, Len(rest) - Len(after)), rest |-> after, quoted |-> FALSE]

Segment(rest) ==
  IF rest = <<>> THEN NoPath ELSE IF rest[1] = "tick" THEN QuotedSegment(Tail(rest), <<>>) ELSE BareSegment(rest)

\* Segments with dots between them; quoted if one of them is.
RECURSIVE ScanNamePath(_)
LOCAL Joined(segment, more) ==
  IF ~more.ok THEN NoPath
  ELSE [more EXCEPT !.name = segment.name \o <<".">> \o @, !.quoted = @ \/ segment.quoted]
LOCAL MorePath(segment) ==
  IF ~segment.ok \/ segment.rest = <<>> THEN segment
  ELSE IF segment.rest[1] # "." THEN segment
  ELSE Joined(segment, ScanNamePath(Tail(segment.rest)))
ScanNamePath(part) == MorePath(Segment(part))

\* A name, if a blank and a type follow it.
LOCAL NamedBy(path, part) ==
  IF path.ok /\ Trimmed(path.rest) # <<>> /\ path.rest # Trimmed(path.rest)
  THEN [named |-> TRUE, name |-> path.name, type |-> Trimmed(path.rest), quoted |-> path.quoted]
  ELSE [named |-> FALSE, name |-> <<>>, type |-> part, quoted |-> FALSE]
ParseNamedElement(part) == NamedBy(ScanNamePath(part), part)
ParseTupleElements(inner) ==
  LET parts == ParseTypeList(inner) IN [i \in DOMAIN parts |-> ParseNamedElement(parts[i])]

\* Parameters have no name, and an unquoted SKIP is not one.
TypedPath(element) == element.named /\ (element.name # <<"SKIP">> \/ element.quoted)
ParseJsonTypedPaths(text) ==
  IF ~Contains(text, "(") THEN <<>>
  ELSE SelectSeq(ParseTupleElements(ExtractTypeArgs(text)), TypedPath)

-----------------------------------------------------------------------------
(* Enumerations. *)

Control == {"NUL", "bell", "backspace", "tab", "newline", "vtab", "feed", "return", "escape"}
HexDigits == <<"0", "1", "2", "3", "4", "5", "6", "7", "8", "9", "A", "B", "C", "D", "E", "F">>
Nibble == [c \in ToSet(HexDigits) |-> (CHOOSE i \in DOMAIN HexDigits : HexDigits[i] = c) - 1]
CharCodes == [newline |-> 10, quote |-> 39]
CharOf(code) == CHOOSE c \in DOMAIN CharCodes : CharCodes[c] = code

SimpleEscapes == IdentEscapes @@ [e |-> "escape"] @@ ("quote" :> "quote") @@ ("\\" :> "\\")
\* A backslash before a character it means nothing to is kept, before some it is not.
PreservesBackslash(c) == c \notin {"\\", "quote", "\"", "tick", "/", "="} \cup Control
Escaped(c) ==
  IF c = "N" THEN <<>>
  ELSE IF c \in DOMAIN SimpleEscapes THEN <<SimpleEscapes[c]>>
  ELSE IF PreservesBackslash(c) THEN <<"\\", c>> ELSE <<c>>

\* What is between quotes, and what follows them.
RECURSIVE ParseQuotedString(_, _)
LOCAL HexEscape(rest, name) ==
  IF Len(rest) < 4 THEN NoPath
  ELSE IF {rest[3], rest[4]} \subseteq DOMAIN Nibble
  THEN ParseQuotedString(Dropped(rest, 4), Append(name, CharOf(16 * Nibble[rest[3]] + Nibble[rest[4]])))
  ELSE NoPath
ParseQuotedString(rest, name) ==
  IF rest = <<>> THEN NoPath
  ELSE IF rest[1] = "quote" THEN [ok |-> TRUE, name |-> name, rest |-> Tail(rest), quoted |-> TRUE]
  ELSE IF rest[1] # "\\" THEN ParseQuotedString(Tail(rest), Append(name, rest[1]))
  ELSE IF Len(rest) = 1 THEN NoPath
  ELSE IF rest[2] = "x" THEN HexEscape(rest, name)
  ELSE ParseQuotedString(Dropped(rest, 2), name \o Escaped(rest[2]))

EnumLimits == [Enum8 |-> <<-128, 127>>, Enum16 |-> <<-32768, 32767>>]

\* The pairs of a definition, or Unknown: names and values, each only once.
RECURSIVE EnumPairs(_, _, _)
LOCAL AddPair(limits, pairs, name, value, rest) ==
  IF value \notin limits[1] .. limits[2] \/ \E i \in DOMAIN pairs : pairs[i][1] = name \/ pairs[i][2] = value
  THEN Unknown ELSE EnumPairs(limits, rest, Append(pairs, <<name, value>>))
LOCAL ValueOf(limits, pairs, name, sign, rest) ==
  IF LeadingDigits(rest) = <<>> THEN Unknown
  ELSE AddPair(limits, pairs, name, sign * NumberOf(LeadingDigits(rest)), SkipAll(rest, DOMAIN DigitOf))
LOCAL SignOf(limits, pairs, name, rest) ==
  IF rest = <<>> THEN Unknown
  ELSE ValueOf(limits, pairs, name, IF rest[1] = "-" THEN -1 ELSE 1,
               IF rest[1] \in {"-", "+"} THEN Tail(rest) ELSE rest)
LOCAL EqualsOf(limits, pairs, name, rest) ==
  IF rest = <<>> THEN Unknown
  ELSE IF rest[1] # "=" THEN Unknown ELSE SignOf(limits, pairs, name, SkipAll(Tail(rest), Blanks))
LOCAL NameOf(limits, pairs, parsed) ==
  IF parsed.ok THEN EqualsOf(limits, pairs, parsed.name, SkipAll(parsed.rest, Blanks)) ELSE Unknown
LOCAL NextPair(limits, rest, pairs) ==
  IF rest = <<>> THEN (IF pairs = <<>> THEN Unknown ELSE pairs)
  ELSE IF rest[1] # "quote" THEN Unknown ELSE NameOf(limits, pairs, ParseQuotedString(Tail(rest), <<>>))
EnumPairs(limits, rest, pairs) == NextPair(limits, SkipAll(rest, Blanks \cup {","}), pairs)

ParseEnumDefinition(text) ==
  IF Len(text) < 4 \/ text[1] \notin DOMAIN EnumLimits \/ text[2] # "(" \/ Last(text) # ")" THEN Unknown
  ELSE EnumPairs(EnumLimits[text[1]], SubSeq(text, 3, Len(text) - 1), <<>>)

-----------------------------------------------------------------------------
(* createCodec: the type that a text names. *)

RECURSIVE CodecOf(_)
LOCAL TypesOf(texts) == [i \in DOMAIN texts |-> CodecOf(texts[i])]
LOCAL ElementNames(elements) == [i \in DOMAIN elements |-> elements[i].name]
LOCAL ElementTypes(elements) == [i \in DOMAIN elements |-> CodecOf(elements[i].type)]

MapCodec(args) == IF Len(args) < 2 THEN Unknown ELSE <<"Map", CodecOf(args[1]), CodecOf(args[2])>>
\* Named if its first element is.
TupleCodec(elements) ==
  IF elements = <<>> THEN Unknown
  ELSE <<"Tuple", IF elements[1].named THEN ElementNames(elements) ELSE <<>>, ElementTypes(elements)>>
NestedCodec(elements) == <<"Array", <<"Tuple", ElementNames(elements), ElementTypes(elements)>>>>
JsonCodec(paths) == <<"JSON", [i \in DOMAIN paths |-> <<paths[i].name, CodecOf(paths[i].type)>>]>>

Millis == 3                \* the precision of a DateTime64 that names none
DateTime64Codec(text) ==
  LET digits == LeadingDigits(Dropped(text, 2))
  IN <<"DateTime64", IF digits = <<>> THEN Millis ELSE NumberOf(digits)>>

DecimalPrecision == [Decimal32 |-> 9, Decimal64 |-> 18, Decimal128 |-> 38, Decimal256 |-> 76]
DecimalCodec(word, args) ==
  IF word \in DOMAIN DecimalPrecision THEN <<"Decimal", DecimalPrecision[word], NumberOf(Last(args))>>
  ELSE IF Len(args) < 2 THEN Unknown
  ELSE <<"Decimal", NumberOf(args[1]), NumberOf(args[2])>>
EnumCodec(word, pairs) == IF pairs = Unknown THEN Unknown ELSE <<word, pairs>>

Point == <<"Tuple", <<>>, <<<<"Float64">>, <<"Float64">>>>>>
Ring == <<"Array", Point>>
Polygon == <<"Array", Ring>>

CreateCodec(text) ==
  CASE text[1] \in {"Nullable", "Array", "LowCardinality"} -> <<text[1], CodecOf(ExtractTypeArgs(text))>>
    [] text[1] = "Map" -> MapCodec(ParseTypeList(ExtractTypeArgs(text)))
    [] text[1] = "Tuple" -> TupleCodec(ParseTupleElements(ExtractTypeArgs(text)))
    [] text[1] = "Nested" -> NestedCodec(ParseTupleElements(ExtractTypeArgs(text)))
    [] text[1] = "Variant" -> <<"Variant", TypesOf(ParseTypeList(ExtractTypeArgs(text)))>>
    [] text[1] = "Dynamic" -> <<"Dynamic">>
    [] text[1] = "JSON" -> JsonCodec(ParseJsonTypedPaths(text))
    [] text[1] = "FixedString" -> <<"FixedString", NumberOf(ExtractTypeArgs(text))>>
    [] text[1] = "DateTime64" -> DateTime64Codec(text)
    [] text[1] = "DateTime" -> <<"DateTime">>
    [] text[1] = "Point" -> Point
    [] text[1] = "Ring" -> Ring
    [] text[1] = "Polygon" -> Polygon
    [] text[1] = "MultiPolygon" -> <<"Array", Polygon>>
    [] text[1] \in DOMAIN EnumLimits -> EnumCodec(text[1], ParseEnumDefinition(text))
    [] text[1] \in {"Decimal"} \cup DOMAIN DecimalPrecision ->
         DecimalCodec(text[1], ParseTypeList(ExtractTypeArgs(text)))
    [] OTHER -> IF Len(text) = 1 /\ text[1] \in PlainTypes THEN text ELSE Unknown
CodecOf(text) == IF text = <<>> THEN Unknown ELSE CreateCodec(text)

-----------------------------------------------------------------------------
(* Who writes the text.  The server quotes a name only where it must, and  *)
(* whole; another writer quotes each segment, doubles backticks, spares    *)
(* blanks and backslashes where it can, and writes codes for quotes.       *)

Terse == style # "server"
Comma == IF Terse THEN <<",">> ELSE <<",", " ">>
Listed(texts) ==
  FoldLeft(LAMBDA s, text : IF s = <<>> THEN text ELSE s \o Comma \o text, <<>>, texts)
LOCAL With(word, args) == <<word, "(">> \o args \o <<")">>

LOCAL EscapeOf(c) ==
  IF c \in {"\\", "tick", "quote"} THEN <<"\\", c>>
  ELSE IF \E e \in DOMAIN IdentEscapes : IdentEscapes[e] = c
  THEN <<"\\", CHOOSE e \in DOMAIN IdentEscapes : IdentEscapes[e] = c>> ELSE <<c>>
LOCAL NameToken1(c) ==
  IF Terse /\ c = "." THEN <<"tick", ".", "tick">> ELSE IF Terse /\ c = "tick" THEN <<"tick", "tick">> ELSE EscapeOf(c)
LOCAL Bare(name) == ToSet(name) \subseteq Words \cup {"."} /\ name # <<"SKIP">> /\ ~Terse
LOCAL WrittenName(name) ==
  IF Bare(name) THEN name
  ELSE <<"tick">> \o FlattenSeq([i \in DOMAIN name |-> NameToken1(name[i])]) \o <<"tick">>

LOCAL Digit(n) == ToString(n)
RECURSIVE Decimals(_)
Decimals(n) ==
  IF n < 0 THEN <<"-">> \o Decimals(-n) ELSE IF n < 10 THEN <<Digit(n)>> ELSE Decimals(n \div 10) \o <<Digit(n % 10)>>

LOCAL EnumChar(name, i) ==
  CASE Terse /\ name[i] = "quote" -> <<"\\", "x", "2", "7">>
    [] Terse /\ name[i] = "newline" -> <<"\\", "x", "0", "A">>
    [] Terse /\ name[i] = "\\" /\ i < Len(name) /\ name[Min({i + 1, Len(name)})] = "%" -> <<"\\">>
    [] OTHER -> EscapeOf(name[i])
LOCAL EnumPair(pair) ==
  <<"quote">> \o FlattenSeq([i \in DOMAIN pair[1] |-> EnumChar(pair[1], i)]) \o <<"quote">>
    \o (IF Terse THEN <<"=">> ELSE <<" ", "=", " ">>)
    \o (IF Terse /\ pair[2] >= 0 THEN <<"+">> ELSE <<>>) \o Decimals(pair[2])

RECURSIVE TypeText(_)
LOCAL Elements2(names, types) ==
  [i \in DOMAIN types |-> IF names = <<>> THEN TypeText(types[i]) ELSE WrittenName(names[i]) \o <<" ">> \o TypeText(types[i])]
TypeText(T) ==
  CASE T[1] \in {"Nullable", "Array", "LowCardinality"} -> With(T[1], TypeText(T[2]))
    [] T[1] = "Map" -> With("Map", Listed(<<TypeText(T[2]), TypeText(T[3])>>))
    [] T[1] \in {"Tuple", "Nested"} -> With(T[1], Listed(Elements2(T[2], T[3])))
    [] T[1] = "Variant" -> With("Variant", Listed(Elements2(<<>>, T[2])))
    [] T[1] = "JSON" ->
         With("JSON", Listed(T[3] \o [i \in DOMAIN T[2] |-> WrittenName(T[2][i][1]) \o <<" ">> \o TypeText(T[2][i][2])]))
    [] T[1] \in {"Enum8", "Enum16"} -> With(T[1], Listed([i \in DOMAIN T[2] |-> EnumPair(T[2][i])]))
    [] T[1] \in {"FixedString"} \cup DOMAIN DecimalPrecision -> With(T[1], Decimals(T[2]))
    [] T[1] = "Decimal" -> With(T[1], Listed(<<Decimals(T[2]), Decimals(T[3])>>))
    [] T[1] \in {"DateTime64", "DateTime"} /\ Len(T) > 1 ->
         With(T[1], Listed([i \in 1 .. Len(T) - 1 |-> IF i = 1 /\ T[1] = "DateTime64" THEN Decimals(T[2]) ELSE T[i + 1]]))
    [] OTHER -> T

\* What a type is, whoever writes it.
RECURSIVE Meant(_)
LOCAL EachMeant(types) == [i \in DOMAIN types |-> Meant(types[i])]
LOCAL EnumMeant(T) ==
  LET once(k) == Cardinality({T[2][i][k] : i \in DOMAIN T[2]}) = Len(T[2])
      fits(n) == n \in EnumLimits[T[1]][1] .. EnumLimits[T[1]][2]
  IN IF T[2] # <<>> /\ once(1) /\ once(2) /\ \A i \in DOMAIN T[2] : fits(T[2][i][2]) THEN T ELSE Unknown
Meant(T) ==
  CASE T[1] \in {"Nullable", "Array", "LowCardinality"} -> <<T[1], Meant(T[2])>>
    [] T[1] = "Map" -> <<"Map", Meant(T[2]), Meant(T[3])>>
    [] T[1] = "Tuple" -> <<"Tuple", T[2], EachMeant(T[3])>>
    [] T[1] = "Nested" -> <<"Array", <<"Tuple", T[2], EachMeant(T[3])>>>>
    [] T[1] = "Variant" -> <<"Variant", EachMeant(T[2])>>
    [] T[1] = "JSON" -> <<"JSON", [i \in DOMAIN T[2] |-> <<T[2][i][1], Meant(T[2][i][2])>>]>>
    [] T[1] \in {"Enum8", "Enum16"} -> EnumMeant(T)
    [] T[1] = "DateTime64" -> <<"DateTime64", IF Len(T) = 1 THEN Millis ELSE T[2]>>
    [] T[1] = "DateTime" -> <<"DateTime">>
    [] T[1] \in DOMAIN DecimalPrecision -> <<"Decimal", DecimalPrecision[T[1]], T[2]>>
    [] T[1] = "Point" -> <<"Tuple", <<>>, <<<<"Float64">>, <<"Float64">>>>>>
    [] T[1] = "Ring" -> <<"Array", Meant(<<"Point">>)>>
    [] T[1] = "Polygon" -> <<"Array", Meant(<<"Ring">>)>>
    [] T[1] \in PlainTypes \cup {"Dynamic", "FixedString", "Decimal"} -> T
    [] OTHER -> Unknown

\* Within a list, parentheses and backticks of an enumeration's names are taken for
\* the list's own: only names in which they are paired are read as they were meant.
RECURSIVE Fragile(_)
LOCAL Odd(name) ==
  LET count(c) == Len(SelectSeq(name, LAMBDA t : t = c)) IN count("(") # count(")") \/ count("tick") > 0
Fragile(T) ==
  CASE T[1] \in {"Enum8", "Enum16"} -> \E i \in DOMAIN T[2] : Odd(T[2][i][1])
    [] T[1] \in {"Nullable", "Array", "LowCardinality"} -> Fragile(T[2])
    [] OTHER -> FALSE

-----------------------------------------------------------------------------

NameInit == tree \in LeafTypes /\ style \in {"server", "other"} /\ growth = 0

\* A type that contains the one before.
Within(T) ==
  {<<word, T>> : word \in IF T \in LeafTypes THEN {"Nullable", "Array", "LowCardinality"} ELSE {"Array"}}
  \cup IF Fragile(T) THEN {}
       ELSE {<<"Map", <<"String">>, T>>, <<"Tuple", <<>>, <<T, <<"UInt8">>>>>>, <<"Variant", <<<<"String">>, T>>>>}
            \cup {<<word, names, <<T, <<"UInt8">>>>>> : word \in {"Tuple", "Nested"}, names \in NamePairs}
            \cup {<<"JSON", <<<<names[1], <<"UInt8">>>>, <<names[2], T>>>>, params>> :
                     names \in PathPairs, params \in JsonParams}
Grow ==
  /\ growth < MaxGrowth
  /\ tree' \in Within(tree)
  /\ growth' = growth + 1
  /\ UNCHANGED style

\* The text of a type, however its names are quoted and its characters escaped, is
\* read as the type it was written for: no element is split at a comma or a
\* parenthesis within a name, no name keeps or loses a backslash, a path that is
\* called SKIP is a path and a directive is none, and an enumeration that is not
\* one is refused (createCodec and the parsers it calls).
TypesParse == CodecOf(TypeText(tree)) = Meant(tree)
=============================================================================
