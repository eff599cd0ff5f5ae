------------------------------ MODULE Literals ------------------------------
(***************************************************************************)
(* The literals of query parameters: toLiteral and serializeLiteral of the *)
(* codecs, and how a server reads one back.  A character is <<code>>, its  *)
(* number; what is spelt without need of an escape (a number, a date, an   *)
(* address) is one token, its text.                                        *)
(***************************************************************************)
EXTENDS NativeCodecs
LOCAL INSTANCE Integers
LOCAL INSTANCE Sequences
LOCAL INSTANCE SequencesExt

SqlNull == <<"sqlnull">>
Lit(tokens) == <<"literal", tokens>>

Chars(codes) == [i \in DOMAIN codes |-> <<codes[i]>>]
Backslash == 92
Quote == 39
NullWord == Chars(<<78, 85, 76, 76>>)
NullEscape == Chars(<<Backslash, 78>>)
EscapeLetters == [c \in {9, 10, 13} |-> CASE c = 9 -> 116 [] c = 10 -> 110 [] c = 13 -> 114]

-----------------------------------------------------------------------------
(* Writing. *)

EscapeChar(c, escapeSingleQuote) ==
  CASE c \in DOMAIN EscapeLetters -> <<Backslash, EscapeLetters[c]>>
    [] c = Backslash \/ (c = Quote /\ escapeSingleQuote) -> <<Backslash, c>>
    [] OTHER -> <<c>>
EscapeString(codes, escapeSingleQuote) ==
  Chars(FlattenSeq([i \in DOMAIN codes |-> EscapeChar(codes[i], escapeSingleQuote)]))
Spelt(text, quoted) ==
  IF text[2] \in {"plain", "name"} THEN EscapeString(text[3], quoted) ELSE <<text>>

WrapQuoted(tokens, quoted) == IF quoted THEN Chars(<<Quote>>) \o tokens \o Chars(<<Quote>>) ELSE tokens
StringLiteral(text, quoted) == IF text = Error THEN Error ELSE Lit(WrapQuoted(Spelt(text, quoted), quoted))
Unquoted(text) == IF text = Error THEN Error ELSE Lit(<<text>>)
\* String(v) of what a converter returned
NumberLiteral(v) == IF v = Error THEN Error ELSE Unquoted(CoerceToString(v, MsPrecision))

EnumLiteral(T, v, quoted) ==
  LET n == ToEnumValue(T, v) IN IF n = Error THEN Error ELSE StringLiteral(EnumName(T, n[2]), quoted)

\* The bytes of a FixedString without the zeros at its end.
TrimmedBytes(bytes) ==
  SubSeq(bytes, 1, Max({0} \cup {i \in DOMAIN bytes : bytes[i] # 0}))
FixedText(v) == IF v[1] = "bytes" THEN Text("plain", TrimmedBytes(v[2])) ELSE CoerceToString(v, MsPrecision)

DecimalLiteral(T, v) == Unquoted(IF v[1] = "bigint" THEN Decimal(v[2], T[3]) ELSE ToValidDecimal(v))

\* Sign, seconds and padded fraction: the sign is the ticks', not the seconds'.
Fraction(ticks, p) == [i \in 1 .. p |-> Text("digit", (Magnitude(ticks) \div Ten ^ (p - i)) % Ten)]
FormatTicks(ticks, p) ==
  LET seconds == Magnitude(ticks) \div Ten ^ p
  IN Lit((IF ticks < 0 THEN <<Text("sign", "-")>> ELSE <<>>) \o <<Text("number", seconds)>>
           \o IF Magnitude(ticks) % Ten ^ p = 0 THEN <<>> ELSE <<Text("point", ".")>> \o Fraction(ticks, p))
TicksLiteral(p, v) ==
  CASE v[1] = "dt64" -> FormatTicks(v[2], p)
    [] v[1] = "date" -> FormatTicks(TicksOfMs(v[2], p), p)
    [] OTHER -> Unquoted(CoerceToString(v, MsPrecision))

\* A day or a second of an ISO string, cut off; a string as it is.
EpochLiteral(T, v) ==
  CASE v[1] = "text" -> Unquoted(v)
    [] v[1] \in {"date", "number", "fraction"} ->
         Unquoted(Text("date", (Truncated(v) \div Epochs[T[1]][3]) * Epochs[T[1]][3]))
    [] OTHER -> Error

ScalarLiteral(T, v, quoted) ==
  CASE T[1] = "Bool" -> IF ToBool(v) = Error THEN Error ELSE Unquoted(Text("bool", ToBool(v) = Number(1)))
    [] Numeric(T) /\ T[1] # "Bool" -> NumberLiteral(ConvertNumeric(T, v))
    [] T[1] \in DOMAIN BigInts -> NumberLiteral(CoerceBigInt(T, v))
    [] T[1] \in DOMAIN Epochs -> EpochLiteral(T, v)
    [] T[1] = "DateTime64" -> TicksLiteral(T[2], v)
    [] T[1] \in {"Enum8", "Enum16"} -> EnumLiteral(T, v, quoted)
    [] T[1] = "FixedString" -> StringLiteral(FixedText(v), quoted)
    [] T[1] \in {"UUID", "IPv4", "IPv6"} -> StringLiteral(FromScalar(T, v), quoted)
    [] T[1] = "Decimal" -> DecimalLiteral(T, v)
    [] OTHER -> StringLiteral(CoerceToString(v, MsPrecision), quoted)

\* Literals between brackets: nullToLiteral and join
LOCAL Word(literal) == IF literal = SqlNull THEN NullWord ELSE literal[2]
LOCAL Between(first, second) == IF first = <<>> THEN second ELSE first \o Chars(<<44, 32>>) \o second
Enclosed(open, literals, close) ==
  IF Contains(literals, Error) THEN Error
  ELSE Lit(Chars(<<open>>) \o FoldLeft(LAMBDA s, literal : Between(s, Word(literal)), <<>>, literals)
             \o Chars(<<close>>))
\* A key and its value.
Entry(key, value) == IF Error \in {key, value} THEN Error ELSE Lit(Word(key) \o Chars(<<58, 32>>) \o Word(value))

RECURSIVE ToLiteral(_, _, _)
ArrayLiteral(T, v) ==
  IF ~ArrayLike(v) THEN Error
  ELSE Enclosed(91, [i \in DOMAIN Elements(v) |-> ToLiteral(T[2], Elements(v)[i], TRUE)], 93)
LOCAL EntriesLiteral(T, entries) ==
  Enclosed(123, [i \in DOMAIN entries |-> Entry(ToLiteral(T[2], entries[i][1], TRUE),
                                                ToLiteral(T[3], entries[i][2], TRUE))], 125)
\* Pairs are taken apart unseen: one too short gives undefined, what one has in excess is left.
LOCAL LiteralEntries(v) ==
  CASE v[1] = "map" -> v[2]
    [] v[1] = "array" -> IF \A j \in DOMAIN v[2] : v[2][j][1] = "array"
                         THEN [j \in DOMAIN v[2] |-> <<Element(v[2][j], 1), Element(v[2][j], 2)>>] ELSE <<<<Error, Error>>>>
    [] OTHER -> Properties(v)
MapLiteral(T, v) == EntriesLiteral(T, LiteralEntries(v))
TupleLiteral(T, v) ==
  CASE v[1] = "array" -> Enclosed(40, [j \in DOMAIN T[3] |-> ToLiteral(T[3][j], Element(v, j), TRUE)], 41)
    [] v[1] # "array" /\ T[2] # <<>> /\ ~Primitive(v) ->
         Enclosed(40, [j \in DOMAIN T[3] |-> ToLiteral(T[3][j], Member(v, T[2][j]), TRUE)], 41)
    [] OTHER -> Error
LOCAL ArmLiteral(T, arm) ==
  IF arm = Error THEN Error ELSE ToLiteral(Arms(T)[arm[2] + 1], arm[3], FALSE)

LOCAL Given(T, v) == IF Nullish(v) THEN ZeroValue(T) ELSE v
ToLiteral(T, v, quoted) ==
  CASE T[1] = "Nullable" -> IF Nullish(v) THEN SqlNull ELSE ToLiteral(T[2], v, quoted)
    [] T[1] = "LowCardinality" -> ToLiteral(T[2], v, quoted)
    [] T[1] = "Variant" -> IF Nullish(v) THEN SqlNull ELSE ArmLiteral(T, Arm(T, v))
    [] T[1] = "Dynamic" -> IF Nullish(v) THEN SqlNull ELSE ToLiteral(DynamicType(v), DynamicContent(v), FALSE)
    [] T[1] = "Array" -> ArrayLiteral(T, Given(T, v))
    [] T[1] = "Map" -> MapLiteral(T, Given(T, v))
    [] T[1] = "Tuple" -> TupleLiteral(T, Given(T, v))
    [] OTHER -> ScalarLiteral(T, Given(T, v), quoted)

-----------------------------------------------------------------------------
(* Reading: what a server makes of a literal of a type, as a JavaScript    *)
(* value that denotes the same.                                            *)

LOCAL Rest(tokens, n) == SubSeq(tokens, n + 1, Len(tokens))
Begins(tokens, prefix) == IsPrefix(prefix, tokens)
IsChar(tokens, code) == Begins(tokens, Chars(<<code>>))
IsCode(token) == Len(token) = 1

LOCAL Unescape(c) ==
  IF \E e \in DOMAIN EscapeLetters : EscapeLetters[e] = c
  THEN CHOOSE e \in DOMAIN EscapeLetters : EscapeLetters[e] = c ELSE c
\* Characters up to a quote, or to the end.
RECURSIVE ReadChars(_, _, _)
ReadChars(tokens, quoted, read) ==
  CASE tokens = <<>> \/ (quoted /\ IsChar(tokens, Quote)) -> [text |-> read, rest |-> tokens]
    [] IsChar(tokens, Backslash) /\ Len(tokens) > 1 ->
         ReadChars(Rest(tokens, 2), quoted, Append(read, <<Unescape(tokens[2][1])>>))
    [] OTHER -> ReadChars(Tail(tokens), quoted, Append(read, tokens[1]))

\* Seconds and their fraction, in ticks.
LOCAL TicksRead(tokens, p) ==
  LET unsigned == IF tokens[1][2] = "sign" THEN Tail(tokens) ELSE tokens
      part(i) == IF i + 2 \in DOMAIN unsigned THEN unsigned[i + 2][3] * Ten ^ (p - i) ELSE 0
      ticks == FoldLeftDomain(LAMBDA sum, i : sum + part(i), unsigned[1][3] * Ten ^ p, [i \in 1 .. p |-> i])
  IN <<"dt64", IF unsigned = tokens THEN ticks ELSE -ticks, p>>
LOCAL TextRead(T, text) ==
  CASE T[1] = "DateTime64" -> IF text[1][2] = "date" THEN text[1] ELSE TicksRead(text, T[2])
    [] T[1] # "DateTime64" /\ Len(text) = 1 /\ ~IsCode(text[1]) -> text[1]
    [] OTHER -> Text(IF T[1] \in {"Enum8", "Enum16"} THEN "name" ELSE "plain", [i \in DOMAIN text |-> text[i][1]])

LOCAL Took(v, rest) == [value |-> v, rest |-> rest]
LOCAL TookChars(T, read, skip) == Took(TextRead(T, read.text), Rest(read.rest, skip))
\* Within brackets a text has quotes, or is one token.
ReadScalar(T, tokens, nested) ==
  CASE nested /\ IsChar(tokens, Quote) -> TookChars(T, ReadChars(Tail(tokens), TRUE, <<>>), 1)
    [] nested /\ ~IsChar(tokens, Quote) -> Took(TextRead(T, <<tokens[1]>>), Tail(tokens))
    [] OTHER -> TookChars(T, ReadChars(tokens, FALSE, <<>>), 0)

RECURSIVE ReadLiteral(_, _, _), ReadElements(_, _, _)
LOCAL MoreElements(types, one, read) == ReadElements(types, one.rest, Append(read, one.value))
\* The values up to a closing bracket, each of the type its place has.
ReadElements(types, tokens, read) ==
  CASE IsChar(tokens, 44) \/ IsChar(tokens, 58) -> ReadElements(types, Rest(tokens, 2), read)
    [] IsChar(tokens, 93) \/ IsChar(tokens, 125) \/ IsChar(tokens, 41) -> Took(read, Tail(tokens))
    [] OTHER -> MoreElements(types, ReadLiteral(types[(Len(read) % Len(types)) + 1], tokens, TRUE), read)
LOCAL Pairs(flat) == [i \in 1 .. Len(flat) \div 2 |-> <<flat[2 * i - 1], flat[2 * i]>>]
LOCAL Named(T, values) ==
  IF T[2] = <<>> THEN <<"array", values>> ELSE <<"object", [j \in DOMAIN values |-> <<T[2][j], values[j]>>]>>
LOCAL Shaped(T, elements) ==
  Took(CASE T[1] = "Map" -> <<"map", Pairs(elements.value)>>
         [] T[1] = "Tuple" -> Named(T, elements.value)
         [] OTHER -> <<"array", elements.value>>, elements.rest)
\* Whichever arm the literal fits: an array, a number, or a string.
LOCAL ReadAny(tokens) ==
  CASE tokens = NullEscape -> Took(Null, <<>>)
    [] IsChar(tokens, 91) -> ReadLiteral(<<"Array", <<"UInt8">>>>, tokens, FALSE)
    [] Len(tokens) = 1 /\ ~IsCode(tokens[1]) -> Took(BigInt(tokens[1][3]), <<>>)
    [] OTHER -> ReadScalar(<<"String">>, tokens, FALSE)
ReadLiteral(T, tokens, nested) ==
  CASE T[1] = "Nullable" -> IF nested /\ Begins(tokens, NullWord) THEN Took(Null, Rest(tokens, 4))
                            ELSE IF ~nested /\ tokens = NullEscape THEN Took(Null, <<>>)
                            ELSE ReadLiteral(T[2], tokens, nested)
    [] T[1] = "LowCardinality" -> ReadLiteral(T[2], tokens, nested)
    [] T[1] = "Variant" -> ReadAny(tokens)
    [] T[1] = "Array" -> Shaped(T, ReadElements(<<T[2]>>, Tail(tokens), <<>>))
    [] T[1] = "Map" -> Shaped(T, ReadElements(<<T[2], T[3]>>, Tail(tokens), <<>>))
    [] T[1] = "Tuple" -> Shaped(T, ReadElements(T[3], Tail(tokens), <<>>))
    [] OTHER -> ReadScalar(T, tokens, nested)
=============================================================================
