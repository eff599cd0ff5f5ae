---------------------------- MODULE ScalarCodecs ----------------------------
(***************************************************************************)
(* The codecs of types without parts, src/native/codecs/scalar.ts: what    *)
(* fromValues keeps of a JavaScript value, and what encode and decode make *)
(* of it.  On the wire a value is tokens <<width in bytes, bit pattern>>,  *)
(* a string the token <<0, text>>.  A type is a tuple that begins with its *)
(* name and goes on with its arguments.                                    *)
(***************************************************************************)
EXTENDS NativeValues
LOCAL INSTANCE Integers
LOCAL INSTANCE Sequences
LOCAL INSTANCE SequencesExt
LOCAL INSTANCE FiniteSetsExt

CONSTANTS MsPerSecond, MsPerDay,
          MsPrecision,     \* the precision whose tick is a millisecond (3)
          UuidHalf,        \* bytes in half of a UUID (8)
          Ipv6Groups,      \* groups of two bytes in an IPv6 address (8)
          DecimalDigits    \* most digits of a Decimal of 4, 8 and 16 bytes

Refusal == <<-1, 0>>       \* a token that stands for an exception of encode

Octet == 2 ^ ByteBits
Pattern(n, bytes) == n % 2 ^ (bytes * ByteBits)
Signed(pattern, bytes) ==
  IF pattern > Greatest(bytes, TRUE) THEN pattern - 2 ^ (bytes * ByteBits) ELSE pattern

-----------------------------------------------------------------------------
(* What the registry knows of each type. *)

Numerics == [Int8 |-> <<1, TRUE>>, UInt8 |-> <<1, FALSE>>, Int16 |-> <<2, TRUE>>, UInt16 |-> <<2, FALSE>>,
             Int32 |-> <<4, TRUE>>, UInt32 |-> <<4, FALSE>>, Int64 |-> <<8, TRUE>>, UInt64 |-> <<8, FALSE>>,
             Float32 |-> <<4, TRUE>>, Float64 |-> <<8, TRUE>>, Bool |-> <<1, FALSE>>]
BigInts == [Int128 |-> <<2, TRUE>>, UInt128 |-> <<2, FALSE>>, Int256 |-> <<4, TRUE>>, UInt256 |-> <<4, FALSE>>]
Epochs == [Date |-> <<2, FALSE, MsPerDay>>, Date32 |-> <<4, TRUE, MsPerDay>>,
           DateTime |-> <<4, FALSE, MsPerSecond>>]
Floats == {"Float32", "Float64"}

Numeric(T) == T[1] \in DOMAIN Numerics
Wide(T) == T[1] \in {"Int64", "UInt64"}    \* kept in a BigInt64Array or BigUint64Array

Smaller(m, n) == IF m <= n THEN m ELSE n
DecimalBytes(T) ==
  CASE T[2] <= DecimalDigits[1] -> 4
    [] T[2] > DecimalDigits[1] /\ T[2] <= DecimalDigits[2] -> 8
    [] T[2] > DecimalDigits[2] /\ T[2] <= DecimalDigits[3] -> 16
    [] OTHER -> 32
DecimalMax(T) == Smaller(Greatest(DecimalBytes(T), TRUE), Ten ^ T[2] - 1)

\* An enumeration's names and numbers: T[2] is a sequence of pairs.
EnumBytes(T) == IF T[1] = "Enum8" THEN 1 ELSE 2
EnumValues(T) == {pair[2] : pair \in ToSet(T[2])}
EnumDefault(T) == Min(EnumValues(T))
EnumName(T, n) ==
  IF n \in EnumValues(T) THEN (CHOOSE pair \in ToSet(T[2]) : pair[2] = n)[1] ELSE Error

ZeroScalar(T) ==
  CASE Numeric(T) -> Number(0)
    [] T[1] \in DOMAIN BigInts -> BigInt(0)
    [] T[1] \in DOMAIN Epochs \/ T[1] = "DateTime64" -> <<"date", 0>>
    [] T[1] \in {"Enum8", "Enum16"} -> Number(EnumDefault(T))
    [] T[1] = "FixedString" -> <<"bytes", [i \in 1 .. T[2] |-> 0]>>
    [] T[1] = "UUID" -> ToValid("uuid", [i \in 1 .. 2 * UuidHalf |-> 0], Null)
    [] T[1] = "IPv4" -> ToValid("ipv4", <<0, 0, 0, 0>>, Null)
    [] T[1] = "IPv6" -> ToValid("ipv6", <<<<>>, <<>>>>, Null)
    [] T[1] = "Decimal" -> Decimal(0, T[3])
    [] OTHER -> EmptyText

-----------------------------------------------------------------------------
(* One operator for each codec's coercion. *)

ConvertNumeric(T, v) ==
  LET bytes == Numerics[T[1]][1]
      signed == Numerics[T[1]][2]
  IN CASE T[1] = "Bool" -> ToBool(v)
       [] T[1] \in Floats -> ToNumber(v)
       [] Wide(T) -> ToBigIntInRange(v, Least(bytes, signed), Greatest(bytes, signed))
       [] OTHER -> ToIntInRange(v, Least(bytes, signed), Greatest(bytes, signed))

CoerceBigInt(T, v) ==
  LET words == BigInts[T[1]][1]
      signed == BigInts[T[1]][2]
  IN ToBigIntInRange(v, Least(8 * words, signed), Greatest(8 * words, signed))

\* toEnumValue
ToEnumValue(T, v) ==
  CASE Nullish(v) -> Number(EnumDefault(T))
    [] IsText(v, "name") -> IF \E pair \in ToSet(T[2]) : pair[1] = v
                            THEN Number((CHOOSE pair \in ToSet(T[2]) : pair[1] = v)[2]) ELSE Error
    [] v[1] \in {"number", "bigint"} -> IF v[2] \in EnumValues(T) THEN Number(v[2]) ELSE Error
    [] OTHER -> Error

Padded(bytes, n) == [i \in 1 .. n |-> IF i \in DOMAIN bytes THEN bytes[i] ELSE 0]

ToFixed(n, v) ==
  CASE Nullish(v) -> <<"bytes", Padded(<<>>, n)>>
    [] v[1] = "bytes" /\ Len(v[2]) = n -> v
    [] IsText(v, "plain") /\ Len(v[3]) <= n -> <<"bytes", Padded(v[3], n)>>
    [] OTHER -> Error

ToDate(v) ==
  CASE v[1] = "date" -> v
    [] v[1] \in {"number", "fraction"} -> <<"date", Truncated(v)>>
    [] v[1] = "text" -> ToValidDate(v)
    [] Nullish(v) -> <<"date", 0>>
    [] OTHER -> Error

TicksOfMs(ms, p) ==
  IF p >= MsPrecision THEN ms * Ten ^ (p - MsPrecision) ELSE Quotient(ms, Ten ^ (MsPrecision - p))

CoerceToTicks(p, v) ==
  LET wide(n) == ToBigIntInRange(BigInt(n), Least(8, TRUE), Greatest(8, TRUE))
      fromMs(n) == wide(TicksOfMs(n, p))
  IN CASE v[1] = "dt64" -> IF v[3] = p THEN wide(v[2]) ELSE Error
       [] v[1] = "bigint" -> wide(v[2])
       [] v[1] = "date" -> fromMs(v[2])
       [] v[1] \in {"number", "fraction"} ->
            IF Magnitude(Truncated(v)) <= SafeInteger THEN fromMs(Truncated(v)) ELSE Error
       [] v[1] = "text" -> IF ToValidDate(v) = Error THEN Error ELSE fromMs(v[3])
       [] Nullish(v) -> BigInt(0)
       [] OTHER -> Error

ToTicks(T, v) ==
  LET ticks == CoerceToTicks(T[2], v) IN IF ticks = Error THEN Error ELSE <<"dt64", ticks[2], T[2]>>
\* A bigint is the digits themselves.
ToDecimal(T, v) == IF v[1] = "bigint" THEN Decimal(v[2], T[3]) ELSE ToValidDecimal(v)

\* What fromValues keeps of a value, or that it throws.
FromScalar(T, v) ==
  CASE Numeric(T) -> ConvertNumeric(T, v)
    [] T[1] \in DOMAIN BigInts -> CoerceBigInt(T, v)
    [] T[1] \in DOMAIN Epochs -> ToDate(v)
    [] T[1] = "DateTime64" -> ToTicks(T, v)
    [] T[1] \in {"Enum8", "Enum16"} -> ToEnumValue(T, v)
    [] T[1] = "FixedString" -> ToFixed(T[2], v)
    [] T[1] = "UUID" -> ToValid("uuid", [i \in 1 .. 2 * UuidHalf |-> 0], v)
    [] T[1] = "IPv4" -> ToValid("ipv4", <<0, 0, 0, 0>>, v)
    [] T[1] = "IPv6" -> ToValid("ipv6", <<<<>>, <<>>>>, v)
    [] T[1] = "Decimal" -> ToDecimal(T, v)
    [] OTHER -> CoerceToString(v, MsPrecision)

\* How get shows what a column keeps: an enumeration's number by its name
Shown(T, v) == IF T[1] \in {"Enum8", "Enum16"} THEN EnumName(T, v[2]) ELSE v

-----------------------------------------------------------------------------
(* Bytes. *)

\* writeBigInt128, writeBigInt256: words of 8 bytes, the lowest first
BigIntTokens(n, words) == [i \in 1 .. words |-> <<8, Pattern(n \div 2 ^ (8 * ByteBits * (i - 1)), 8)>>]
BigIntOf(patterns, signed) ==
  LET top == Len(patterns)
      high == IF signed THEN Signed(patterns[top], 8) ELSE patterns[top]
      add(sum, i) == sum + (IF i = top THEN high ELSE patterns[i]) * 2 ^ (8 * ByteBits * (i - 1))
  IN FoldLeftDomain(add, 0, patterns)

IntegerTokens(n, bytes) == IF bytes <= 8 THEN <<<<bytes, Pattern(n, bytes)>>>> ELSE BigIntTokens(n, bytes \div 8)
ByteTokens(bytes) == [i \in DOMAIN bytes |-> <<1, bytes[i]>>]

\* Each half of a UUID is a little-endian number.
Halves(bytes) == Reverse(SubSeq(bytes, 1, UuidHalf)) \o Reverse(SubSeq(bytes, UuidHalf + 1, 2 * UuidHalf))

Ipv4Number(octets) == FoldLeft(LAMBDA n, octet : n * Octet + octet, 0, octets)
Ipv4Octets(n) == [i \in 1 .. 4 |-> (n \div Octet ^ (4 - i)) % Octet]

\* ipv6ToBytes: <<groups>> in full, <<left, right>> around a "::"
Ipv6Filled(parts) ==
  LET missing == Ipv6Groups - Len(parts[1]) - Len(parts[2])
  IN parts[1] \o [i \in 1 .. missing |-> 0] \o parts[2]
Ipv6Valid(parts) ==
  IF Len(parts) = 1 THEN Len(parts[1]) = Ipv6Groups
  ELSE Len(parts[1]) + Len(parts[2]) < Ipv6Groups
Ipv6Bytes(parts) ==
  LET groups == IF Len(parts) = 1 THEN parts[1] ELSE Ipv6Filled(parts)
  IN FlattenSeq([i \in DOMAIN groups |-> <<groups[i] \div Octet, groups[i] % Octet>>])

\* encode of each codec, which coerces again what a column keeps.
Unless(error, v, tokens) == IF v = error THEN <<Refusal>> ELSE tokens

FloatPattern(v) == 2 * v[2] + (IF v[1] = "fraction" THEN 1 ELSE 0)
NumericTokens(T, kept) ==
  LET v == ConvertNumeric(T, kept)
      bytes == Numerics[T[1]][1]
  IN Unless(Error, v, IF T[1] \in Floats THEN <<<<bytes, FloatPattern(v)>>>> ELSE IntegerTokens(v[2], bytes))
WideTokens(T, kept) == LET v == CoerceBigInt(T, kept) IN Unless(Error, v, BigIntTokens(v[2], BigInts[T[1]][1]))
EnumTokens(T, kept) == IntegerTokens(kept[2], EnumBytes(T))
FixedTokens(T, kept) == LET v == ToFixed(T[2], kept) IN Unless(Error, v, ByteTokens(v[2]))
UuidTokens(kept) ==
  LET v == ToValid("uuid", [i \in 1 .. 2 * UuidHalf |-> 0], kept) IN Unless(Error, v, ByteTokens(Halves(v[3])))
Ipv4Tokens(kept) ==
  LET v == ToValid("ipv4", <<0, 0, 0, 0>>, kept) IN Unless(Error, v, <<<<4, Ipv4Number(v[3])>>>>)
Ipv6Tokens(kept) ==
  LET v == ToValid("ipv6", <<<<>>, <<>>>>, kept)
  IN Unless(Error, v, IF Ipv6Valid(v[3]) THEN ByteTokens(Ipv6Bytes(v[3])) ELSE <<Refusal>>)
DecimalTokens(T, kept) ==
  LET scaled == IF kept[1] = "bigint" THEN kept ELSE Scaled(ToValidDecimal(kept), T[3])
      fits == scaled # Error /\ Magnitude(scaled[2]) <= DecimalMax(T)
  IN IF fits THEN IntegerTokens(scaled[2], DecimalBytes(T)) ELSE <<Refusal>>
TickTokens(T, kept) == LET v == CoerceToTicks(T[2], kept) IN Unless(Error, v, IntegerTokens(v[2], 8))
\* Whole days or seconds, rounded down, within the width of the type.
EpochTokens(T, kept) ==
  LET v == ToDate(kept)
      bytes == Epochs[T[1]][1]
      units == v[2] \div Epochs[T[1]][3]
      fits == units \in Least(bytes, Epochs[T[1]][2]) .. Greatest(bytes, Epochs[T[1]][2])
  IN Unless(Error, v, IF fits THEN IntegerTokens(units, bytes) ELSE <<Refusal>>)
StringTokens(kept) == <<<<0, CoerceToString(kept, MsPrecision)>>>>

ScalarTokens(T, kept) ==
  CASE Numeric(T) -> NumericTokens(T, kept)
    [] T[1] \in DOMAIN BigInts -> WideTokens(T, kept)
    [] T[1] \in DOMAIN Epochs -> EpochTokens(T, kept)
    [] T[1] = "DateTime64" -> TickTokens(T, kept)
    [] T[1] \in {"Enum8", "Enum16"} -> EnumTokens(T, kept)
    [] T[1] = "FixedString" -> FixedTokens(T, kept)
    [] T[1] = "UUID" -> UuidTokens(kept)
    [] T[1] = "IPv4" -> Ipv4Tokens(kept)
    [] T[1] = "IPv6" -> Ipv6Tokens(kept)
    [] T[1] = "Decimal" -> DecimalTokens(T, kept)
    [] OTHER -> StringTokens(kept)

\* The widths of the tokens of one value.
ScalarWidths(T) ==
  LET times(n, width) == [i \in 1 .. n |-> width]
      whole(bytes) == IF bytes <= 8 THEN <<bytes>> ELSE times(bytes \div 8, 8)
  IN CASE Numeric(T) -> <<Numerics[T[1]][1]>>
       [] T[1] \in DOMAIN BigInts -> times(BigInts[T[1]][1], 8)
       [] T[1] \in DOMAIN Epochs -> <<Epochs[T[1]][1]>>
       [] T[1] = "DateTime64" -> <<8>>
       [] T[1] \in {"Enum8", "Enum16"} -> <<EnumBytes(T)>>
       [] T[1] = "FixedString" -> times(T[2], 1)
       [] T[1] = "UUID" -> times(2 * UuidHalf, 1)
       [] T[1] = "IPv4" -> <<4>>
       [] T[1] = "IPv6" -> times(2 * Ipv6Groups, 1)
       [] T[1] = "Decimal" -> whole(DecimalBytes(T))
       [] OTHER -> <<0>>

\* decode of each codec, from the patterns of one value's tokens.
SignedOf(patterns, bytes) ==
  IF Len(patterns) = 1 THEN Signed(patterns[1], bytes) ELSE BigIntOf(patterns, TRUE)

NumericOf(T, patterns) ==
  LET first == patterns[1]
      integer == IF Numerics[T[1]][2] THEN Signed(first, Numerics[T[1]][1]) ELSE first
  IN IF T[1] \in Floats THEN (IF first % 2 = 1 THEN <<"fraction", first \div 2>> ELSE Number(first \div 2))
     ELSE IF Wide(T) THEN BigInt(integer) ELSE Number(integer)
WideOf(T, patterns) == BigInt(BigIntOf(patterns, BigInts[T[1]][2]))
EnumOf(T, patterns) == Number(Signed(patterns[1], EnumBytes(T)))
FixedOf(patterns) == <<"bytes", patterns>>
UuidOf(patterns) == Text("uuid", Halves(patterns))
Ipv4Of(patterns) == Text("ipv4", Ipv4Octets(patterns[1]))
Ipv6Of(patterns) ==
  Text("ipv6", <<[i \in 1 .. Ipv6Groups |-> patterns[2 * i - 1] * Octet + patterns[2 * i]]>>)
DecimalOf(T, patterns) == Decimal(SignedOf(patterns, DecimalBytes(T)), T[3])
TicksOf(T, patterns) == <<"dt64", Signed(patterns[1], 8), T[2]>>
EpochOf(T, patterns) ==
  LET epoch == Epochs[T[1]]
  IN <<"date", (IF epoch[2] THEN Signed(patterns[1], epoch[1]) ELSE patterns[1]) * epoch[3]>>
StringOf(patterns) == patterns[1]

ScalarOf(T, patterns) ==
  CASE Numeric(T) -> NumericOf(T, patterns)
    [] T[1] \in DOMAIN BigInts -> WideOf(T, patterns)
    [] T[1] \in DOMAIN Epochs -> EpochOf(T, patterns)
    [] T[1] = "DateTime64" -> TicksOf(T, patterns)
    [] T[1] \in {"Enum8", "Enum16"} -> EnumOf(T, patterns)
    [] T[1] = "FixedString" -> FixedOf(patterns)
    [] T[1] = "UUID" -> UuidOf(patterns)
    [] T[1] = "IPv4" -> Ipv4Of(patterns)
    [] T[1] = "IPv6" -> Ipv6Of(patterns)
    [] T[1] = "Decimal" -> DecimalOf(T, patterns)
    [] OTHER -> StringOf(patterns)
=============================================================================
