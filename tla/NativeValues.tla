---------------------------- MODULE NativeValues ----------------------------
(***************************************************************************)
(* The JavaScript values a column is made from, and what src/native/       *)
(* coercion.ts makes of them.  A value is a tuple that begins with its     *)
(* kind:                                                                   *)
(*    <<"number", n>>  <<"fraction", n>> (n + 1/2, for any number that is  *)
(*    not whole)  <<"bigint", n>>                                          *)
(*    <<"bool", b>>  <<"null">>  <<"undefined">>  <<"date", ms>>           *)
(*    <<"dt64", ticks, precision>>  <<"bytes", seq>>  <<"array", seq>>     *)
(*    <<"map", pairs>>  <<"object", pairs>>  <<"variant", d, value>>       *)
(*    <<"dynamic", type, value>>                                           *)
(* and a string is <<"text", form, content>>: what its characters denote   *)
(* (a number, a decimal number, a truth value, a date, an address, ...)    *)
(* stands for the characters.  Integers are scaled down: a byte has        *)
(* ByteBits bits, and the largest safe integer is SafeInteger.             *)
(***************************************************************************)
LOCAL INSTANCE Integers
LOCAL INSTANCE Sequences

CONSTANTS ByteBits,        \* bits in a byte (8)
          SafeInteger,     \* Number.MAX_SAFE_INTEGER
          Ten              \* the base of decimal digits (10)

ASSUME NumberAssumption == ByteBits \in Nat \ {0} /\ SafeInteger \in Nat /\ Ten \in Nat \ {0, 1}

Error == <<"error">>       \* stands for an exception
Null == <<"null">>
Undefined == <<"undefined">>
Number(n) == <<"number", n>>
BigInt(n) == <<"bigint", n>>
Text(form, content) == <<"text", form, content>>
EmptyText == Text("plain", <<>>)

Nullish(v) == v[1] \in {"null", "undefined"}
IsText(v, form) == v[1] = "text" /\ v[2] = form

Magnitude(n) == IF n < 0 THEN -n ELSE n
\* BigInt division, toward zero
Quotient(m, n) == IF m < 0 THEN -((-m) \div n) ELSE m \div n
\* Math.trunc
Truncated(v) == IF v[1] = "fraction" /\ v[2] < 0 THEN v[2] + 1 ELSE v[2]

\* A decimal number is its digits and how many of them are behind the point.
Decimal(digits, places) ==
  IF places = 0 THEN Text("number", digits) ELSE Text("decimal", <<digits, places>>)

\* What integers of some bytes reach.
Least(bytes, signed) == IF signed THEN -(2 ^ (bytes * ByteBits - 1)) ELSE 0
Greatest(bytes, signed) == 2 ^ (bytes * ByteBits - (IF signed THEN 1 ELSE 0)) - 1

-----------------------------------------------------------------------------

ToNumber(v) ==
  CASE v[1] \in {"number", "fraction"} -> v
    [] v[1] = "bool" -> Number(IF v[2] THEN 1 ELSE 0)
    [] v[1] \in {"bigint", "date"} -> Number(v[2])
    [] Nullish(v) -> Number(0)
    [] IsText(v, "number") -> Number(v[3])
    [] IsText(v, "decimal") -> <<IF v[3][1] % Ten ^ v[3][2] = 0 THEN "number" ELSE "fraction",
                                 v[3][1] \div Ten ^ v[3][2]>>
    [] OTHER -> Error

ToBigInt(v) ==
  CASE v[1] = "bigint" -> v
    [] v[1] = "bool" -> BigInt(IF v[2] THEN 1 ELSE 0)
    [] v[1] \in {"number", "fraction"} -> BigInt(Truncated(v))
    [] v[1] = "date" -> BigInt(v[2])
    [] Nullish(v) -> BigInt(0)
    [] IsText(v, "number") -> BigInt(v[3])
    [] OTHER -> Error

InRange(v, least, greatest) == IF v[2] \in least .. greatest THEN v ELSE Error

ToIntInRange(v, least, greatest) ==
  LET n == ToNumber(v)
  IN IF n[1] = "number" THEN InRange(n, least, greatest) ELSE Error

ToBigIntInRange(v, least, greatest) ==
  LET n == ToBigInt(v)
      exact == v[1] = "number" => Magnitude(v[2]) <= SafeInteger
  IN IF v[1] # "fraction" /\ exact /\ n # Error THEN InRange(n, least, greatest) ELSE Error

ToBool(v) ==
  CASE v[1] = "bool" \/ IsText(v, "bool") -> Number(IF v[Len(v)] THEN 1 ELSE 0)
    [] v[1] \in {"number", "fraction"} -> Number(IF v = Number(0) THEN 0 ELSE 1)
    [] Nullish(v) -> Number(0)
    [] IsText(v, "number") /\ v[3] \in {0, 1} -> Number(v[3])
    [] OTHER -> Error

\* The milliseconds of ticks, cut off: toClosestDate without its clamp
ClosestMs(v, msPrecision) ==
  IF v[3] >= msPrecision THEN Quotient(v[2], Ten ^ (v[3] - msPrecision))
  ELSE v[2] * Ten ^ (msPrecision - v[3])

CoerceToString(v, msPrecision) ==
  CASE v[1] = "text" -> v
    [] Nullish(v) -> EmptyText
    [] v[1] = "date" -> Text("date", v[2])
    [] v[1] = "dt64" -> Text("date", ClosestMs(v, msPrecision))
    [] v[1] \in {"number", "bigint"} -> Text("number", v[2])
    [] v[1] = "fraction" -> Decimal(v[2] * Ten + Ten \div 2, 1)
    [] v[1] = "bool" -> Text("bool", v[2])
    [] OTHER -> Text("json", v)

\* new Date(v), for what has a date
ToValidDate(v) == IF IsText(v, "date") THEN <<"date", v[3]>> ELSE Error

\* toValidIPv4, toValidIPv6, toValidUUID: a string of the form, or none for null
ToValid(form, none, v) ==
  IF Nullish(v) THEN Text(form, none) ELSE IF IsText(v, form) THEN v ELSE Error

ToValidDecimal(v) ==
  CASE Nullish(v) -> Decimal(0, 0)
    [] v[1] \in {"bigint", "number"} -> Decimal(v[2], 0)
    [] v[1] = "fraction" -> Decimal(v[2] * Ten + Ten \div 2, 1)
    [] IsText(v, "number") \/ IsText(v, "decimal") -> v
    [] OTHER -> Error

\* parseDecimalToScaledBigInt: zeros beyond the scale may go, other digits may not
Scaled(text, scale) ==
  LET digits == IF text[2] = "number" THEN text[3] ELSE text[3][1]
      places == IF text[2] = "number" THEN 0 ELSE text[3][2]
      excess == Ten ^ (places - scale)
  IN IF places <= scale THEN BigInt(digits * Ten ^ (scale - places))
     ELSE IF digits % excess = 0 THEN BigInt(digits \div excess) ELSE Error

ArrayLike(v) == v[1] \in {"array", "bytes"}
Elements(v) == IF v[1] = "bytes" THEN [i \in DOMAIN v[2] |-> Number(v[2][i])] ELSE v[2]
=============================================================================
