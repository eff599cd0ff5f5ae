---------------------------- MODULE NativeCodecs ----------------------------
(***************************************************************************)
(* The codecs of src/native/codecs: composite.ts, dynamic.ts, and what all *)
(* of them share in base.ts.  Every codec turns JavaScript values into a   *)
(* column (FromValues), a column into the tokens of its prefix and its     *)
(* data (Prefix, Encode), and tokens back into a column (ReadPrefix,       *)
(* Decode).  The prefixes of a column all come before its data, so what    *)
(* ReadPrefix finds is kept in a tree beside the tree of serialization     *)
(* kinds, and Decode finds its own part of both by position.               *)
(*                                                                         *)
(* An exception of the encoder is the token Refusal; one of the decoder    *)
(* leaves a broken reader, from which nothing more is read.                *)
(***************************************************************************)
EXTENDS Columns
LOCAL INSTANCE Integers
LOCAL INSTANCE Sequences
LOCAL INSTANCE SequencesExt
LOCAL INSTANCE FiniteSetsExt

CONSTANTS ByteOrder,       \* names, in the order of their bytes
          DictMax,         \* largest dictionaries with indices of 1 and 2 bytes (255, 65535)
          IndexMax,        \* most indices of 1 and 2 bytes (256, 65536)
          EndFlag          \* Sparse.END_OF_GRANULE_FLAG (2^62)

LOCAL Place(name) == CHOOSE i \in DOMAIN ByteOrder : ByteOrder[i] = name
LOCAL Sorted(S, name(_)) == SetToSortSeq(S, LAMBDA a, b : Place(name(a)) < Place(name(b)))

-----------------------------------------------------------------------------
(* Types. *)

Unsparse == {"Variant", "Dynamic", "JSON"}       \* codecs that are no BaseCodec

\* (a mutation: the arms as they are declared)
ArmsDeclared(T) == T[2]

\* The server orders the arms of a Variant and the paths of a JSON by their bytes;
\* they are told apart by position alone.
Arms(T) == Sorted(ToSet(T[2]), LAMBDA arm : arm[1])
TypedPaths(T) == Sorted(ToSet(T[2]), LAMBDA path : path[1])
PathNames(T) == [j \in DOMAIN T[2] |-> TypedPaths(T)[j][1]]

DictType(T) == IF T[2][1] = "Nullable" THEN T[2][2] ELSE T[2]
NullableDict(T) == T[2][1] = "Nullable"

\* The types a codec forwards to, as far as the type tells.
Inner(T) ==
  CASE T[1] \in {"Nullable", "Array", "LowCardinality"} -> <<T[2]>>
    [] T[1] = "Map" -> <<T[2], T[3]>>
    [] T[1] = "Tuple" -> T[3]
    [] T[1] = "Variant" -> Arms(T)
    [] T[1] = "JSON" -> [j \in DOMAIN T[2] |-> TypedPaths(T)[j][2]]
    [] OTHER -> <<>>

RECURSIVE ZeroValue(_)
ZeroValue(T) ==
  CASE T[1] \in {"Nullable", "Variant", "Dynamic"} -> Null
    [] T[1] \in {"Array", "Tuple"} -> <<"array", <<>>>>
    [] T[1] = "Map" -> <<"map", <<>>>>
    [] T[1] = "JSON" -> <<"object", <<>>>>
    [] T[1] = "LowCardinality" -> ZeroValue(T[2])
    [] OTHER -> ZeroScalar(T)

-----------------------------------------------------------------------------
(* From JavaScript values to columns. *)

Offsets(lists) ==
  LET add(sums, list) == Append(sums, Offset(Len(list) + (IF sums = <<>> THEN 0 ELSE Last(sums)[2])))
  IN FoldLeft(add, <<>>, lists)
\* What typeof does not call an object.
Primitive(v) == v[1] \in {"number", "fraction", "bigint", "bool", "text"}

\* The own enumerable properties of a value, with their names.
Properties(v) ==
  CASE v[1] = "object" -> [j \in DOMAIN v[2] |-> <<Text("name", v[2][j][1]), v[2][j][2]>>]
    [] v[1] = "bytes" -> [j \in DOMAIN v[2] |-> <<Text("number", j - 1), Number(v[2][j])>>]
    [] v[1] = "dt64" -> <<<<Text("name", "ticks"), BigInt(v[2])>>, <<Text("name", "precision"), Number(v[3])>>,
                          <<Text("name", "pow"), BigInt(Ten ^ Magnitude(v[3] - MsPrecision))>>>>
    [] v[1] = "variant" -> <<<<Text("name", "discriminator"), Number(v[2])>>, <<Text("name", "value"), v[3]>>>>
    [] v[1] = "dynamic" -> <<<<Text("name", "type"), Text("type", v[2])>>, <<Text("name", "value"), v[3]>>>>
    [] OTHER -> <<>>

\* The entries of a Map, of an array of pairs, or of an object.
Pair(v) == v[1] = "array" /\ Len(v[2]) = 2
EntriesOf(v) ==
  CASE Nullish(v) -> <<>>
    [] v[1] = "map" -> v[2]
    [] v[1] = "array" -> IF \A j \in DOMAIN v[2] : Pair(v[2][j])
                         THEN [j \in DOMAIN v[2] |-> v[2][j][2]] ELSE <<<<Error, Error>>>>
    [] OTHER -> IF Primitive(v) THEN <<<<Error, Error>>>> ELSE Properties(v)

\* obj[name]
Member(v, name) ==
  IF v[1] = "object" /\ \E j \in DOMAIN v[2] : v[2][j][1] = name
  THEN v[2][CHOOSE j \in DOMAIN v[2] : v[2][j][1] = name][2] ELSE Undefined
Element(v, j) == IF j \in DOMAIN v[2] THEN v[2][j] ELSE Undefined

TupleFits(T, v) == Nullish(v) \/ IF T[2] = <<>> THEN v[1] = "array" ELSE ~Primitive(v)

\* findVariantIndex, and the cache of arms by typeof that is kept in step with it
Matches(arm, v) ==
  \/ arm[1] = "String" /\ v[1] = "text"
  \/ arm[1] \in {"Int64", "UInt64"} /\ v[1] = "bigint"
  \/ /\ v[1] \in {"number", "fraction"}
     /\ arm[1] \in ((DOMAIN Numerics \cup DOMAIN BigInts) \ {"Bool"})
  \/ arm[1] = "Bool" /\ v[1] = "bool"
  \/ arm[1] \in {"Date", "DateTime", "DateTime64"} /\ v[1] = "date"
  \/ arm[1] = "Array" /\ v[1] = "array"
  \/ arm[1] = "Map" /\ ~Primitive(v)
Arm(T, v) ==
  LET fits == {d \in DOMAIN Arms(T) : Matches(Arms(T)[d], v)}
  IN CASE v[1] = "variant" /\ v[2] + 1 \in DOMAIN Arms(T) -> <<"arm", v[2], v[3]>>
       [] v[1] # "variant" /\ fits # {} -> <<"arm", Min(fits) - 1, v>>
       [] OTHER -> Error

RECURSIVE GuessType(_)
GuessType(v) ==
  CASE v[1] \in {"text", "null", "undefined"} -> <<"String">>
    [] v[1] \in {"number", "bigint"} -> <<"Int64">>
    [] v[1] = "fraction" -> <<"Float64">>
    [] v[1] = "bool" -> <<"Bool">>
    [] v[1] = "date" -> <<"DateTime64", MsPrecision>>
    [] v[1] = "array" -> <<"Array", IF v[2] = <<>> THEN <<"String">> ELSE GuessType(v[2][1])>>
    [] OTHER -> <<"Map", <<"String">>, <<"String">>>>
DynamicType(v) == IF v[1] = "dynamic" THEN v[2] ELSE GuessType(v)
DynamicContent(v) == IF v[1] = "dynamic" THEN v[3] ELSE v

\* The distinct members of a sequence, in the order in which they come.
Distinct(s) == FoldLeft(LAMBDA seen, e : IF Contains(seen, e) THEN seen ELSE Append(seen, e), <<>>, s)
Index(s, e) == CHOOSE i \in DOMAIN s : s[i] = e

\* A group of rows becomes a column when it has any.
RECURSIVE FromValues(_, _)
GroupColumns(types, values) ==
  [d \in DOMAIN types |-> IF values[d] = <<>> THEN NoColumn ELSE FromValues(types[d], values[d])]

VariantFrom(T, values) ==
  LET arm == [i \in DOMAIN values |-> IF Nullish(values[i]) THEN <<"arm", NullArm>> ELSE Arm(T, values[i])]
      content(d) == [j \in DOMAIN SelectSeq(arm, LAMBDA a : a[2] = d - 1) |->
                       SelectSeq(arm, LAMBDA a : a[2] = d - 1)[j][3]]
  IN IF Contains(arm, Error) THEN Thrown(T)
     ELSE Column("variant", T, [i \in DOMAIN values |-> Disc(arm[i][2])],
                 GroupColumns(Arms(T), [d \in DOMAIN Arms(T) |-> content(d)]), <<>>)

\* DynamicCodec.fromSparse: values[j] belongs to row places[j], other rows are null
DynamicFrom(places, values, rows) ==
  LET whole == SelectSeq(values, LAMBDA v : ~Nullish(v))
      types == Distinct([j \in DOMAIN whole |-> DynamicType(whole[j])])
      disc(v) == IF Nullish(v) THEN Disc(Len(types)) ELSE Disc(Index(types, DynamicType(v)) - 1)
      content(d) == [j \in DOMAIN SelectSeq(whole, LAMBDA v : DynamicType(v) = types[d]) |->
                       DynamicContent(SelectSeq(whole, LAMBDA v : DynamicType(v) = types[d])[j])]
  IN Column("dynamic", <<"Dynamic">>,
            [i \in 1 .. rows |-> IF Contains(places, i) THEN disc(values[Index(places, i)])
                                 ELSE Disc(Len(types))],
            GroupColumns(types, [d \in DOMAIN types |-> content(d)]), types)

Identity(n) == [j \in 1 .. n |-> j]
JsonFits(v) == v[1] # "array"
Keys(v) == IF v[1] = "object" THEN [j \in DOMAIN v[2] |-> v[2][j][1]] ELSE <<>>

\* assembleColumn: the typed paths, then the others, each in their order
JsonColumn(T, typed, paths, column, rows) ==
  LET others == Sorted(paths, LAMBDA path : path)
  IN Column("json", T, <<Offset(rows)>>,
            typed \o [j \in DOMAIN others |-> column[others[j]]], PathNames(T) \o others)

JsonFrom(T, values) ==
  LET n == Len(values)
      typed(j) == [i \in 1 .. n |-> LET v == Member(values[i], TypedPaths(T)[j][1])
                                    IN IF v = Undefined THEN Null ELSE v]
      others == UNION {ToSet(Keys(values[i])) : i \in 1 .. n} \ ToSet(PathNames(T))
      places(path) == SelectSeq(Identity(n), LAMBDA i : Contains(Keys(values[i]), path))
      sparse == [path \in others |->
                   DynamicFrom(places(path),
                               [j \in DOMAIN places(path) |-> Member(values[places(path)[j]], path)], n)]
  IN IF \A i \in 1 .. n : JsonFits(values[i])
     THEN JsonColumn(T, [j \in DOMAIN T[2] |-> FromValues(TypedPaths(T)[j][2], typed(j))], others, sparse, n)
     ELSE Thrown(T)

\* JsonCodec.fromCols, with an array of values for each path: pairs <<path, values>>
JsonFromColumns(T, input) ==
  LET rows == IF input = <<>> THEN 0 ELSE Len(input[1][2])
      given == {input[k][1] : k \in DOMAIN input}
      values(path) == input[CHOOSE k \in DOMAIN input : input[k][1] = path][2]
      others == given \ ToSet(PathNames(T))
      dense == [path \in others |-> DynamicFrom(Identity(rows), values(path), rows)]
  IN IF (\A k \in DOMAIN input : Len(input[k][2]) = rows) /\ ToSet(PathNames(T)) \subseteq given
     THEN JsonColumn(T, [j \in DOMAIN T[2] |-> FromValues(TypedPaths(T)[j][2], values(PathNames(T)[j]))],
                     others, dense, rows)
     ELSE Thrown(T)

ArrayFrom(T, values) ==
  LET lists == [i \in DOMAIN values |-> IF Nullish(values[i]) THEN <<>> ELSE Elements(values[i])]
  IN IF \A i \in DOMAIN values : Nullish(values[i]) \/ ArrayLike(values[i])
     THEN Column("array", T, Offsets(lists), <<FromValues(T[2], FlattenSeq(lists))>>, <<>>)
     ELSE Thrown(T)

MapFrom(T, values) ==
  LET lists == [i \in DOMAIN values |-> EntriesOf(values[i])]
      half(k) == [j \in DOMAIN FlattenSeq(lists) |-> FlattenSeq(lists)[j][k]]
  IN IF Contains(FlattenSeq(lists), <<Error, Error>>) THEN Thrown(T)
     ELSE Column("map", T, Offsets(lists), <<FromValues(T[2], half(1)), FromValues(T[3], half(2))>>, <<>>)

TupleFrom(T, values) ==
  LET element(v, j) == IF Nullish(v) THEN Undefined
                       ELSE IF T[2] = <<>> THEN Element(v, j) ELSE Member(v, T[2][j])
  IN IF \A i \in DOMAIN values : TupleFits(T, values[i])
     THEN Column("tuple", T, <<>>,
                 [j \in DOMAIN T[3] |-> FromValues(T[3][j], [i \in DOMAIN values |-> element(values[i], j)])],
                 T[2])
     ELSE Thrown(T)

NullableFrom(T, values) ==
  Column("nullable", T, [i \in DOMAIN values |-> Number(IF Nullish(values[i]) THEN 1 ELSE 0)],
         <<FromValues(T[2], [i \in DOMAIN values |->
                               IF Nullish(values[i]) THEN ZeroValue(T[2]) ELSE values[i]])>>, <<>>)

\* The column class a scalar codec keeps its values in.
ScalarColumn(T, kept) ==
  Column(IF Numeric(T) THEN "typed" ELSE IF T[1] \in {"Enum8", "Enum16"} THEN "enum" ELSE "data",
         T, kept, <<>>, <<>>)

FromValues(T, values) ==
  CASE T[1] = "Nullable" -> NullableFrom(T, values)
    [] T[1] = "Array" -> ArrayFrom(T, values)
    [] T[1] = "LowCardinality" -> FromValues(T[2], values)
    [] T[1] = "Map" -> MapFrom(T, values)
    [] T[1] = "Tuple" -> TupleFrom(T, values)
    [] T[1] = "Variant" -> VariantFrom(T, values)
    [] T[1] = "Dynamic" -> DynamicFrom(Identity(Len(values)), values, Len(values))
    [] T[1] = "JSON" -> JsonFrom(T, values)
    [] OTHER -> ScalarColumn(T, [i \in DOMAIN values |-> FromScalar(T, values[i])])
=============================================================================
