------------------------------ MODULE Columns ------------------------------
(***************************************************************************)
(* The columns of src/native/columns.ts: values shredded by type, with     *)
(* random access.  A column is a record: its kind and type, what it keeps  *)
(* per row in data (values, null flags, offsets, discriminators), the      *)
(* columns it is made of in parts, and the names of those (elements,       *)
(* types, paths).                                                          *)
(***************************************************************************)
EXTENDS ScalarCodecs
LOCAL INSTANCE Integers
LOCAL INSTANCE Sequences
LOCAL INSTANCE SequencesExt

CONSTANT NullArm           \* Variant.NULL_DISCRIMINATOR (255)

Column(kind, T, data, parts, names) ==
  [kind |-> kind, type |-> T, data |-> data, parts |-> parts, names |-> names]

\* A typed array's numbers, or an array of values.
Typed(T, values) == Column("typed", T, values, <<>>, <<>>)
Data(T, values) == Column("data", T, values, <<>>, <<>>)
Thrown(T) == Data(T, <<Error>>)
\* A group no row is in: the Map of groups has no entry.
NoColumn == Column("none", <<"none">>, <<>>, <<>>, <<>>)

\* Whether building a column threw.
RECURSIVE Faulty(_)
Faulty(c) == Contains(c.data, Error) \/ \E i \in DOMAIN c.parts : Faulty(c.parts[i])

RECURSIVE Length(_)
Length(c) ==
  CASE c.kind = "tuple" -> IF c.parts = <<>> THEN 0 ELSE Length(c.parts[1])
    [] c.kind = "json" -> c.data[1][2]
    [] OTHER -> Len(c.data)

\* countAndIndexDiscriminators: the rows of each group, and a row's place in its own
GroupCount(discriminators, d) == Len(SelectSeq(discriminators, LAMBDA e : e = <<"d", d>>))
GroupIndex(discriminators, i) ==
  Len(SelectSeq(SubSeq(discriminators, 1, i), LAMBDA e : e = discriminators[i]))

\* Discriminators and offsets are kept as tuples, as the values beside them are.
Disc(d) == <<"d", d>>
Offset(n) == <<"n", n>>

From(c, i) == IF i = 1 THEN 0 ELSE c.data[i - 1][2]
To(c, i) == c.data[i][2]

\* Setting a Map's entries one by one, with keys that are compared by value: a
\* key's place is its first, its value the last.
MapOf(pairs) ==
  LET set(m, pair) ==
        IF \E j \in DOMAIN m : m[j][1] = pair[1]
        THEN [j \in DOMAIN m |-> IF m[j][1] = pair[1] THEN pair ELSE m[j]]
        ELSE Append(m, pair)
  IN FoldLeft(set, <<>>, pairs)

\* get(i - 1), for every class of column
RECURSIVE At(_, _)
DataAt(c, i) == IF i \in DOMAIN c.data THEN c.data[i] ELSE Undefined
EnumAt(c, i) == EnumName(c.type, c.data[i][2])
NullableAt(c, i) == IF c.data[i] = Number(1) THEN Null ELSE At(c.parts[1], i)
ArrayAt(c, i) == <<"array", [j \in 1 .. To(c, i) - From(c, i) |-> At(c.parts[1], From(c, i) + j)]>>
MapAt(c, i) ==
  <<"map", MapOf([j \in 1 .. To(c, i) - From(c, i) |->
                    <<At(c.parts[1], From(c, i) + j), At(c.parts[2], From(c, i) + j)>>])>>
TupleAt(c, i) ==
  IF c.names = <<>> THEN <<"array", [j \in DOMAIN c.parts |-> At(c.parts[j], i)]>>
  ELSE <<"object", [j \in DOMAIN c.parts |-> <<c.names[j], At(c.parts[j], i)>>]>>
GroupAt(c, i) ==
  LET group == c.parts[c.data[i][2] + 1]
  IN IF group.kind = "none" THEN Undefined ELSE At(group, GroupIndex(c.data, i))
VariantAt(c, i) ==
  IF c.data[i] = Disc(NullArm) THEN Null ELSE <<"variant", c.data[i][2], GroupAt(c, i)>>
DynamicAt(c, i) == IF c.data[i] = Disc(Len(c.names)) THEN Null ELSE GroupAt(c, i)
\* A path without a value is left out.
JsonAt(c, i) ==
  <<"object", SelectSeq([j \in DOMAIN c.names |-> <<c.names[j], At(c.parts[j], i)>>],
                        LAMBDA pair : pair[2] # Null)>>

At(c, i) ==
  CASE c.kind \in {"data", "typed"} -> DataAt(c, i)
    [] c.kind = "enum" -> EnumAt(c, i)
    [] c.kind = "nullable" -> NullableAt(c, i)
    [] c.kind = "array" -> ArrayAt(c, i)
    [] c.kind = "map" -> MapAt(c, i)
    [] c.kind = "tuple" -> TupleAt(c, i)
    [] c.kind = "variant" -> VariantAt(c, i)
    [] c.kind = "dynamic" -> DynamicAt(c, i)
    [] c.kind = "json" -> JsonAt(c, i)

All(c) == [i \in 1 .. Length(c) |-> At(c, i)]
=============================================================================
