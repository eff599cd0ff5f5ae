----------------------------- MODULE NativeWire -----------------------------
(***************************************************************************)
(* Columns to tokens and back: the encode and decode half of the codecs of *)
(* NativeCodecs, with sparse columns and the tree of serialization kinds   *)
(* (base.ts).                                                              *)
(***************************************************************************)
EXTENDS NativeCodecs
LOCAL INSTANCE Integers
LOCAL INSTANCE Sequences
LOCAL INSTANCE SequencesExt

VarIntWidth == -2          \* the width of a VarInt's token
U8(n) == <<1, n>>
U64(n) == <<8, n>>
VarIntToken(n) == <<VarIntWidth, n>>
NameToken(form, name) == <<0, Text(form, name)>>

Basic == U64(0)            \* Variant.MODE_BASIC
LcVersion == U64(1)        \* LowCardinality.VERSION
V3 == U64(3)               \* Dynamic.VERSION_V3, JSONFormat.VERSION_V3
AdditionalKeys == 2 ^ 9    \* LowCardinality.FLAG_ADDITIONAL_KEYS
IndexTypes == 2 ^ 8        \* the flags below it give the type of the indices

-----------------------------------------------------------------------------
(* The reader. *)

Broken == [left |-> <<>>, ok |-> FALSE]

\* The values of tokens of given widths; when they are not there, nothing more is read.
Read(r, widths) ==
  LET n == Len(widths)
      ready == Len(r.left) >= n /\ \A i \in 1 .. n : r.left[i][1] = widths[i]
  IN IF ready THEN [values |-> [i \in 1 .. n |-> r.left[i][2]],
                    reader |-> [r EXCEPT !.left = SubSeq(@, n + 1, Len(@))]]
     ELSE [values |-> [i \in 1 .. n |-> IF widths[i] = 0 THEN EmptyText ELSE 0], reader |-> Broken]
Times(n, width) == [i \in 1 .. n |-> width]
ReadOne(r, width) == LET d == Read(r, <<width>>) IN [value |-> d.values[1], reader |-> d.reader]

\* A count and as many strings.
LOCAL Contents(texts) == [names |-> [i \in DOMAIN texts.values |-> texts.values[i][3]], reader |-> texts.reader]
LOCAL Counted(count) == Contents(Read(count.reader, Times(count.value, 0)))
ReadNames(r) == Counted(ReadOne(r, VarIntWidth))

\* A reader must find its version.
Expecting(r, token) ==
  LET d == ReadOne(r, token[1]) IN IF d.value = token[2] THEN d.reader ELSE Broken

-----------------------------------------------------------------------------
(* Serialization kinds, and the state of a column's decode. *)

Dense == [kind |-> 0, parts |-> <<>>]
NoPrefix == [data |-> <<>>, parts |-> <<>>]
DefaultState == [kinds |-> Dense, prefix |-> NoPrefix]

\* childState: a node that is not there is dense
Child(s, i) ==
  [kinds |-> IF i \in DOMAIN s.kinds.parts THEN s.kinds.parts[i] ELSE Dense,
   prefix |-> IF i \in DOMAIN s.prefix.parts THEN s.prefix.parts[i] ELSE NoPrefix]

\* One node after the other, for each type: read(T, reader) gives a node and a reader.
LOCAL AddNode(acc, d) == [nodes |-> Append(acc.nodes, d.node), reader |-> d.reader]
ReadEach(read(_, _), types, r) ==
  FoldLeft(LAMBDA acc, T : AddNode(acc, read(T, acc.reader)), [nodes |-> <<>>, reader |-> r], types)

\* readKinds: a byte for the type, then its parts; those of a Dynamic are not known yet
RECURSIVE ReadKinds(_, _)
LOCAL KindNode(kind, parts) == [node |-> [kind |-> kind, parts |-> parts.nodes], reader |-> parts.reader]
LOCAL KindsBelow(T, kind) == KindNode(kind.value, ReadEach(ReadKinds, Inner(T), kind.reader))
ReadKinds(T, r) == KindsBelow(T, ReadOne(r, 1))

-----------------------------------------------------------------------------
(* Prefixes. *)

LOCAL EachOf(tokens(_), n) == FlattenSeq([i \in 1 .. n |-> tokens(i)])
LOCAL GroupOr(c, d, none) == IF c.parts[d].kind = "none" THEN none ELSE c.parts[d]

\* writePrefix.  A Variant announces all of its arms, with an empty column for an
\* arm without rows; a Dynamic the arms that have a column.
RECURSIVE Prefix(_, _)
DynamicPrefix(c) ==
  <<V3, VarIntToken(Len(c.names))>>
    \o [d \in DOMAIN c.names |-> NameToken("type", c.names[d])]
    \o EachOf(LAMBDA d : IF c.parts[d].kind = "none" THEN <<>> ELSE Prefix(c.names[d], c.parts[d]),
              Len(c.names))

JsonPrefix(T, c) ==
  LET other(j) == j + Len(T[2])
      n == Len(c.names) - Len(T[2])
  IN <<V3, VarIntToken(n)>> \o [j \in 1 .. n |-> NameToken("path", c.names[other(j)])]
       \o EachOf(LAMBDA j : Prefix(Inner(T)[j], c.parts[j]), Len(T[2]))
       \o EachOf(LAMBDA j : DynamicPrefix(c.parts[other(j)]), n)

VariantPrefix(T, c) ==
  <<Basic>> \o EachOf(LAMBDA d : Prefix(Arms(T)[d], GroupOr(c, d, FromValues(Arms(T)[d], <<>>))), Len(Arms(T)))
PartsPrefix(T, c) == EachOf(LAMBDA i : Prefix(Inner(T)[i], c.parts[i]), Len(Inner(T)))

Prefix(T, c) ==
  CASE T[1] = "LowCardinality" -> <<LcVersion>>
    [] T[1] \in {"Nullable", "Array", "Map", "Tuple"} -> PartsPrefix(T, c)
    [] T[1] = "Variant" -> VariantPrefix(T, c)
    [] T[1] = "Dynamic" -> DynamicPrefix(c)
    [] T[1] = "JSON" -> JsonPrefix(T, c)
    [] OTHER -> <<>>

\* readPrefix: the tree of what it found
RECURSIVE ReadPrefix(_, _)
LOCAL PrefixNode(data, parts) == [node |-> [data |-> data, parts |-> parts.nodes], reader |-> parts.reader]
LOCAL PrefixBelow(data, types, reader) == PrefixNode(data, ReadEach(ReadPrefix, types, reader))
LOCAL DynamicBelow(types) == PrefixBelow(types.names, types.names, types.reader)
ReadDynamicPrefix(r) == DynamicBelow(ReadNames(Expecting(r, V3)))

\* The typed paths, then the others, each of those a Dynamic.
LOCAL PathsBelow(T, others, reader) ==
  PrefixBelow(others, Inner(T) \o Times(Len(others), <<"Dynamic">>), reader)
LOCAL OtherPaths(T, paths) ==
  PathsBelow(T, SelectSeq(paths.names, LAMBDA path : ~Contains(PathNames(T), path)), paths.reader)
ReadJsonPrefix(T, r) == OtherPaths(T, ReadNames(Expecting(r, V3)))

ReadPartsPrefix(T, r) == PrefixBelow(<<>>, Inner(T), r)
\* A version or a mode is skipped, whatever it is.
ReadLcPrefix(r) == [node |-> NoPrefix, reader |-> ReadOne(r, 8).reader]
ReadVariantPrefix(T, r) == ReadPartsPrefix(T, ReadOne(r, 8).reader)

ReadPrefix(T, r) ==
  CASE T[1] = "Dynamic" -> ReadDynamicPrefix(r)
    [] T[1] = "JSON" -> ReadJsonPrefix(T, r)
    [] T[1] = "LowCardinality" -> ReadLcPrefix(r)
    [] T[1] = "Variant" -> ReadVariantPrefix(T, r)
    [] OTHER -> ReadPartsPrefix(T, r)

-----------------------------------------------------------------------------
(* Encode. *)

\* getDictKey: dates by their time, bytes and other objects by their contents
DictKey(v) ==
  CASE v[1] = "date" -> Number(v[2])
    [] v[1] \in {"bytes", "dt64"} -> Text("json", v)
    [] OTHER -> v

\* The dictionary of a column: null, if it can be, before the distinct values.
Dictionary(T, values) ==
  LET add(dict, v) ==
        IF \E j \in DOMAIN dict : DictKey(dict[j]) = DictKey(v) THEN dict ELSE Append(dict, v)
  IN FoldLeft(add, IF NullableDict(T) THEN <<Null>> ELSE <<>>, values)

\* Bytes of an index, by what they must tell apart.
LcIndexType(n) == IF n > DictMax[2] THEN 2 ELSE IF n > DictMax[1] THEN 1 ELSE 0
IndexToken(n, bytes) == <<bytes, Pattern(n, bytes)>>
IndexBytes(n) == IF n <= IndexMax[1] THEN 1 ELSE IF n <= IndexMax[2] THEN 2 ELSE 4

RECURSIVE Encode(_, _)
LcTokens(T, values) ==
  LET dict == Dictionary(T, values)
      place(v) == (CHOOSE j \in DOMAIN dict : DictKey(dict[j]) = DictKey(v)) - 1
  IN IF values = <<>> THEN <<>>
     ELSE <<U64(AdditionalKeys + LcIndexType(Len(dict))), U64(Len(dict))>>
            \o Encode(DictType(T), FromValues(DictType(T), dict))
            \o <<U64(Len(values))>>
            \o [i \in DOMAIN values |-> IndexToken(place(values[i]), 2 ^ LcIndexType(Len(dict)))]

GroupTokens(types, c) ==
  EachOf(LAMBDA d : IF c.parts[d].kind = "none" THEN <<>> ELSE Encode(types[d], c.parts[d]), Len(types))
PartTokens(types, c) == EachOf(LAMBDA i : Encode(types[i], c.parts[i]), Len(types))
DynamicTokens(c) ==
  [i \in DOMAIN c.data |-> IndexToken(c.data[i][2], IndexBytes(Len(c.names) + 1))] \o GroupTokens(c.names, c)

OffsetTokens(c) == [i \in DOMAIN c.data |-> U64(c.data[i][2])]
NullableTokens(T, c) == [i \in DOMAIN c.data |-> U8(c.data[i][2])] \o PartTokens(Inner(T), c)
ArrayTokens(T, c) == OffsetTokens(c) \o PartTokens(Inner(T), c)
MapTokens(T, c) == OffsetTokens(c) \o PartTokens(Inner(T), c)
TupleTokens(T, c) == PartTokens(Inner(T), c)
VariantTokens(T, c) == [i \in DOMAIN c.data |-> U8(c.data[i][2])] \o GroupTokens(Arms(T), c)
JsonTokens(T, c) ==
  PartTokens(Inner(T), c)
    \o EachOf(LAMBDA j : DynamicTokens(c.parts[Len(T[2]) + j]), Len(c.names) - Len(T[2]))

Encode(T, c) ==
  CASE T[1] = "Nullable" -> NullableTokens(T, c)
    [] T[1] = "Array" -> ArrayTokens(T, c)
    [] T[1] = "Map" -> MapTokens(T, c)
    [] T[1] = "Tuple" -> TupleTokens(T, c)
    [] T[1] = "LowCardinality" -> LcTokens(T, All(c))
    [] T[1] = "Variant" -> VariantTokens(T, c)
    [] T[1] = "Dynamic" -> DynamicTokens(c)
    [] T[1] = "JSON" -> JsonTokens(T, c)
    [] OTHER -> FlattenSeq([i \in DOMAIN c.data |-> ScalarTokens(T, c.data[i])])

-----------------------------------------------------------------------------
(* Decode. *)

RECURSIVE Decode(_, _, _, _)

\* The parts of a column, part i with counts[i] rows; none without rows where only
\* groups with rows are on the wire.
LOCAL AddPart(acc, d) == [columns |-> Append(acc.columns, d.column), reader |-> d.reader]
LOCAL NextPart(acc, layout, i, s) ==
  IF layout.kind \in {"variant", "dynamic"} /\ layout.counts[i] = 0
  THEN [acc EXCEPT !.columns = Append(@, NoColumn)]
  ELSE AddPart(acc, Decode(layout.types[i], acc.reader, layout.counts[i], Child(s, i)))
DecodeParts(layout, s) ==
  FoldLeftDomain(LAMBDA acc, i : NextPart(acc, layout, i, s), [columns |-> <<>>, reader |-> layout.reader],
                 layout.types)

\* What each codec reads before its parts: the data of each row, and from it the
\* types of the parts and how many rows each of them has.
LOCAL Layout(kind, data, types, counts, names, reader) ==
  [kind |-> kind, data |-> data, types |-> types, counts |-> counts, names |-> names, reader |-> reader]

LOCAL Flags(T, flags, rows) ==
  Layout("nullable", [i \in 1 .. rows |-> Number(flags.values[i])], Inner(T), <<rows>>, <<>>, flags.reader)
DecodeNullable(T, r, rows) == Flags(T, Read(r, Times(rows, 1)), rows)

DecodeOffsets(T, kind, offsets, rows) ==
  LET total == IF rows = 0 THEN 0 ELSE offsets.values[rows]
  IN Layout(kind, [i \in 1 .. rows |-> Offset(offsets.values[i])], Inner(T), Times(Len(Inner(T)), total),
            <<>>, offsets.reader)
DecodeArray(T, r, rows) == DecodeOffsets(T, "array", Read(r, Times(rows, 8)), rows)
DecodeMap(T, r, rows) == DecodeOffsets(T, "map", Read(r, Times(rows, 8)), rows)

DecodeTuple(T, r, rows) == Layout("tuple", <<>>, T[3], Times(Len(T[3]), rows), T[2], r)

DecodeGroups(kind, types, discs, names) ==
  LET data == [i \in DOMAIN discs.values |-> Disc(discs.values[i])]
  IN Layout(kind, data, types, [d \in DOMAIN types |-> GroupCount(data, d - 1)], names, discs.reader)
DecodeVariant(T, r, rows) == DecodeGroups("variant", Arms(T), Read(r, Times(rows, 1)), <<>>)
DecodeDynamic(types, r, rows) ==
  DecodeGroups("dynamic", types, Read(r, Times(rows, IndexBytes(Len(types) + 1))), types)

DecodeJson(T, paths, r, rows) ==
  LET types == Inner(T) \o Times(Len(paths), <<"Dynamic">>)
  IN Layout("json", <<Offset(rows)>>, types, Times(Len(types), rows), PathNames(T) \o paths, r)

LOCAL LayoutOf(T, r, rows, s) ==
  CASE T[1] = "Nullable" -> DecodeNullable(T, r, rows)
    [] T[1] = "Array" -> DecodeArray(T, r, rows)
    [] T[1] = "Map" -> DecodeMap(T, r, rows)
    [] T[1] = "Tuple" -> DecodeTuple(T, r, rows)
    [] T[1] = "Variant" -> DecodeVariant(T, r, rows)
    [] T[1] = "Dynamic" -> DecodeDynamic(s.prefix.data, r, rows)
    [] T[1] = "JSON" -> DecodeJson(T, s.prefix.data, r, rows)

LOCAL Assembled(T, layout, parts) ==
  [column |-> Column(layout.kind, T, layout.data, parts.columns, layout.names), reader |-> parts.reader]
LOCAL DecodeComposite(T, layout, s) == Assembled(T, layout, DecodeParts(layout, s))

\* The dictionary is decoded with a state of its own; an index must be within it.
LOCAL LcColumn(T, size, dict, indices) ==
  LET value(i) == IF NullableDict(T) /\ i = 0 THEN Null ELSE At(dict, i + 1)
      within(i) == i < size \/ (NullableDict(T) /\ i = 0)
  IN IF \A j \in DOMAIN indices.values : within(indices.values[j])
     THEN [column |-> Data(T, [j \in DOMAIN indices.values |-> value(indices.values[j])]),
           reader |-> indices.reader]
     ELSE [column |-> Thrown(T), reader |-> Broken]
LOCAL LcIndices(T, header, dict, count) ==
  LET type == header[1] % IndexTypes
  IN LcColumn(T, header[2], dict, Read(count.reader, Times(count.value, 2 ^ (IF type > 3 THEN 3 ELSE type))))
LOCAL LcDict(T, header, dict) == LcIndices(T, header, dict.column, ReadOne(dict.reader, 8))
LOCAL LcHeader(T, header) ==
  LcDict(T, header.values, Decode(DictType(T), header.reader, header.values[2], DefaultState))
DecodeLc(T, r, rows) ==
  IF rows = 0 THEN [column |-> Data(T, <<>>), reader |-> r] ELSE LcHeader(T, Read(r, <<8, 8>>))

LOCAL Scalars(T, d, w) ==
  [column |-> ScalarColumn(T, [i \in 1 .. Len(d.values) \div w |->
                                 ScalarOf(T, SubSeq(d.values, (i - 1) * w + 1, i * w))]),
   reader |-> d.reader]
DecodeScalars(T, r, rows) ==
  Scalars(T, Read(r, FlattenSeq(Times(rows, ScalarWidths(T)))), Len(ScalarWidths(T)))

DecodeDense(T, r, rows, s) ==
  CASE T[1] \in {"Nullable", "Array", "Map", "Tuple", "Variant", "Dynamic", "JSON"} ->
         DecodeComposite(T, LayoutOf(T, r, rows, s), s)
    [] T[1] = "LowCardinality" -> DecodeLc(T, r, rows)
    [] OTHER -> DecodeScalars(T, r, rows)

\* readSparse: gaps of defaults before each value, the last of them flagged.  A
\* column's state is new with every block, so no defaults are carried over.
RECURSIVE Gaps(_, _, _)
Gaps(r, rows, places) ==
  LET place(gap) == (IF places = <<>> THEN 0 ELSE Last(places)) + (gap.value % EndFlag) + 1
      after(gap) == IF gap.value >= EndFlag \/ place(gap) > rows \/ ~gap.reader.ok
                    THEN [places |-> places, reader |-> gap.reader]
                    ELSE Gaps(gap.reader, rows, Append(places, place(gap)))
  IN after(ReadOne(r, VarIntWidth))

\* Numbers are scattered over zeros, other values over zeroValue.
Scattered(T, column, places, rows) ==
  LET zero == IF column.kind = "typed" THEN (IF Wide(T) THEN BigInt(0) ELSE Number(0)) ELSE ZeroValue(T)
      over(values) == IF column.kind = "typed" /\ places # <<>> THEN Typed(T, values) ELSE FromValues(T, values)
  IN over([i \in 1 .. rows |-> IF Contains(places, i) THEN At(column, Index(places, i)) ELSE zero])

LOCAL ScatterInto(T, d, places, rows) == [column |-> Scattered(T, d.column, places, rows), reader |-> d.reader]
LOCAL ScatterOver(T, gaps, rows, s) ==
  ScatterInto(T, IF gaps.places = <<>> THEN [column |-> FromValues(T, <<>>), reader |-> gaps.reader]
                 ELSE DecodeDense(T, gaps.reader, Len(gaps.places), s), gaps.places, rows)
DecodeSparse(T, r, rows, s) ==
  ScatterOver(T, Gaps(r, rows, <<>>), rows, s)

Decode(T, r, rows, s) ==
  IF s.kinds.kind = 1 /\ T[1] \notin Unsparse THEN DecodeSparse(T, r, rows, s) ELSE DecodeDense(T, r, rows, s)
=============================================================================
