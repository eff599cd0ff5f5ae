---------------------------- MODULE RecordBatches ----------------------------
(***************************************************************************)
(* Record batches, src/native/table.ts, and their way through a Native     *)
(* block, encodeNative and decodeNativeBlockWithReader of                  *)
(* src/native/index.ts: a client that builds a batch row by row, from      *)
(* whole rows or from columns, encodes it and decodes it again; and a      *)
(* server's block (external), decoded, encoded again by the client, and    *)
(* decoded once more.                                                      *)
(***************************************************************************)
EXTENDS NativeWire, RowViews
LOCAL INSTANCE Integers
LOCAL INSTANCE Sequences
LOCAL INSTANCE SequencesExt
LOCAL INSTANCE FiniteSetsExt

CONSTANTS Schemas,         \* sequences of <<name, type>>
          RowSchemas,      \* those a RecordBatchBuilder is tried with
          Samples(_),      \* JavaScript values to try for a type
          MaxRows,         \* bound: rows of a batch
          ColumnSets,      \* what batchFromCols is given: sequences of <<name, column>>
          PathSets,        \* what JsonCodec.fromCols is given: sequences of <<path, values>>
          PathType,        \* the JSON type of the codec it is given to
          ServerBlocks,    \* [tokens, revision, rows]: blocks a server sends, and their rows
          KindsRevision,   \* the revision with custom serializations (54454)
          MaxHops          \* bound: times a batch goes over the wire

VARIABLES schema,          \* [name, type] of each column
          builder,         \* [columns, finished]: the RecordBatchBuilder, its pushed values
          accepted,        \* the rows whose appendRow returned, or that were given at once
          partial,         \* whether some appendRow threw
          batch,           \* [columns, count], or NoBatch
          wire,            \* [tokens, revision], or NoWire
          hops,            \* times a batch came off the wire
          truth,           \* the rows the server sent, or <<>>
          refused          \* whether an encoder or a decoder threw

tableVars == <<schema, builder, accepted, partial, batch, wire, hops, truth, refused>>

NoBatch == [columns |-> <<>>, count |-> -1]
NoWire == [tokens |-> <<>>, revision |-> -1]
Types == [j \in DOMAIN schema |-> schema[j][2]]

TableInit ==
  /\ schema \in Schemas
  /\ builder = [columns |-> [j \in DOMAIN schema |-> <<>>], finished |-> FALSE]
  /\ accepted = <<>> /\ partial = FALSE
  /\ batch = NoBatch /\ wire = NoWire
  /\ hops = 0 /\ truth = <<>> /\ refused = FALSE

Pristine == batch = NoBatch /\ wire = NoWire /\ hops = 0 /\ ~refused
Unused == Pristine /\ accepted = <<>> /\ ~partial /\ ~builder.finished

-----------------------------------------------------------------------------
(* Building a batch. *)

\* Columns of numbers convert a value when it is pushed, into the place they
\* have already moved past; others keep it as it is until finish().
Pushed(T, column, value) ==
  IF ~Numeric(T) THEN Append(column, value)
  ELSE IF ConvertNumeric(T, value) # Error THEN Append(column, ConvertNumeric(T, value))
  ELSE Append(column, IF Wide(T) THEN BigInt(0) ELSE Number(0))
PushThrows(T, value) == Numeric(T) /\ ConvertNumeric(T, value) = Error

RowsFor(types) == {row \in [DOMAIN types -> UNION {Samples(types[j]) : j \in DOMAIN types}] :
                     \A j \in DOMAIN types : row[j] \in Samples(types[j])}

\* appendRow: the columns in order, up to one that throws
AppendRow ==
  /\ Pristine
  /\ schema \in RowSchemas /\ ~builder.finished
  /\ \A j \in DOMAIN Types : Len(builder.columns[j]) < MaxRows
  /\ \E row \in RowsFor(Types) :
       LET throws == {j \in DOMAIN Types : PushThrows(Types[j], row[j])}
           reached == IF throws = {} THEN DOMAIN Types ELSE 1 .. Min(throws)
       IN /\ builder' = [builder EXCEPT !.columns =
                           [j \in DOMAIN @ |-> IF j \in reached THEN Pushed(Types[j], @[j], row[j]) ELSE @[j]]]
          /\ IF throws = {} THEN accepted' = Append(accepted, row) /\ UNCHANGED partial
             ELSE partial' = TRUE /\ UNCHANGED accepted
  /\ UNCHANGED <<schema, batch, wire, hops, truth, refused>>

\* The batch of columns that were built, unless one of them threw.
Take(built, count) ==
  IF \E j \in DOMAIN built : Faulty(built[j]) THEN refused' = TRUE /\ UNCHANGED batch
  ELSE batch' = [columns |-> built, count |-> count] /\ UNCHANGED refused

\* finish: it may throw, and does if it was called before
Finish ==
  /\ Pristine /\ ~builder.finished
  /\ schema \in RowSchemas
  /\ builder' = [builder EXCEPT !.finished = TRUE]
  /\ Take([j \in DOMAIN Types |-> IF Numeric(Types[j]) THEN Typed(Types[j], builder.columns[j])
                                  ELSE FromValues(Types[j], builder.columns[j])], Len(accepted))
  /\ UNCHANGED <<schema, accepted, partial, wire, hops, truth>>

\* batchFromRows with an array: every column from its place in every row
BatchFromRows ==
  /\ Unused
  /\ \E n \in 0 .. MaxRows : \E rows \in [1 .. n -> RowsFor(Types)] :
       /\ accepted' = rows
       /\ Take([j \in DOMAIN Types |-> FromValues(Types[j], [i \in 1 .. n |-> rows[i][j]])], n)
  /\ UNCHANGED <<schema, builder, partial, wire, hops, truth>>

\* transposeRowObjectsToColumns: keys the schema does not have are ignored, those a
\* row does not have are undefined in its column
Transposed(rows) == [j \in DOMAIN schema |-> [i \in DOMAIN rows |-> Member(rows[i], schema[j][1])]]

\* An object for each row of values and each choice of its keys, with one more that
\* no schema has.
RowObjectsFor(types) ==
  {<<"object", <<<<"unknown", Number(1)>>>>
                 \o SelectSeq([j \in DOMAIN types |-> <<schema[j][1], row[j]>>],
                              LAMBDA pair : pair[1] \in given)>> :
     row \in RowsFor(types), given \in SUBSET {schema[j][1] : j \in DOMAIN types}}

LOCAL Given(object, name) ==
  LET pairs == SelectSeq(object[2], LAMBDA pair : pair[1] = name)
  IN IF pairs = <<>> THEN Undefined ELSE pairs[1][2]

\* The TCP client's sendRowBatch, alone or behind a row without keys; what is not an
\* object is refused.
BatchFromRowObjects ==
  /\ Unused /\ schema \in RowSchemas
  /\ \E object \in RowObjectsFor(Types) \cup {Null} :
     \E rows \in {<<object>>, <<<<"object", <<>>>>, object>>} :
       IF \E i \in DOMAIN rows : rows[i][1] # "object"
       THEN partial' = TRUE /\ refused' = TRUE /\ UNCHANGED <<batch, accepted>>
       ELSE /\ accepted' = [i \in DOMAIN rows |-> [j \in DOMAIN schema |-> Given(rows[i], schema[j][1])]]
            /\ \E columns \in {Transposed(rows)} :
                 Take([j \in DOMAIN Types |-> FromValues(Types[j], columns[j])], Len(rows))
            /\ UNCHANGED partial
  /\ UNCHANGED <<schema, builder, wire, hops, truth>>

\* (a mutation: columns are taken to have the rows of the batch)
ValidatedNever(columns, count) == TRUE

\* validateColumnLengths
Validated(columns, count) == \A j \in DOMAIN columns : Length(columns[j]) = count

\* batchFromCols: columns some codec built, as long as the first
BatchFromCols ==
  /\ Unused
  /\ \E set \in ColumnSets :
       LET columns == [j \in DOMAIN set |-> set[j][2]]
           count == IF columns = <<>> THEN 0 ELSE Length(columns[1])
       IN /\ schema' = [j \in DOMAIN set |-> <<set[j][1], columns[j].type>>]
          /\ IF Validated(columns, count)
             THEN /\ batch' = [columns |-> columns, count |-> count]
                  /\ accepted' = [i \in 1 .. count |-> [j \in DOMAIN columns |-> At(columns[j], i)]]
                  /\ UNCHANGED <<partial, refused>>
             ELSE partial' = TRUE /\ refused' = TRUE /\ UNCHANGED <<batch, accepted>>
  /\ UNCHANGED <<builder, wire, hops, truth>>

\* JsonCodec.fromCols, and a batch of that one column
JsonFromCols ==
  /\ Unused
  /\ \E set \in PathSets :
       \E column \in {JsonFromColumns(PathType, set)} :
         LET object(i) == <<"object", [k \in DOMAIN set |-> <<set[k][1], set[k][2][i]>>]>>
         IN /\ schema' = <<<<"a", PathType>>>>
            /\ IF Faulty(column) THEN partial' = TRUE /\ refused' = TRUE /\ UNCHANGED <<batch, accepted>>
               ELSE /\ batch' = [columns |-> <<column>>, count |-> Length(column)]
                    /\ accepted' = [i \in 1 .. Length(column) |-> <<object(i)>>]
                    /\ UNCHANGED <<partial, refused>>
  /\ UNCHANGED <<builder, wire, hops, truth>>

-----------------------------------------------------------------------------
(* Blocks. *)

EncodeBlock(names, types, columns, count) ==
  <<VarIntToken(Len(types)), VarIntToken(count)>>
    \o FlattenSeq([j \in DOMAIN types |->
         <<NameToken("name", names[j]), NameToken("type", types[j])>>
           \o IF count > 0 THEN Prefix(types[j], columns[j]) \o Encode(types[j], columns[j]) ELSE <<>>])

\* encodeNative
EncodeNative ==
  /\ batch # NoBatch /\ hops < MaxHops /\ ~refused
  /\ \E tokens \in {EncodeBlock([j \in DOMAIN schema |-> schema[j][1]], Types, batch.columns, batch.count)} :
        IF ~Validated(batch.columns, batch.count) THEN refused' = TRUE /\ UNCHANGED <<batch, wire>>
        ELSE IF Contains(tokens, Refusal) THEN refused' = TRUE /\ UNCHANGED <<batch, wire>>
        ELSE wire' = [tokens |-> tokens, revision |-> 0] /\ batch' = NoBatch /\ UNCHANGED refused
  /\ UNCHANGED <<schema, builder, accepted, partial, hops, truth>>

\* A block arrives; the schema it names is not known before it is decoded.
ServerSends ==
  /\ Unused
  /\ \E block \in ServerBlocks :
       /\ wire' = [tokens |-> block.tokens, revision |-> block.revision]
       /\ truth' = block.rows
       /\ schema' = <<>>
  /\ UNCHANGED <<builder, accepted, partial, batch, hops, refused>>

\* BlockInfo: fields by number, until their end; one without a meaning has no value
RECURSIVE BlockInfo(_)
LOCAL AfterField(field) ==
  CASE field.value = 0 \/ ~field.reader.ok -> field.reader
    [] field.value = 1 /\ field.reader.ok -> BlockInfo(ReadOne(field.reader, 1).reader)
    [] field.value = 2 /\ field.reader.ok -> BlockInfo(ReadOne(field.reader, 4).reader)
    [] OTHER -> BlockInfo(field.reader)
BlockInfo(r) == AfterField(ReadOne(r, VarIntWidth))

\* A column: its name and type, its kinds if the revision has them, and with rows
\* its prefix and its data.
LOCAL MarkedKinds(T, custom) ==
  IF custom.value = 0 THEN [node |-> Dense, reader |-> custom.reader] ELSE ReadKinds(T, custom.reader)
LOCAL ColumnKinds(T, reader, revision) ==
  IF revision < KindsRevision THEN [node |-> Dense, reader |-> reader] ELSE MarkedKinds(T, ReadOne(reader, 1))
LOCAL ColumnBody(T, kinds, prefix, rows) ==
  Decode(T, prefix.reader, rows, [kinds |-> kinds, prefix |-> prefix.node])
LOCAL ColumnRows(T, kinds, rows) ==
  IF rows = 0 THEN [column |-> Data(T, <<>>), reader |-> kinds.reader]
  ELSE ColumnBody(T, kinds.node, ReadPrefix(T, kinds.reader), rows)
LOCAL ColumnDef(name, T, d) == [def |-> <<name, T>>, column |-> d.column, reader |-> d.reader]
LOCAL NamedColumn(name, T, reader, rows, revision) ==
  ColumnDef(name, T, ColumnRows(T, ColumnKinds(T, reader, revision), rows))
LOCAL ColumnHeader(header, rows, revision) ==
  IF ~header.reader.ok THEN [def |-> <<>>, column |-> NoColumn, reader |-> Broken]
  ELSE NamedColumn(header.values[1][3], header.values[2][3], header.reader, rows, revision)
DecodeColumn(r, rows, revision) == ColumnHeader(Read(r, <<0, 0>>), rows, revision)

\* decodeNativeBlockWithReader, with all of the block at hand
LOCAL AddColumn(acc, d) ==
  [acc EXCEPT !.defs = Append(@, d.def), !.columns = Append(@, d.column), !.reader = d.reader]
LOCAL NextColumn(acc, revision) ==
  IF ~acc.reader.ok THEN acc ELSE AddColumn(acc, DecodeColumn(acc.reader, acc.count, revision))
LOCAL BlockColumns(shape, revision) ==
  FoldLeft(LAMBDA acc, j : NextColumn(acc, revision),
           [defs |-> <<>>, columns |-> <<>>, reader |-> shape.reader, count |-> shape.values[2]],
           Times(shape.values[1], 0))
LOCAL BlockStart(start, revision) == IF revision > 0 THEN BlockInfo(start) ELSE start
DecodeBlock(tokens, revision) ==
  BlockColumns(Read(BlockStart([left |-> tokens, ok |-> TRUE], revision), <<VarIntWidth, VarIntWidth>>), revision)

DecodeNative ==
  /\ wire # NoWire
  /\ \E d \in {DecodeBlock(wire.tokens, wire.revision)} :
        IF ~d.reader.ok \/ d.reader.left # <<>> THEN refused' = TRUE /\ UNCHANGED <<schema, batch>>
        ELSE /\ schema' = d.defs
             /\ batch' = [columns |-> d.columns, count |-> d.count]
             /\ UNCHANGED refused
  /\ wire' = NoWire
  /\ hops' = hops + 1
  /\ UNCHANGED <<builder, accepted, partial, truth>>

TableNext ==
  \/ AppendRow \/ Finish \/ BatchFromRows \/ BatchFromRowObjects \/ BatchFromCols \/ JsonFromCols
  \/ EncodeNative \/ ServerSends \/ DecodeNative

-----------------------------------------------------------------------------
(* What a value becomes, told without columns. *)

LOCAL KeptAs(T, k) ==
  LET unit == Epochs[T[1]][3]
      fits(n) == n \in Least(Epochs[T[1]][1], Epochs[T[1]][2]) .. Greatest(Epochs[T[1]][1], Epochs[T[1]][2])
      digits == Scaled(k, T[3])
  IN CASE k = Error -> Error
       [] T[1] \in DOMAIN Epochs -> IF fits(k[2] \div unit) THEN <<"date", (k[2] \div unit) * unit>> ELSE Error
       [] T[1] = "IPv6" -> IF Ipv6Valid(k[3])
                           THEN Text("ipv6", <<IF Len(k[3]) = 1 THEN k[3][1] ELSE Ipv6Filled(k[3])>>) ELSE Error
       [] T[1] = "Decimal" -> IF digits # Error /\ Magnitude(digits[2]) <= DecimalMax(T)
                              THEN Decimal(digits[2], T[3]) ELSE Error
       [] OTHER -> Shown(T, k)
KeptScalar(T, v) == KeptAs(T, FromScalar(T, v))

RECURSIVE Kept(_, _)
LOCAL KeptPath(T, v, j) ==
  LET given == Member(v, TypedPaths(T)[j][1])
  IN <<TypedPaths(T)[j][1], Kept(TypedPaths(T)[j][2], IF given = Undefined THEN Null ELSE given)>>
LOCAL KeptObject(T, v) ==
  LET free == SelectSeq(ByteOrder, LAMBDA name : Contains(Keys(v), name) /\ ~Contains(PathNames(T), name))
  IN [j \in DOMAIN T[2] |-> KeptPath(T, v, j)]
       \o [j \in DOMAIN free |-> <<free[j], Kept(<<"Dynamic">>, Member(v, free[j]))>>]

Kept(T, v) ==
  CASE T[1] = "Nullable" -> IF Nullish(v) THEN Null ELSE Kept(T[2], v)
    [] T[1] = "LowCardinality" -> Kept(T[2], v)
    [] T[1] = "Array" ->
         IF Nullish(v) THEN <<"array", <<>>>>
         ELSE IF ~ArrayLike(v) THEN Error
         ELSE <<"array", [j \in DOMAIN Elements(v) |-> Kept(T[2], Elements(v)[j])]>>
    [] T[1] = "Map" ->
         IF Contains(EntriesOf(v), <<Error, Error>>) THEN Error
         ELSE <<"map", MapOf([j \in DOMAIN EntriesOf(v) |->
                           <<Kept(T[2], EntriesOf(v)[j][1]), Kept(T[3], EntriesOf(v)[j][2])>>])>>
    [] T[1] = "Tuple" ->
         IF ~TupleFits(T, v) THEN Error
         ELSE IF T[2] = <<>>
         THEN <<"array", [j \in DOMAIN T[3] |-> Kept(T[3][j], IF Nullish(v) THEN Undefined ELSE Element(v, j))]>>
         ELSE <<"object", [j \in DOMAIN T[3] |->
                             <<T[2][j], Kept(T[3][j], IF Nullish(v) THEN Undefined ELSE Member(v, T[2][j]))>>]>>
    [] T[1] = "Variant" ->
         IF Nullish(v) THEN Null
         ELSE LET arm == Arm(T, v)
              IN IF arm = Error THEN Error ELSE <<"variant", arm[2], Kept(Arms(T)[arm[2] + 1], arm[3])>>
    [] T[1] = "Dynamic" -> IF Nullish(v) THEN Null ELSE Kept(DynamicType(v), DynamicContent(v))
    [] T[1] = "JSON" ->
         IF ~JsonFits(v) THEN Error
         ELSE <<"object", SelectSeq(KeptObject(T, v), LAMBDA pair : pair[2] # Null)>>
    [] OTHER -> KeptScalar(T, v)

\* Whether a value is, or has within it, one that cannot be kept.
RECURSIVE Unkept(_)
Unkept(v) ==
  \/ v = Error
  \/ v[1] = "array" /\ \E j \in DOMAIN v[2] : Unkept(v[2][j])
  \/ v[1] \in {"map", "object"} /\ \E j \in DOMAIN v[2] : Unkept(v[2][j][2])
  \/ v[1] = "map" /\ \E j \in DOMAIN v[2] : v[2][j][1] = Error
  \/ v[1] = "variant" /\ Unkept(v[3])

\* getAt, of every place
Rows == [i \in 1 .. batch.count |-> [j \in DOMAIN batch.columns |-> At(batch.columns[j], i)]]
KeptRows == [i \in DOMAIN accepted |-> [j \in DOMAIN accepted[i] |-> Kept(Types[j], accepted[i][j])]]

\* What a client makes comes off the wire as it went on it: the rows whose
\* appendRow returned, whole, in order, every value in its own column, once and
\* again; a row that failed half-way, and so left some columns longer than
\* others, is never sent with its values beside those of another row; and no
\* batch is refused unless a value cannot be kept or a row failed
\* (RecordBatchBuilder.appendRow, validateColumnLengths, encodeNative,
\* decodeNativeBlockWithReader and every codec).
RowsWhole ==
  truth = <<>> =>
    /\ (hops > 0 /\ ~refused /\ wire = NoWire /\ batch # NoBatch) => Rows = KeptRows
    /\ refused => partial \/ \E i \in DOMAIN accepted : \E j \in DOMAIN accepted[i] :
                               Unkept(Kept(Types[j], accepted[i][j]))

\* A server's block decodes to the rows the server sent, whichever of its columns
\* are sparse, whatever the width of its indices and the order of its arms and
\* paths, with nothing left of the block, in whatever way they are read (ReadsAs);
\* and what was decoded can be encoded and decoded again with the same rows
\* (readKinds, readSparse, readPrefix, decode, createRowProxy).
BlocksKept ==
  truth # <<>> =>
    /\ ~refused
    /\ (hops > 0 /\ wire = NoWire) =>
         \E decoded \in {Rows} :
           /\ decoded = truth
           /\ \A i \in DOMAIN truth : ReadsAs([j \in DOMAIN schema |-> schema[j][1]], decoded[i], truth[i])
=============================================================================
