----------------------------- MODULE TcpPackets -----------------------------
(***************************************************************************)
(* The fields of the TCP packets: src/tcp_client/writer.ts, the revisions  *)
(* of types.ts, the readers of client.ts and what queryImpl and insertImpl *)
(* accumulate from them, and the compressed frames of compression.ts.  The *)
(* server is external: it reads and writes the layouts of its revision.    *)
(* Packets are tokens as in NativeWire; who waits for whom, and what stops *)
(* whom, is in TcpClient and TcpConnect.                                   *)
(***************************************************************************)
EXTENDS RecordBatches
LOCAL INSTANCE Integers
LOCAL INSTANCE Sequences
LOCAL INSTANCE SequencesExt
LOCAL INSTANCE FiniteSetsExt
LOCAL INSTANCE Functions

CONSTANTS Peers,           \* revisions a server may have
          Greetings,       \* [send, recv, rules, settings]: what its Hello may say
          Methods,         \* options.compression
          Defaults,        \* options.settings of the client, by name
          CallSettings,    \* settings of one query or insert
          CallParams,      \* serialized parameters, <<name, literal>>
          Tables,          \* [name, schema, columns, count]: batches to send
          Expected,        \* options.schema of an insert, or <<>>
          Deltas,          \* fields of a Progress packet, by name
          Infos,           \* fields of a ProfileInfo packet, by name
          EventBlocks,     \* [schema, columns, count]: ProfileEvents of a server
          LogBlock,        \* [schema, columns, count]: a Log of a server
          NsPerMicro,      \* 1000
          MaxFrame,        \* MAX_DECOMPRESSED_BLOCK_SIZE
          MaxPackets       \* bound: progress and events packets of one query

VARIABLES stage,           \* "new", "refused", "open", "query", "insert"
          revision,        \* serverHello.revision
          method,          \* options.compression
          exchange,        \* [meant, read]: the last packets, and what the other side took them for
          packets,         \* progress and events packets since the query
          accumulated,     \* AccumulatedProgress
          profileEvents,   \* the accumulated events, by name
          sums,            \* the sum of the deltas the server has sent, by name
          eventRows        \* every event the server has sent
packetVars == <<stage, revision, method, exchange, packets, accumulated, profileEvents, sums, eventRows>>

OurRevision == 54479       \* DBMS_TCP_PROTOCOL_VERSION
Gate ==
  [Timezone |-> 54058, QuotaKeyInInfo |-> 54060, DisplayName |-> 54372, VersionPatch |-> 54401,
   ServerLogs |-> 54406, Written |-> 54420, SettingsAsStrings |-> 54429, InterserverSecret |-> 54441,
   OpenTelemetry |-> 54442, DistributedDepth |-> 54448, StartTime |-> 54449, ParallelReplicas |-> 54453,
   CustomSerialization |-> 54454, QuotaKey |-> 54458, Parameters |-> 54459, QueryTime |-> 54460,
   PasswordRules |-> 54461, SecretV2 |-> 54462, TotalBytes |-> 54463, AppliedAggregation |-> 54469,
   Chunked |-> 54470, VersionedReplicas |-> 54471, GrantedRoles |-> 54472, ServerSettings |-> 54474,
   QueryAndLine |-> 54475, Jwt |-> 54476, QueryPlan |-> 54477, ClusterFunction |-> 54479]

LOCAL V(n) == VarIntToken(n)
LOCAL S(content) == <<0, Text("plain", content)>>
LOCAL Nothing == S(<<>>)
LOCAL Since(r, gate, tokens) == IF r >= gate THEN tokens ELSE <<>>
LOCAL Reader(tokens) == [left |-> tokens, ok |-> TRUE]
\* What a packet was taken for, if all of it was.
LOCAL Whole(reader, value) == IF reader.ok /\ reader.left = <<>> THEN <<value>> ELSE <<>>

\* Fields are [since, name, width]; those of a revision, by name, and what is after them.
LOCAL Field(since, name, width) == [since |-> since, name |-> name, width |-> width]
LOCAL Of(r, layout) == SelectSeq(layout, LAMBDA field : r >= field.since)
LOCAL Named(fields, d) ==
  [value |-> [name \in {fields[i].name : i \in DOMAIN fields} |->
                d.values[CHOOSE i \in DOMAIN fields : fields[i].name = name]],
   reader |-> d.reader]
LOCAL Taken(fields, reader) == Named(fields, Read(reader, [i \in DOMAIN fields |-> fields[i].width]))
ReadFields(reader, layout, r) == Taken(Of(r, layout), reader)
LOCAL Put(fields, values) == [i \in DOMAIN fields |-> <<fields[i].width, values[fields[i].name]>>]
\* `progress.x ?? 0n`
LOCAL OrZero(values, name) == IF name \in DOMAIN values THEN values[name] ELSE 0

-----------------------------------------------------------------------------
(* Compressed frames. *)

WriteUInt32LE(n) == [i \in 1 .. 4 |-> (n \div 256 ^ (i - 1)) % 256]
ReadUInt32LE(bytes) == bytes[1] + 256 * bytes[2] + 256 ^ 2 * bytes[3] + 256 ^ 3 * bytes[4]

ChecksumSize == 2          \* in halves; the header is in bytes
HeaderSize == 9
ToMethodCode(compression) ==
  IF compression = <<>> THEN 2 ELSE IF compression[1] = "lz4" THEN 130 ELSE 144

\* A library makes one token of what it is given, and the hash tells all contents apart.
Compress(mode, raw) == IF mode = 2 THEN raw ELSE <<<<mode, raw>>>>
Decompress(mode, data) == IF mode = 2 THEN data ELSE IF Len(data) = 1 THEN data[1][2] ELSE <<>>
CityHash128LE(bytes) == <<<<100, bytes>>, <<101, bytes>>>>

LOCAL Header(mode, data, raw) ==
  LET size == WriteUInt32LE(HeaderSize + Len(data)) \o WriteUInt32LE(Len(raw))
  IN <<U8(mode)>> \o [i \in DOMAIN size |-> U8(size[i])]
LOCAL Checked(payload) == CityHash128LE(payload) \o payload
LOCAL Framed(mode, data, raw) == Checked(Header(mode, data, raw) \o data)
CompressBlock(raw, compression) ==
  Framed(ToMethodCode(compression), Compress(ToMethodCode(compression), raw), raw)

LOCAL SizeAt(payload, offset) == ReadUInt32LE([i \in 1 .. 4 |-> payload[offset + i][2]])
LOCAL SizesHold(payload, raw) ==
  /\ SizeAt(payload, 1) = Len(payload)
  /\ SizeAt(payload, 5) <= MaxFrame
  /\ SizeAt(payload, 5) = Len(raw)
LOCAL IfSizesHold(payload, raw) == IF SizesHold(payload, raw) THEN <<raw>> ELSE <<>>
LOCAL Uncompressed(payload) ==
  IF payload[1][2] \in {2, 130, 144}
  THEN IfSizesHold(payload, Decompress(payload[1][2], SubSeq(payload, HeaderSize + 1, Len(payload)))) ELSE <<>>
LOCAL IfChecked(checksum, payload) == IF checksum = CityHash128LE(payload) THEN Uncompressed(payload) ELSE <<>>
\* The content, or nothing when it is refused.
DecompressBlock(block) ==
  IF Len(block) < ChecksumSize + HeaderSize THEN <<>>
  ELSE IfChecked(SubSeq(block, 1, ChecksumSize), SubSeq(block, ChecksumSize + 1, Len(block)))

-----------------------------------------------------------------------------
(* Hello. *)

EncodeHello == <<V(0), S(<<"chwire">>), V(24), V(8), V(OurRevision), S(<<"database">>), S(<<"user">>), S(<<"pass">>)>>
EncodeAddendum(r) ==
  Since(r, Gate.QuotaKey, <<Nothing>>)
    \o Since(r, Gate.Chunked, <<S(<<"notchunked">>), S(<<"notchunked">>)>>)
    \o Since(r, Gate.VersionedReplicas, <<V(5)>>)

\* Of a server: what it reads, and its own Hello, with the fields both sides know.
ServerReadsHello ==
  <<Field(0, "id", VarIntWidth), Field(0, "client", 0), Field(0, "major", VarIntWidth), Field(0, "minor", VarIntWidth),
    Field(0, "revision", VarIntWidth), Field(0, "database", 0), Field(0, "user", 0), Field(0, "password", 0)>>
ServerReadsAddendum ==
  <<Field(54458, "quota", 0), Field(54470, "send", 0), Field(54470, "recv", 0), Field(54471, "replicas", VarIntWidth)>>
LOCAL Pairs(strings) == FlattenSeq([i \in DOMAIN strings |-> <<S(<<strings[i]>>), S(<<1>>)>>])
LOCAL Flagged(strings) == FlattenSeq([i \in DOMAIN strings |-> <<S(<<strings[i]>>), V(0), S(<<1>>)>>])
ServerHello(peer, r, greeting) ==
  <<V(0), S(<<"server">>), V(25), V(8), V(peer)>>
    \o Since(r, 54471, <<V(5)>>)
    \o Since(r, 54058, <<S(<<"timezone">>)>>) \o Since(r, 54372, <<S(<<"display">>)>>) \o Since(r, 54401, <<V(3)>>)
    \o Since(r, 54470, <<S(greeting.send), S(greeting.recv)>>)
    \o Since(r, 54461, <<V(Len(greeting.rules))>> \o Pairs(greeting.rules))
    \o Since(r, 54462, <<U64(7)>>)
    \o Since(r, 54474, Flagged(greeting.settings) \o <<Nothing>>)
    \o Since(r, 54477, <<V(4)>>) \o Since(r, 54479, <<V(6)>>)

HelloStart == <<Field(0, "id", VarIntWidth), Field(0, "name", 0), Field(0, "major", VarIntWidth),
                Field(0, "minor", VarIntWidth), Field(0, "revision", VarIntWidth)>>
HelloMiddle ==
  <<Field(Gate.VersionedReplicas, "replicas", VarIntWidth), Field(Gate.Timezone, "timezone", 0),
    Field(Gate.DisplayName, "displayName", 0), Field(Gate.VersionPatch, "patch", VarIntWidth),
    Field(Gate.Chunked, "send", 0), Field(Gate.Chunked, "recv", 0), Field(Gate.PasswordRules, "rules", VarIntWidth)>>
HelloEnd == <<Field(Gate.QueryPlan, "plan", VarIntWidth), Field(Gate.ClusterFunction, "cluster", VarIntWidth)>>

\* Strings with flags, by name, until an empty name.
RECURSIVE ReadSettings(_, _, _)
LOCAL AddSetting(name, d, widths, values) == ReadSettings(d.reader, widths, (name :> d.values[Len(widths)]) @@ values)
LOCAL SettingNamed(name, widths, values) ==
  IF ~name.reader.ok \/ name.value[3] = <<>> THEN [value |-> values, reader |-> name.reader]
  ELSE AddSetting(name.value, Read(name.reader, widths), widths, values)
ReadSettings(reader, widths, values) == SettingNamed(ReadOne(reader, 0), widths, values)

LOCAL EffectiveOf(peer) == IF peer < OurRevision THEN peer ELSE OurRevision
LOCAL Greeted(start, middle, r, reader) ==
  [value |-> [name |-> start.name, revision |-> r,
              timezone |-> IF r >= Gate.Timezone THEN middle.timezone ELSE EmptyText,
              displayName |-> IF r >= Gate.DisplayName THEN middle.displayName ELSE EmptyText,
              patch |-> IF r >= Gate.VersionPatch THEN middle.patch ELSE r,
              \* assertNotChunkedCompatible
              chunked |-> r >= Gate.Chunked /\ <<"chunked">> \in {middle.send[3], middle.recv[3]}],
   reader |-> ReadFields(reader, HelloEnd, r).reader]
LOCAL AfterRules(start, middle, r, reader) ==
  Greeted(start, middle, r, IF r >= Gate.ServerSettings THEN ReadSettings(reader, <<VarIntWidth, 0>>, <<>>).reader ELSE reader)
LOCAL AfterMiddle(start, middle, r) ==
  AfterRules(start, middle.value, r,
             Read(middle.reader, Times(2 * OrZero(middle.value, "rules"), 0)
                                   \o Since(r, Gate.SecretV2, <<8>>)).reader)
LOCAL AfterStart(start, r) == AfterMiddle(start.value, ReadFields(start.reader, HelloMiddle, r), r)
LOCAL FromStart(start) == AfterStart(start, EffectiveOf(start.value.revision))
ReadHello(tokens) == FromStart(ReadFields(Reader(tokens), HelloStart, 0))

-----------------------------------------------------------------------------
(* Query and Data. *)

\* (A mutation: without the flags.)
SettingPlain(r, name, value) == <<<<0, name>>, <<0, value>>>>
Setting(r, name, value) == <<<<0, name>>>> \o Since(r, Gate.SettingsAsStrings, <<V(0)>>) \o <<<<0, value>>>>
LOCAL Param(param) == <<<<0, param[1]>>, V(2), <<0, param[2]>>>>
LOCAL EachSetting(r, settings, names) == FlattenSeq([i \in DOMAIN names |-> Setting(r, names[i], settings[names[i]])])
EncodeInfo(r) ==
  <<U8(1), Nothing, Nothing, S(<<"address">>)>>
    \o Since(r, Gate.StartTime, <<U64(9)>>)
    \o <<U8(1), S(<<"chwire-client">>), S(<<"localhost">>), S(<<"ClickHouse">>), V(24), V(8), V(OurRevision)>>
    \o Since(r, Gate.QuotaKeyInInfo, <<Nothing>>)
    \o Since(r, Gate.DistributedDepth, <<V(1)>>)
    \o Since(r, Gate.VersionPatch, <<V(0)>>)
    \o Since(r, Gate.OpenTelemetry, <<U8(0)>>)
    \o Since(r, Gate.ParallelReplicas, <<V(0), V(0), V(0)>>)
    \o Since(r, Gate.QueryAndLine, <<V(0), V(0)>>)
    \o Since(r, Gate.Jwt, <<U8(0)>>)
EncodeQuery(query, r, settings, compressed, params) ==
  <<V(1), S(query.id)>> \o EncodeInfo(r)
    \o EachSetting(r, settings, SetToSeq(DOMAIN settings)) \o <<Nothing>>
    \o Since(r, Gate.GrantedRoles, <<Nothing>>)
    \o Since(r, Gate.InterserverSecret, <<Nothing>>)
    \o <<V(2), V(IF compressed THEN 1 ELSE 0), S(query.text)>>
    \o Since(r, Gate.Parameters, FlattenSeq([i \in DOMAIN params |-> Param(params[i])]) \o <<Nothing>>)

\* networkCompressionSettings
NetworkSettings(compression) ==
  IF ToMethodCode(compression) # 144 THEN <<>>
  ELSE (Text("plain", <<"method">>) :> Text("plain", <<"ZSTD">>))
         @@ (IF Len(compression) = 1 THEN <<>> ELSE (Text("plain", <<"level">>) :> Text("plain", compression[2])))
MergedSettings(compression, settings) == settings @@ Defaults @@ NetworkSettings(compression)

\* A packet with a block: [id, client, block, compression].  A server's has the fields of
\* BlockInfo in another order, and no data where there are no rows; a client's has
\* the prefix and the data of every column (encodeBatchAsDataPacket).
EncodeColumns(block, r, written) ==
  FlattenSeq([j \in DOMAIN block.schema |->
    <<NameToken("name", block.schema[j][1]), NameToken("type", block.schema[j][2])>>
      \o Since(r, Gate.CustomSerialization, <<U8(0)>>)
      \o IF written THEN Prefix(block.schema[j][2], block.columns[j]) \o Encode(block.schema[j][2], block.columns[j])
         ELSE <<>>])
ClientInfo == <<V(1), U8(0), V(2), <<4, Pattern(-1, 4)>>, V(0)>>
ServerInfo == <<V(2), <<4, 0>>, V(1), U8(0), V(0)>>
EncodeDataBlockContent(packet, r) ==
  Since(r, 1, IF packet.client THEN ClientInfo ELSE ServerInfo)
    \o <<V(Len(packet.block.schema)), V(packet.block.count)>>
    \o EncodeColumns(packet.block, r, packet.client \/ packet.block.count > 0)
LOCAL PacketOf(packet, content) ==
  <<V(packet.id), S(packet.block.name)>>
    \o IF packet.compression = <<>> THEN content ELSE CompressBlock(content, packet.compression)
EncodeData(packet, r) == PacketOf(packet, EncodeDataBlockContent(packet, r))
Delimiter == [name |-> <<>>, schema |-> <<>>, columns |-> <<>>, count |-> 0]

\* Of a server: what it reads of a Query packet, before its settings and after them.
ServerReadsQuery ==
  <<Field(0, "packet", VarIntWidth), Field(0, "id", 0), Field(0, "kind", 1), Field(0, "initialUser", 0),
    Field(0, "initialId", 0), Field(0, "address", 0), Field(54449, "startTime", 8), Field(0, "interface", 1),
    Field(0, "osUser", 0), Field(0, "host", 0), Field(0, "client", 0), Field(0, "major", VarIntWidth),
    Field(0, "minor", VarIntWidth), Field(0, "revision", VarIntWidth), Field(54060, "quota", 0),
    Field(54448, "depth", VarIntWidth), Field(54401, "patch", VarIntWidth), Field(54442, "trace", 1),
    Field(54453, "replicas", VarIntWidth), Field(54453, "offset", VarIntWidth), Field(54453, "mode", VarIntWidth),
    Field(54475, "number", VarIntWidth), Field(54475, "line", VarIntWidth), Field(54476, "jwt", 1)>>
ServerReadsText ==
  <<Field(54472, "roles", 0), Field(54441, "secret", 0), Field(0, "stage", VarIntWidth),
    Field(0, "compression", VarIntWidth), Field(0, "text", 0)>>
LOCAL Query(id, kind, client, settings, stage_, compression, text, params) ==
  [id |-> id, kind |-> kind, client |-> client, settings |-> settings, stage |-> stage_,
   compressed |-> compression = 1, text |-> text, params |-> params]
LOCAL AllRead(info, settings, text, params) ==
  Whole(params.reader, Query(info.id, <<info.packet, info.kind, info.interface>>, info.client, settings, text.stage,
                             text.compression, text.text, params.value))
LOCAL ParamsAfter(info, settings, text, r) ==
  AllRead(info, settings, text.value,
          IF r >= 54459 THEN ReadSettings(text.reader, <<VarIntWidth, 0>>, <<>>) ELSE [value |-> <<>>, reader |-> text.reader])
LOCAL TextAfter(info, settings, r) ==
  ParamsAfter(info, settings.value, ReadFields(settings.reader, ServerReadsText, r), r)
LOCAL SettingsAfter(info, r) ==
  TextAfter(info.value, ReadSettings(info.reader, IF r >= 54429 THEN <<VarIntWidth, 0>> ELSE <<0>>, <<>>), r)
ServerQuery(tokens, r) == SettingsAfter(ReadFields(Reader(tokens), ServerReadsQuery, r), r)

\* The table and the rows of a packet with a block: a client's for a server, a server's
\* for a client (readServerPacket, readBlock).
LOCAL RowsOf(d) == [i \in 1 .. d.count |-> [j \in DOMAIN d.columns |-> At(d.columns[j], i)]]
LOCAL Decoded(name, d) == Whole(d.reader, [name |-> name, schema |-> d.defs, rows |-> RowsOf(d)])
LOCAL FromContent(name, content, r) == IF content = <<>> THEN <<>> ELSE Decoded(name, DecodeBlock(content[1], r))
LOCAL AfterName(name, reader, r, compressed) ==
  FromContent(name[3], IF compressed THEN DecompressBlock(reader.left) ELSE <<reader.left>>, r)
LOCAL AfterIdAndName(d, id, r, compressed) ==
  IF d.values[1] # id THEN <<>> ELSE AfterName(d.values[2], d.reader, r, compressed)
ReadData(tokens, id, r, compressed) == AfterIdAndName(Read(Reader(tokens), <<VarIntWidth, 0>>), id, r, compressed)

-----------------------------------------------------------------------------
(* Progress, ProfileInfo, ProfileEvents and Log. *)

\* Of a server: the fields it writes.
ServerProgress ==
  <<Field(0, "readRows", VarIntWidth), Field(0, "readBytes", VarIntWidth), Field(54406, "totalRowsToRead", VarIntWidth),
    Field(54463, "totalBytesToRead", VarIntWidth), Field(54420, "writtenRows", VarIntWidth),
    Field(54420, "writtenBytes", VarIntWidth), Field(54460, "elapsedNs", VarIntWidth)>>
ServerProfileInfo ==
  <<Field(0, "rows", VarIntWidth), Field(0, "blocks", VarIntWidth), Field(0, "bytes", VarIntWidth),
    Field(0, "appliedLimit", 1), Field(0, "rowsBeforeLimit", VarIntWidth), Field(0, "calculatedRowsBeforeLimit", 1),
    Field(54469, "appliedAggregation", 1), Field(54469, "rowsBeforeAggregation", VarIntWidth)>>

ProgressFields ==
  <<Field(0, "readRows", VarIntWidth), Field(0, "readBytes", VarIntWidth),
    Field(Gate.ServerLogs, "totalRowsToRead", VarIntWidth), Field(Gate.TotalBytes, "totalBytesToRead", VarIntWidth),
    Field(Gate.Written, "writtenRows", VarIntWidth), Field(Gate.Written, "writtenBytes", VarIntWidth),
    Field(Gate.QueryTime, "elapsedNs", VarIntWidth)>>
ProgressNames == {ProgressFields[i].name : i \in DOMAIN ProgressFields}
ReadProgress(reader, r) == ReadFields(reader, ProgressFields, r)
InfoFields ==
  <<Field(0, "rows", VarIntWidth), Field(0, "blocks", VarIntWidth), Field(0, "bytes", VarIntWidth),
    Field(0, "appliedLimit", 1), Field(0, "rowsBeforeLimit", VarIntWidth), Field(0, "calculatedRowsBeforeLimit", 1),
    Field(Gate.AppliedAggregation, "appliedAggregation", 1),
    Field(Gate.AppliedAggregation, "rowsBeforeAggregation", VarIntWidth)>>
ReadProfileInfo(reader, r) == ReadFields(reader, InfoFields, r)

CreateAccumulators ==
  [name \in ProgressNames |-> 0]
    @@ [percent |-> 0, memoryUsage |-> 0, peakMemoryUsage |-> 0, cpuTime |-> 0, cpuUsage |-> <<0, 1>>]
AccumulateProgress(delta, totals) ==
  [name \in ProgressNames |-> totals[name] + OrZero(delta, name)] @@ totals
LOCAL Larger(m, n) == IF m > n THEN m ELSE n
Percent(totals) ==
  LET denominator == Larger(totals.readRows, totals.totalRowsToRead)
  IN IF denominator > 0 THEN (totals.readRows * 100) \div denominator ELSE 0

\* The rows of a block, by the names of its columns.
LOCAL RowObjects(d) ==
  [i \in DOMAIN d.rows |-> [name \in {d.schema[j][1] : j \in DOMAIN d.schema} |->
                              d.rows[i][CHOOSE j \in DOMAIN d.schema : d.schema[j][1] = name]]]
LOCAL Event(content) == Text("plain", <<content>>)
LOCAL Increment(row) == row.type = Text("name", "increment")
AccumulateEvent(events, row) ==
  (row.name :> IF Increment(row) /\ row.name \in DOMAIN events THEN events[row.name] + row.value[2] ELSE row.value[2]) @@ events
\* Of the query as a whole: no thread, or thread 0.
LOCAL OfQuery(row) == "thread_id" \notin DOMAIN row \/ row.thread_id[2] = 0
AccumulateMetric(totals, row) ==
  CASE ~OfQuery(row) -> totals
    [] OfQuery(row) /\ row.name = Event("MemoryTrackerUsage") -> [totals EXCEPT !.memoryUsage = row.value[2]]
    [] OfQuery(row) /\ row.name = Event("MemoryTrackerPeakUsage") -> [totals EXCEPT !.peakMemoryUsage = Larger(@, row.value[2])]
    [] OfQuery(row) /\ Increment(row) /\ row.name \in {Event("UserTimeMicroseconds"), Event("SystemTimeMicroseconds")} ->
         [totals EXCEPT !.cpuTime = @ + row.value[2]]
    [] OTHER -> totals
\* A quotient is its two numbers.
LOCAL CpuUsage(totals) ==
  CASE totals.elapsedNs = 0 -> totals.cpuUsage
    [] totals.elapsedNs \in 1 .. NsPerMicro - 1 -> <<0, 1>>
    [] OTHER -> <<totals.cpuTime, totals.elapsedNs \div NsPerMicro>>
LOCAL WithCpuUsage(totals) == [totals EXCEPT !.cpuUsage = CpuUsage(totals)]
LOCAL Complete(d) == {"name", "value", "type"} \subseteq {d.schema[j][1] : j \in DOMAIN d.schema}
ProcessProfileEvents(d, totals) ==
  IF Complete(d) THEN WithCpuUsage(FoldLeft(AccumulateMetric, totals, RowObjects(d))) ELSE totals
AccumulateEvents(d, events) == IF Complete(d) THEN FoldLeft(AccumulateEvent, events, RowObjects(d)) ELSE events

LogFields == {"event_time", "event_time_microseconds", "host_name", "query_id", "thread_id", "priority", "source", "text"}
LOCAL Entries(rows) == [i \in DOMAIN rows |-> [name \in LogFields |-> rows[i][name]]]
ParseLogBlock(d) == Entries(RowObjects(d))

\* validateSchema
ValidateSchema(expected, actual) ==
  /\ Len(expected) = Len(actual)
  /\ \A i \in DOMAIN expected : expected[i][1] = actual[i][1] /\ expected[i][2] = actual[i][2]

-----------------------------------------------------------------------------

LOCAL Exchange(meant, read) == [meant |-> meant, read |-> read]
PacketInit ==
  /\ stage = "new" /\ revision = 0 /\ method \in Methods
  /\ exchange = Exchange(<<>>, <<>>) /\ packets = 0
  /\ accumulated = CreateAccumulators /\ profileEvents = <<>>
  /\ sums = [name \in ProgressNames |-> 0] /\ eventRows = <<>>

\* handshake: Hello, the server's Hello, and the addendum unless the server insists on chunks
LOCAL HelloMeant(r, greeting) ==
  [name |-> Text("plain", <<"server">>), revision |-> r,
   timezone |-> IF r < 54058 THEN EmptyText ELSE Text("plain", <<"timezone">>),
   displayName |-> IF r < 54372 THEN EmptyText ELSE Text("plain", <<"display">>),
   patch |-> IF r < 54401 THEN r ELSE 3,
   chunked |-> r >= 54470 /\ <<"chunked">> \in {greeting.send, greeting.recv}]
LOCAL Modes(d) == Whole(d.reader, IF "send" \in DOMAIN d.value THEN {d.value.send[3], d.value.recv[3]} ELSE {})
LOCAL User(d) == Whole(d.reader, <<d.value.database[3], d.value.user[3], d.value.password[3]>>)
LOCAL Handshake(asked, r, greeting, told) ==
  /\ exchange' = Exchange(<<<<<<<<"database">>, <<"user">>, <<"pass">>>>>>, <<HelloMeant(r, greeting)>>,
                            <<IF r >= 54470 THEN {<<"notchunked">>} ELSE {}>>>>,
                          <<User(asked), Whole(told.reader, told.value),
                            Modes(ReadFields(Reader(EncodeAddendum(told.value.revision)), ServerReadsAddendum, r))>>)
  /\ revision' = told.value.revision
  /\ stage' = IF told.value.chunked THEN "refused" ELSE "open"
LOCAL Answer(peer, asked, greeting) ==
  \E r \in {IF peer < asked.value.revision THEN peer ELSE asked.value.revision} :
    \E told \in {ReadHello(ServerHello(peer, r, greeting))} : Handshake(asked, r, greeting, told)
Connect ==
  /\ stage = "new"
  /\ \E peer \in Peers, greeting \in Greetings :
       \E asked \in {ReadFields(Reader(EncodeHello), ServerReadsHello, 0)} : Answer(peer, asked, greeting)
  /\ UNCHANGED <<method, packets, accumulated, profileEvents, sums, eventRows>>

LOCAL Compressed == method # <<>>
LOCAL FirstOf(name, f, g, h) == IF name \in DOMAIN f THEN f[name] ELSE IF name \in DOMAIN g THEN g[name] ELSE h[name]
LOCAL Override(f, g, h) == [name \in DOMAIN f \cup DOMAIN g \cup DOMAIN h |-> FirstOf(name, f, g, h)]
LOCAL QueryMeant(query, settings, params) ==
  Query(Text("plain", query.id), <<1, 1, 1>>, Text("plain", <<"ClickHouse">>), settings, 2, IF Compressed THEN 1 ELSE 0,
        Text("plain", query.text), IF revision >= 54459 THEN FoldLeft(LAMBDA f, p : (p[1] :> p[2]) @@ f, <<>>, params) ELSE <<>>)
LOCAL Begin(settings, params) ==
  \E query \in {[id |-> <<"id">>, text |-> <<"text">>]} :
    exchange' = Exchange(<<QueryMeant(query, Override(settings, Defaults, NetworkSettings(method)), params)>>,
                         ServerQuery(EncodeQuery(query, revision, MergedSettings(method, settings), Compressed, params), revision))
\* The Query packet of queryImpl, or of sendInsertQueryAndGetSchema.
Start ==
  /\ stage = "open"
  /\ \E settings \in CallSettings, params \in CallParams :
       /\ Begin(settings, params)
       /\ stage' \in {"query"} \cup (IF params = <<>> THEN {"schema"} ELSE {})
  /\ UNCHANGED <<revision, method, packets, accumulated, profileEvents, sums, eventRows>>

\* The packets with a block that may come next: the client's tables, the last of them the
\* delimiter; the header of an insert; data, totals and extremes; diagnostics, which a
\* server never compresses and its client never expects to be.
LOCAL Packet(id, client, block, compression) == [id |-> id, client |-> client, block |-> block, compression |-> compression]
LOCAL FromServer == {compression \in Methods : (compression = <<>>) = ~Compressed}
Passing ==
  {Packet(2, TRUE, table, method) : table \in IF stage \in {"query", "insert"} /\ packets = 0 THEN Tables \cup {Delimiter} ELSE {}}
    \cup {Packet(1, FALSE, [table EXCEPT !.name = <<>>, !.count = 0], compression) :
            table \in IF stage = "schema" THEN Tables ELSE {}, compression \in FromServer}
    \cup {Packet(id, FALSE, [table EXCEPT !.name = <<>>], compression) :
            id \in {1, 7, 8}, table \in IF stage = "query" /\ packets = 0 THEN Tables ELSE {}, compression \in FromServer}
    \cup {Packet(10, FALSE, LogBlock, <<>>) : n \in IF stage \in {"query", "insert"} /\ packets = 0 THEN {1} ELSE {}}
    \cup {Packet(14, FALSE, block, <<>>) :
            block \in IF stage \in {"query", "insert"} /\ packets < MaxPackets THEN EventBlocks ELSE {}}

LOCAL BlockMeant(block) ==
  [name |-> block.name, schema |-> block.schema,
   rows |-> [i \in 1 .. block.count |-> [j \in DOMAIN block.columns |-> At(block.columns[j], i)]]]
LOCAL TakeEvents(meant, d) ==
  /\ accumulated' = FoldLeft(LAMBDA totals, read : ProcessProfileEvents(read, totals), accumulated, d)
  /\ profileEvents' = FoldLeft(LAMBDA events, read : AccumulateEvents(read, events), profileEvents, d)
  /\ eventRows' = eventRows \o RowObjects(meant)
  /\ packets' = packets + 1
  /\ UNCHANGED stage
LOCAL OtherBlock == UNCHANGED <<packets, accumulated, profileEvents, eventRows>>
LOCAL TakeBlock(packet, meant, d) ==
  /\ exchange' = IF packet.id = 10 THEN Exchange(<<RowObjects(meant)>>, [i \in DOMAIN d |-> ParseLogBlock(d[i])])
                 ELSE Exchange(<<meant>>, d)
  /\ \/ packet.id = 14 /\ TakeEvents(meant, d)
     \/ /\ stage = "schema" /\ OtherBlock
        /\ stage' = IF d # <<>> /\ (Expected = <<>> \/ ValidateSchema(Expected, d[1].schema)) THEN "insert" ELSE "mismatch"
     \/ packet.id # 14 /\ stage # "schema" /\ OtherBlock /\ UNCHANGED stage
\* One of them arrives, and is read.
PassBlock ==
  /\ \E packet \in Passing :
       \E d \in {ReadData(EncodeData(packet, revision), packet.id, revision, packet.compression # <<>>)} :
         TakeBlock(packet, BlockMeant(packet.block), d)
  /\ UNCHANGED <<revision, method, sums>>

LOCAL Sent(layout, values) == [name \in {Of(revision, layout)[i].name : i \in DOMAIN Of(revision, layout)} |-> values[name]]
TakeProgress ==
  /\ stage \in {"query", "insert"} /\ packets < MaxPackets /\ packets' = packets + 1
  /\ \E delta \in Deltas :
       \E d \in {ReadProgress(Reader(Put(Of(revision, ServerProgress), delta)), revision)} :
         /\ exchange' = Exchange(<<Sent(ServerProgress, delta)>>, Whole(d.reader, d.value))
         /\ \E totals \in {AccumulateProgress(d.value, accumulated)} :
              accumulated' = IF stage = "query" THEN [totals EXCEPT !.percent = Percent(totals)] ELSE totals
         /\ sums' = [name \in ProgressNames |-> sums[name] + OrZero(Sent(ServerProgress, delta), name)]
  /\ UNCHANGED <<stage, revision, method, profileEvents, eventRows>>
TakeProfileInfo ==
  /\ stage \in {"query", "insert"} /\ packets = 0
  /\ \E info \in Infos :
       \E d \in {ReadProfileInfo(Reader(Put(Of(revision, ServerProfileInfo), info)), revision)} :
         exchange' = Exchange(<<Sent(ServerProfileInfo, info)>>, Whole(d.reader, d.value))
  /\ UNCHANGED <<stage, revision, method, packets, accumulated, profileEvents, sums, eventRows>>

PacketNext == Connect \/ Start \/ PassBlock \/ TakeProgress \/ TakeProfileInfo

-----------------------------------------------------------------------------

LOCAL Total(values) == FoldLeft(LAMBDA sum, v : sum + v, 0, values)
LOCAL Values(rows) == [i \in DOMAIN rows |-> rows[i].value[2]]
LOCAL RowsNamed(name) == SelectSeq(eventRows, LAMBDA row : row.name = name)
LOCAL QueryRows(names) == Values(SelectSeq(eventRows, LAMBDA row : ("thread_id" \notin DOMAIN row \/ row.thread_id = <<"bigint", 0>>)
                                                          /\ row.name \in {Event(n) : n \in names}))
LOCAL Gauges(rows) == {i \in DOMAIN rows : ~Increment(rows[i])}
\* The last gauge and what came on top of it.
LOCAL Level(rows) == Total(Values(SubSeq(rows, IF Gauges(rows) = {} THEN 1 ELSE Max(Gauges(rows)), Len(rows))))

\* Each side takes every packet for what the other meant by it, to the last field and no
\* further, whatever the revisions of the two are: one field too many or too few and all
\* that follows would be read askew.  What the client has accumulated is the sum of what
\* the server has sent, whatever fields the revision leaves out; a query is at 100
\* percent when the rows it has read are all the rows there are to read, and never beyond;
\* and an event is its last gauge and the increments since (encodeHello, encodeAddendum,
\* encodeQuery, encodeData, encodeBlock, decodeBlock, handshake, readProgress,
\* readProfileInfo, accumulateProgress, processProfileEventsBlock).
PacketsAgree ==
  /\ exchange.meant = exchange.read
  /\ \A name \in ProgressNames : accumulated[name] = sums[name]
  /\ accumulated.percent \in 0 .. 100
  /\ stage = "query" =>
       (accumulated.percent = 100) = (accumulated.readRows > 0 /\ accumulated.readRows >= accumulated.totalRowsToRead)
  /\ profileEvents = [name \in {eventRows[i].name : i \in DOMAIN eventRows} |-> Level(RowsNamed(name))]
  /\ accumulated.cpuTime = Total(QueryRows({"UserTimeMicroseconds", "SystemTimeMicroseconds"}))
  /\ accumulated.peakMemoryUsage = Max({0} \cup ToSet(QueryRows({"MemoryTrackerPeakUsage"})))
=============================================================================
