------------------------------ MODULE MCPackets ------------------------------
(***************************************************************************)
(* Packets for TcpPackets: servers at every revision that changes a layout *)
(* and at the one before it, one of them newer than the client.            *)
(***************************************************************************)
EXTENDS TcpPackets, Integers, Sequences, TLC

LOCAL P(content) == Text("plain", content)
\* A block of the columns of a schema.
LOCAL Built(t) ==
  [name |-> t.name, schema |-> t.schema, count |-> Len(t.values[1]),
   columns |-> [j \in DOMAIN t.schema |-> FromValues(t.schema[j][2], t.values[j])]]
LOCAL Unbuilt(name, columns, values) == [name |-> name, schema |-> columns, values |-> values]

MCPeers == {Gate.Timezone - 1, OurRevision + 9} \cup {Gate[name] : name \in DOMAIN Gate}

MCGreetings ==
  {[send |-> <<"notchunked">>, recv |-> <<"chunked_optional">>, rules |-> <<>>, settings |-> <<>>],
   [send |-> <<"notchunked">>, recv |-> <<"chunked">>, rules |-> <<"r">>, settings |-> <<>>],
   [send |-> <<"chunked">>, recv |-> <<"notchunked">>, rules |-> <<>>, settings |-> <<"s">>],
   [send |-> <<"chunked_optional">>, recv |-> <<"notchunked">>, rules |-> <<"q", "r">>, settings |-> <<"s", "t">>]}

MCMethods == {<<>>, <<"lz4">>, <<"zstd", <<"9">>>>}
MCDefaults == P(<<"a">>) :> P(<<"default">>)
MCCallSettings ==
  {<<>>, (P(<<"a">>) :> P(<<"call">>)) @@ (P(<<"b">>) :> P(<<>>)), P(<<"method">>) :> P(<<"LZ4">>)}
MCCallParams == {<<>>, <<<<P(<<"p">>), P(<<"1">>)>>, <<P(<<"q">>), P(<<>>)>>>>}

\* Some of the columns with a prefix, one table without rows: there the client would write
\* the prefix all the same, which no server reads, so that its columns have none.
LOCAL Lc == <<"LowCardinality", <<"String">>>>
MCTables ==
  {Built(t) : t \in
     {Unbuilt(<<>>, <<<<"a", <<"UInt8">>>>>>, <<<<Number(1), Number(0)>>>>),
      Unbuilt(<<"t">>, <<<<"a", <<"Array", <<"UInt8">>>>>>>>, <<<<>>>>),
      Unbuilt(<<"t">>, <<<<"a", Lc>>, <<"b", <<"UInt8">>>>>>, <<<<P(<<1>>)>>, <<Number(1)>>>>)}}
MCExpected == <<<<"a", <<"UInt8">>>>>>

LOCAL Delta(rows, total, bytes, ns) ==
  [readRows |-> rows, readBytes |-> 4, totalRowsToRead |-> total, totalBytesToRead |-> bytes,
   writtenRows |-> rows + 1, writtenBytes |-> bytes + 1, elapsedNs |-> ns]
MCDeltas == {Delta(0, 3, 5, 1), Delta(2, 0, 0, 3), Delta(3, 1, 2, 0)}
MCInfos ==
  {[rows |-> 3, blocks |-> 1, bytes |-> 9, appliedLimit |-> 1, rowsBeforeLimit |-> 7,
    calculatedRowsBeforeLimit |-> 0, appliedAggregation |-> 1, rowsBeforeAggregation |-> 8]}

\* Rows are name, value, type and, in some blocks, thread.
LOCAL EventType == <<"Enum8", <<<<Text("name", "increment"), -1>>, <<Text("name", "gauge"), 0>>>>>>
LOCAL EventSchema == <<<<"name", <<"String">>>>, <<"value", <<"Int64">>>>, <<"type", EventType>>, <<"thread_id", <<"UInt64">>>>>>
LOCAL EventValue(k, v) == CASE k = 1 -> P(<<v>>) [] k = 3 -> Text("name", v) [] OTHER -> BigInt(v)
LOCAL EventsOf(rows, n) ==
  Unbuilt(<<>>, SubSeq(EventSchema, 1, n), [k \in 1 .. n |-> [i \in DOMAIN rows |-> EventValue(k, rows[i][k])]])
MCEventBlocks ==
  {[name |-> <<>>, schema |-> <<>>, count |-> 0, columns |-> <<>>]}
  \cup {Built(t) : t \in
     {EventsOf(<<<<"UserTimeMicroseconds", 4, "increment", 0>>, <<"UserTimeMicroseconds", 7, "increment", 5>>,
                 <<"SystemTimeMicroseconds", 2, "increment", 0>>>>, 4),
      EventsOf(<<<<"MemoryTrackerUsage", 9, "gauge", 0>>, <<"MemoryTrackerPeakUsage", 9, "gauge", 0>>,
                 <<"MemoryTrackerUsage", 6, "gauge", 0>>, <<"MemoryTrackerPeakUsage", 8, "gauge", 0>>>>, 4),
      EventsOf(<<<<"MemoryTrackerUsage", 3, "gauge", 0>>, <<"SystemTimeMicroseconds", 5, "increment", 0>>>>, 3)}}

LOCAL LogSchema ==
  <<<<"event_time", <<"DateTime">>>>, <<"event_time_microseconds", <<"UInt32">>>>, <<"host_name", <<"String">>>>,
    <<"query_id", <<"String">>>>, <<"thread_id", <<"UInt64">>>>, <<"priority", <<"Int8">>>>, <<"source", <<"String">>>>,
    <<"text", <<"String">>>>>>
MCLogBlock ==
  Built(Unbuilt(<<>>, LogSchema,
    <<<<<<"date", 4>>>>, <<Number(3)>>, <<P(<<"host">>)>>, <<P(<<"id">>)>>, <<BigInt(12)>>, <<Number(-1)>>,
      <<P(<<"source">>)>>, <<P(<<"text">>)>>>>))
=============================================================================
