----------------------------- MODULE HttpRequest -----------------------------
(***************************************************************************)
(* What the HTTP client asks of a server: the URL, the headers and the     *)
(* body of query() and insert() in src/client.ts, the LZ4 frames of        *)
(* src/compression.ts, and the error and the summary read from the reply.  *)
(* The server is external: it reads the request the way ClickHouse does.   *)
(* Texts are sequences of tokens, as in QueryParams; a byte of a text is   *)
(* <<TextByte, token>>.  HttpClient has what happens once it is sent.      *)
(***************************************************************************)
EXTENDS TcpPackets, QueryParams
LOCAL INSTANCE Integers
LOCAL INSTANCE Sequences
LOCAL INSTANCE SequencesExt
LOCAL INSTANCE FiniteSetsExt
LOCAL INSTANCE Functions

CONSTANTS HttpDefaults,    \* options of a call without options, and what it calls, by name
          HttpChoices,     \* the other values each of them may have
          SettingNames,    \* the settings the server knows
          TextFormats,     \* formats that isTextFormat knows for text
          FrameBlock,      \* LZ4_FRAME_BLOCK_SIZE
          MaxChoices       \* bound: options given in a call

VARIABLES httpOptions,     \* QueryOptions or InsertOptions, with the query and the operation
          choices          \* how many of them were chosen; there is no call before the first
requestVars == <<httpOptions, choices>>

TextByte == 98
LOCAL Utf8(text) == [i \in DOMAIN text |-> <<TextByte, text[i]>>]
LOCAL Given(v) == v # Undefined
\* Neither undefined nor "" nor 0 nor false.
LOCAL Truthy(v) == v \notin {Undefined, <<>>, Number(0), <<"bool", FALSE>>}
LOCAL Only(condition, f) == IF condition THEN f ELSE <<>>
\* String(v): a string is its text
LOCAL Stringified(v) == IF v[1] = "text" THEN v[3] ELSE <<CoerceToString(v, MsPrecision)>>
LOCAL Bytes(numbers) == [i \in DOMAIN numbers |-> U8(numbers[i])]

-----------------------------------------------------------------------------
(* The URL.  A key is a tuple; a parameter's or a table's has its name. *)

\* mergeParams; later keys replace earlier ones.
LOCAL MergeParams(target, source) == [key \in DOMAIN source |-> Stringified(source[key])] @@ target
LOCAL MergeQueryParams(target, serialized) ==
  [key \in {<<"param", serialized[i][1]>> : i \in DOMAIN serialized} |->
     HttpParam(serialized[CHOOSE i \in DOMAIN serialized : serialized[i][1] = key[2]][2])] @@ target

Reserved ==
  {"url", "auth", "compression", "compressQuery", "framing", "signal", "timeout", "clientVersion", "settings",
   "params", "externalTables", "queryId", "sessionId"}
\* An option of query(), by the name it has in the options object.
LOCAL Root(options) == [key \in {<<name>> : name \in Reserved} |-> options[key[1]]] @@ options.raw
RawKeys(root) == {key \in DOMAIN root : key[1] \notin Reserved /\ root[key] # Undefined}
LOCAL MergeRaw(target, root) == MergeParams(target, [key \in RawKeys(root) |-> root[key]])

LOCAL QueryUrl(o, serialized) ==
  LET own == <<"default_format">> :> <<IF Truthy(o.framing) THEN "JSONEachRow" ELSE "JSONEachRowWithProgress">>
      asked == Only(Truthy(o.sessionId), <<"session_id">> :> o.sessionId)
                 @@ Only(o.compression # <<"bool", FALSE>>, <<"compress">> :> <<"1">>)
                 @@ Only(Truthy(o.compressQuery), <<"enable_http_compression">> :> <<"1">>)
                 @@ Only(Truthy(o.framing), <<"framing_output_format">> :> o.framing)
                 @@ Only(Truthy(o.clientVersion), <<"client_protocol_version">> :> Stringified(o.clientVersion))
                 @@ Only(Truthy(o.queryId), <<"query_id">> :> o.queryId)
  IN MergeRaw(MergeQueryParams(MergeParams(asked @@ own, o.settings), serialized), Root(o))
LOCAL InsertUrl(o, serialized) ==
  LET own == (<<"query">> :> o.sql.text) @@ (<<"decompress">> :> <<"1">>)
      asked == Only(Truthy(o.sessionId), <<"session_id">> :> o.sessionId)
                 @@ Only(Truthy(o.queryId), <<"query_id">> :> o.queryId)
  IN MergeQueryParams(MergeParams(asked @@ own, o.settings), serialized)

AuthHeaders(auth) ==
  IF ~Truthy(auth.username) THEN <<>>
  ELSE (<<"X-ClickHouse-User">> :> auth.username) @@ Only(Truthy(auth.password), <<"X-ClickHouse-Key">> :> auth.password)

\* createSignal: what it aborts on; no signal at all when there is nothing.
CreateSignal(signal, timeout) ==
  CASE ~Given(signal) /\ ~Truthy(timeout) -> {}
    [] Given(signal) /\ (signal = <<"aborted">> \/ ~Truthy(timeout)) -> {signal}
    [] ~Given(signal) /\ Truthy(timeout) -> {timeout}
    [] OTHER -> {signal, timeout}

-----------------------------------------------------------------------------
(* External tables.  A structure is a sequence of columns, a type one of   *)
(* its tokens; a batch is a table as in TcpPackets.                        *)

LOCAL Separator == <<",">>
LOCAL Structure(t) == FlattenSeq([j \in DOMAIN t.schema |->
                            Only(j > 1, <<Separator>>) \o <<<<"name", t.schema[j][1]>>, <<"type", t.schema[j][2]>>>>])
LOCAL Encoded(t) ==
  EncodeBlock([j \in DOMAIN t.schema |-> t.schema[j][1]], [j \in DOMAIN t.schema |-> t.schema[j][2]],
              t.columns, t.count)
LOCAL Empty == [structure |-> <<>>, format |-> Undefined, chunks |-> <<>>, stream |-> FALSE]
\* normalizeExternalTable: <<"table", structure, format, data>>, <<"batch", batches>> with one,
\* <<"batches", batches>> or <<"async", batches>>; Empty stands for the exception
NormalizeExternalTable(input) ==
  CASE input[1] = "table" -> [structure |-> input[2], format |-> input[3], chunks |-> input[4], stream |-> Len(input[4]) > 1]
    [] input[1] # "table" /\ input[2] = <<>> -> Empty
    [] OTHER -> [structure |-> Structure(input[2][1]), format |-> <<"Native">>, stream |-> input[1] = "async",
                 chunks |-> [i \in DOMAIN input[2] |-> Encoded(input[2][i])]]
LOCAL Normalized(tables) == [i \in DOMAIN tables |-> [name |-> tables[i][1], table |-> NormalizeExternalTable(tables[i][2])]]

\* The boundary is random: nothing else has it.
LOCAL Mark == <<99, "mark">>
LOCAL Closing == <<99, "closing">>
LOCAL CrLf == <<99, "crlf">>
LOCAL PartHeader(name) == <<Mark, <<97, name>>, CrLf, CrLf>>
LOCAL Part(t) == PartHeader(t.name) \o FlattenSeq(t.table.chunks) \o <<CrLf>>
BuildMultipartBody(tables) ==
  [body |-> FlattenSeq([i \in DOMAIN tables |-> Part(tables[i])]) \o <<Closing>>,
   streaming |-> \E i \in DOMAIN tables : tables[i].table.stream]
LOCAL TableParams(tables) ==
  [key \in {<<"structure", tables[i].name>> : i \in DOMAIN tables}
             \cup {<<"format", tables[i].name>> : i \in {k \in DOMAIN tables : Truthy(tables[k].table.format)}} |->
     tables[CHOOSE i \in DOMAIN tables : tables[i].name = key[2]].table[key[1]]]

-----------------------------------------------------------------------------
(* lz4CompressFrame: a block that does not get smaller is sent as it is. *)

FrameHeader == Bytes(<<4, 34, 77, 24, 96, 112, 115>>)
LOCAL FrameSize(n, raw) == Bytes([WriteUInt32LE(n) EXCEPT ![4] = IF raw THEN @ + 128 ELSE @])
LOCAL ShorterBlock(data, block) ==
  IF Len(data) < Len(block) THEN FrameSize(Len(data), FALSE) \o data ELSE FrameSize(Len(block), TRUE) \o block
LOCAL FramePart(block) == ShorterBlock(Compress(130, block), block)
LOCAL FrameOffsets(raw) == [k \in 1 .. (Len(raw) + FrameBlock - 1) \div FrameBlock |-> (k - 1) * FrameBlock]
Lz4CompressFrame(raw) ==
  FrameHeader \o FlattenSeq([k \in DOMAIN FrameOffsets(raw) |->
                   FramePart(SubSeq(raw, FrameOffsets(raw)[k] + 1, Min({Len(raw), FrameOffsets(raw)[k] + FrameBlock})))])
    \o Bytes(<<0, 0, 0, 0>>)

-----------------------------------------------------------------------------
(* The request, or nothing when the call throws before it is sent. *)

LOCAL HasTables(o) == o.externalTables # <<>>
LOCAL QueryBody(o, multipart) ==
  CASE HasTables(o) -> multipart.body
    [] ~HasTables(o) /\ ~Truthy(o.compressQuery) -> Utf8(o.sql.text)
    [] ~HasTables(o) /\ o.compressQuery = <<"lz4">> -> Lz4CompressFrame(Utf8(o.sql.text))
    [] OTHER -> Compress(144, Utf8(o.sql.text))
LOCAL QueryHeaders(o) ==
  AuthHeaders(o.auth) @@ (<<"Accept-Encoding">> :> <<"identity">>)
    @@ Only(~HasTables(o) /\ Truthy(o.compressQuery), <<"Content-Encoding">> :> SubSeq(o.compressQuery, 1, 1))
LOCAL Send(url, headers, body, streaming, o) ==
  <<[url |-> url, headers |-> headers, body |-> body, streaming |-> streaming, duplex |-> streaming,
     signal |-> CreateSignal(o.signal, o.timeout)]>>
LOCAL TablesInUrl(o, tables) == Only(HasTables(o), TableParams(tables) @@ (<<"query">> :> o.sql.text))
LOCAL SendQuery(o, serialized, tables, multipart) ==
  IF \E i \in DOMAIN tables : tables[i].table = Empty THEN <<>>
  ELSE Send(TablesInUrl(o, tables) @@ QueryUrl(o, serialized), QueryHeaders(o), QueryBody(o, multipart),
            HasTables(o) /\ multipart.streaming, o)
LOCAL WithTables(o, serialized, tables) == SendQuery(o, serialized, tables, BuildMultipartBody(tables))
LOCAL SendInsert(o, serialized) ==
  IF o.bufferSize <= 0 THEN <<>> ELSE Send(InsertUrl(o, serialized), AuthHeaders(o.auth), <<>>, TRUE, o)
Request(o) ==
  IF o.operation = "query" THEN WithTables(o, SerializeParams(o.sql.text, o.params), Normalized(o.externalTables))
  ELSE SendInsert(o, SerializeParams(o.sql.text, o.params))
\* insert: when its buffer is sent as a block
Threshold(o) == Min({IF Given(o.threshold) THEN o.threshold[2] ELSE o.bufferSize - 2048, o.bufferSize})

\* extractResponseFormat: the word after the last FORMAT, wherever that is.
LOCAL IsFormat(text, i) ==
  /\ text[i] \in {"FORMAT", "format"} /\ (i > 1 => text[i - 1] \notin Letters)
  /\ i + 2 <= Len(text) /\ text[i + 1] \in Blanks
LOCAL AfterBlanks(text, i) == SkipAll(SubSeq(text, i + 1, Len(text)), Blanks)
\* matchAll goes on behind a match: its name cannot begin the next.
LOCAL AddFormat(text, found, i) ==
  LET rest == AfterBlanks(text, i)
  IN IF i < found.next \/ ~IsFormat(text, i) \/ rest = <<>> \/ Head(rest) \notin Letters THEN found
     ELSE [next |-> Len(text) - Len(rest) + 2, names |-> Append(found.names, <<Head(rest)>>)]
LOCAL Formats(text) ==
  FoldLeft(LAMBDA found, i : AddFormat(text, found, i), [next |-> 1, names |-> <<>>], [i \in DOMAIN text |-> i]).names
\* (A mutation: the first.)
FirstFormat(names) == IF names = <<>> THEN <<>> ELSE Head(names)
LastFormat(names) == IF names = <<>> THEN <<>> ELSE names[Len(names)]
LOCAL StringAt(f, key, other) == IF key \in DOMAIN f THEN IF f[key][1] = "text" THEN f[key][3] ELSE other ELSE other
LOCAL DefaultFormat(o) ==
  StringAt(o.raw, <<"default_format">>, StringAt(o.settings, <<"default_format">>, <<"JSONEachRowWithProgress">>))
LOCAL OrDefault(name, o) == IF name = <<>> THEN DefaultFormat(o) ELSE name
ExtractResponseFormat(o) == OrDefault(LastFormat(Formats(o.sql.text)), o)
IsTextFormat(format) == format[1] \in TextFormats

-----------------------------------------------------------------------------
(* Replies. *)

\* parseErrorText, of what follows a "Code:", or nothing.
LOCAL AfterCode(code, run, rest) ==
  IF code = <<>> \/ Len(run) < 2 \/ rest = <<>> THEN <<>>
  ELSE IF run[Len(run)] # ":" THEN <<>> ELSE <<[code |-> NumberOf(code), name |-> SubSeq(run, 1, Len(run) - 1), message |-> Trimmed(rest)]>>
LOCAL RunOf(text) == SelectInSeq(text \o <<" ">>, LAMBDA c : c \in Blanks) - 1
LOCAL NameFrom(code, text) == AfterCode(code, SubSeq(text, 1, RunOf(text)), Dropped(text, RunOf(text)))
LOCAL AfterDigits(code, rest) ==
  IF ~IsPrefix(<<".">>, rest) THEN <<>> ELSE NameFrom(code, SkipAll(Tail(rest), Blanks))
LOCAL CodeFrom(text) == AfterDigits(LeadingDigits(text), Dropped(text, Len(LeadingDigits(text))))
LOCAL ErrorAt(text, i) ==
  IF IsPrefix(<<"Code", ":">>, Dropped(text, i - 1)) THEN CodeFrom(SkipAll(Dropped(text, i + 1), Blanks)) ELSE <<>>
LOCAL Errors(text) == SelectSeq([i \in DOMAIN text |-> ErrorAt(text, i)], LAMBDA e : e # <<>>)
LOCAL FirstError(text, errors) ==
  IF errors = <<>> THEN [code |-> 0, name |-> <<"Unknown">>, message |-> Trimmed(text)] ELSE errors[1][1]
ParseErrorText(text) == FirstError(text, Errors(text))
\* parseHttpError: the header's code counts.
ParseHttpError(header, text) == IF header = <<>> THEN ParseErrorText(text) ELSE [ParseErrorText(text) EXCEPT !.code = header[1]]

\* parseSummary and parseProgress: an object in JSON, or the names they count with no count.
SummaryNames == {"read_rows", "read_bytes", "written_rows", "written_bytes", "total_rows_to_read", "result_rows",
                 "result_bytes", "elapsed_ns"}
ProgressHeaderNames == {"read_rows", "read_bytes", "total_rows_to_read"}
LOCAL Counts(header, names) ==
  IF header = <<>> \/ header = <<"malformed", "json">> THEN [name \in names |-> <<"0">>] ELSE header[1]
ParseSummary(header) == Counts(header, SummaryNames)
ParseProgress(header) == Counts(header, ProgressHeaderNames)

-----------------------------------------------------------------------------
(* The server. *)

LOCAL Refused == <<99, "refused">>
RECURSIVE ReadFrameBlocks(_)
LOCAL FrameContent(raw, data) == IF raw THEN data ELSE Decompress(130, data)
LOCAL AfterSize(size, raw, rest) ==
  CASE size = 0 /\ ~raw -> IF rest = <<>> THEN <<>> ELSE <<Refused>>
    [] Len(rest) < size -> <<Refused>>
    [] OTHER -> FrameContent(raw, SubSeq(rest, 1, size)) \o ReadFrameBlocks(Dropped(rest, size))
ReadFrameBlocks(bytes) ==
  IF Len(bytes) < 4 THEN <<Refused>>
  ELSE AfterSize(ReadUInt32LE([i \in 1 .. 4 |-> IF i = 4 THEN bytes[i][2] % 128 ELSE bytes[i][2]]),
                 bytes[4][2] >= 128, Dropped(bytes, 4))
LOCAL ReadFrame(bytes) == IF IsPrefix(FrameHeader, bytes) THEN ReadFrameBlocks(Dropped(bytes, 7)) ELSE <<Refused>>
LOCAL Get(f, key, other) == IF key \in DOMAIN f THEN f[key] ELSE other
LOCAL ServerBody(request, coding) ==
  CASE Get(request.url, <<"enable_http_compression">>, <<>>) # <<"1">> -> request.body
    [] coding = <<"lz4">> -> ReadFrame(request.body)
    [] coding = <<"zstd">> -> Decompress(144, request.body)
    [] OTHER -> request.body

\* A part: its name and what it has up to the next boundary.
LOCAL Boundaries(body) == {i \in 1 .. Len(body) : body[i] \in {Mark, Closing}}
LOCAL PartAt(body, i, end) == [name |-> body[i + 1][2], data |-> SubSeq(body, i + 4, end - 2)]
LOCAL NextOf(body, i) == Min({k \in Boundaries(body) : k > i})
LOCAL PartsOf(body) ==
  LET marks == SetToSortSeq(Boundaries(body) \ {Len(body)}, <)
  IN [k \in DOMAIN marks |-> PartAt(body, marks[k], NextOf(body, marks[k]))]
RECURSIVE ServerRows(_)
LOCAL RowsAndMore(d) ==
  IF ~d.reader.ok THEN <<Refused>>
  ELSE [i \in 1 .. d.count |-> [j \in DOMAIN d.columns |-> At(d.columns[j], i)]] \o ServerRows(d.reader.left)
ServerRows(tokens) == IF tokens = <<>> THEN <<>> ELSE RowsAndMore(DecodeBlock(tokens, 0))
LOCAL ListedColumns(structure) ==
  [k \in 1 .. (Len(structure) + 1) \div 3 |-> <<structure[3 * k - 2][2], structure[3 * k - 1][2]>>]
LOCAL ServerTable(part, format, url) ==
  [name |-> part.name, format |-> format, columns |-> ListedColumns(url[<<"structure", part.name>>]),
   content |-> IF format = <<"Native">> THEN ServerRows(part.data) ELSE part.data]
LOCAL ServerTables(parts, url) ==
  [k \in DOMAIN parts |-> ServerTable(parts[k], Get(url, <<"format", parts[k].name>>, <<"TabSeparated">>), url)]

LOCAL Keyed(f, word) == {key \in DOMAIN f : Len(key) = 2 /\ key[1] = word}
LOCAL Transport ==
  {<<"default_format">>, <<"session_id">>, <<"compress">>, <<"decompress">>, <<"enable_http_compression">>, <<"query">>,
   <<"framing_output_format">>, <<"client_protocol_version">>, <<"query_id">>}
LOCAL Understood(url) ==
  \A key \in DOMAIN url : key \in Transport \cup SettingNames \/ key[1] \in {"param", "structure", "format"}
LOCAL FormatOf(o, url) == IF o.sql.clause # <<>> THEN o.sql.clause ELSE Get(url, <<"default_format">>, <<"TabSeparated">>)
\* What it understands of any call, and of a query.
LOCAL ServerCall(request) ==
  [settings |-> [key \in DOMAIN request.url \cap SettingNames |-> request.url[key]],
   params |-> [name \in {key[2] : key \in Keyed(request.url, "param")} |-> request.url[<<"param", name>>]],
   session |-> Get(request.url, <<"session_id">>, <<>>), id |-> Get(request.url, <<"query_id">>, <<>>),
   user |-> Get(request.headers, <<"X-ClickHouse-User">>, <<>>),
   password |-> Get(request.headers, <<"X-ClickHouse-Key">>, <<>>)]
LOCAL ServerQueryText(request, multipart, coding) ==
  Utf8(Get(request.url, <<"query">>, <<>>)) \o (IF multipart THEN <<>> ELSE ServerBody(request, coding))
LOCAL ServerAnswer(o, url, headers) ==
  [format |-> FormatOf(o, url), compressed |-> Get(url, <<"compress">>, <<>>) = <<"1">>,
   framing |-> Get(url, <<"framing_output_format">>, <<>>), version |-> Get(url, <<"client_protocol_version">>, <<>>),
   coded |-> /\ Get(url, <<"enable_http_compression">>, <<>>) = <<"1">>
             /\ Get(headers, <<"Accept-Encoding">>, <<"gzip">>) # <<"identity">>]

-----------------------------------------------------------------------------

RequestInit == httpOptions = HttpDefaults /\ choices = 0
\* The application gives one more option.
Choose ==
  /\ choices < MaxChoices /\ choices' = choices + 1
  /\ \E option \in DOMAIN HttpChoices : \E v \in HttpChoices[option] :
       httpOptions[option] = HttpDefaults[option] /\ httpOptions' = [httpOptions EXCEPT ![option] = v]

-----------------------------------------------------------------------------

\* What the application asked for.
LOCAL DefinedRaw(o) == [key \in {k \in DOMAIN o.raw : o.raw[k] # Undefined /\ o.operation = "query"} |-> o.raw[key]]
LOCAL CallMeant(o) ==
  LET settings == DefinedRaw(o) @@ o.settings
      values == SerializeParams(o.sql.text, o.params)
  IN [settings |-> [key \in DOMAIN settings \cap SettingNames |-> Stringified(settings[key])],
      params |-> [name \in {values[i][1] : i \in DOMAIN values} |->
                    HttpParam(values[CHOOSE i \in DOMAIN values : values[i][1] = name][2])],
      session |-> IF Given(o.sessionId) THEN o.sessionId ELSE <<>>, id |-> IF Given(o.queryId) THEN o.queryId ELSE <<>>,
      user |-> IF Given(o.auth.username) THEN o.auth.username ELSE <<>>,
      password |-> IF Truthy(o.auth.username) /\ Given(o.auth.password) THEN o.auth.password ELSE <<>>]
LOCAL BatchRows(t) == [i \in 1 .. t.count |-> [j \in DOMAIN t.columns |-> At(t.columns[j], i)]]
LOCAL TableMeant(name, input) ==
  IF input[1] = "table"
  THEN [name |-> name, columns |-> ListedColumns(input[2]), content |-> FlattenSeq(input[4]),
        format |-> IF Given(input[3]) THEN input[3] ELSE <<"TabSeparated">>]
  ELSE [name |-> name, columns |-> input[2][1].schema, format |-> <<"Native">>,
        content |-> FlattenSeq([i \in DOMAIN input[2] |-> BatchRows(input[2][i])])]
LOCAL Default(o) == IF Truthy(o.framing) THEN <<"JSONEachRow">> ELSE <<"JSONEachRowWithProgress">>
LOCAL FormatMeant(o) ==
  IF o.sql.clause # <<>> THEN o.sql.clause
  ELSE StringAt(o.raw, <<"default_format">>, StringAt(o.settings, <<"default_format">>, Default(o)))
LOCAL AnswerMeant(o) ==
  [format |-> FormatMeant(o), compressed |-> o.compression # <<"bool", FALSE>>,
   framing |-> IF Given(o.framing) THEN o.framing ELSE <<>>,
   version |-> IF Truthy(o.clientVersion) THEN Stringified(o.clientVersion) ELSE <<>>, coded |-> FALSE]
LOCAL QueryArrives(o, request, coding) ==
  /\ ServerQueryText(request, HasTables(o), coding) = Utf8(o.sql.text)
  /\ HasTables(o) => ServerTables(PartsOf(request.body), request.url)
                       = [i \in DOMAIN o.externalTables |-> TableMeant(o.externalTables[i][1], o.externalTables[i][2])]
  /\ ServerAnswer(o, request.url, request.headers) = AnswerMeant(o)
LOCAL InsertArrives(o, request) ==
  request.url[<<"query">>] = o.sql.text /\ request.url[<<"decompress">>] = <<"1">> /\ Threshold(o) <= o.bufferSize
LOCAL Arrived(o, request) ==
  /\ Understood(request.url)
  /\ ServerCall(request) = CallMeant(o)
  /\ IF o.operation = "query" THEN QueryArrives(o, request, Get(request.headers, <<"Content-Encoding">>, <<>>))
     ELSE InsertArrives(o, request)
  /\ request.streaming => request.duplex
  /\ Truthy(o.timeout) /\ o.signal # <<"aborted">> => o.timeout \in request.signal
  /\ Given(o.signal) => o.signal \in request.signal

LOCAL Meaningless(o) ==
  IF o.operation = "insert" THEN o.bufferSize <= 0
  ELSE \E i \in DOMAIN o.externalTables : o.externalTables[i][2][2] = <<>>

\* A request means to the server what the application's options say, in whatever
\* combination they are given: the text of the query, however it is compressed or wherever
\* it is put, the parameters, the settings with the raw options over them and none of the
\* options that are the client's own, who asks, the rows of every external table, however
\* they are given; and the answer comes in the encoding and the framing the client will
\* decode.  The rule that a trailer begins a line is only used on formats of text.  A call
\* that cannot be meant is refused before it is sent; an error is the server's own, not
\* one quoted in its message; and counts are the server's, or none when they cannot be
\* read (query, insert, buildReqUrl, mergeRawHttpQueryOptions,
\* normalizeExternalTables, buildMultipartBody, lz4CompressFrame, extractResponseFormat,
\* parseHttpError).
RequestMeant ==
  choices > 0 =>
    /\ \E request \in {Request(httpOptions)} :
         IF Meaningless(httpOptions) THEN request = <<>> ELSE Len(request) = 1 /\ Arrived(httpOptions, request[1])
    /\ IsTextFormat(ExtractResponseFormat(httpOptions)) => FormatMeant(httpOptions)[1] \in TextFormats
    /\ ~httpOptions.sql.decoy => ExtractResponseFormat(httpOptions) = FormatMeant(httpOptions) \/ Truthy(httpOptions.framing)
    /\ ParseHttpError(httpOptions.reply.header, httpOptions.reply.text) = httpOptions.reply.meant
    /\ ParseSummary(httpOptions.reply.counts) = httpOptions.reply.counted
    /\ \A name \in ProgressHeaderNames :
         ParseProgress(httpOptions.reply.counts)[name] = httpOptions.reply.counted[name]
=============================================================================
