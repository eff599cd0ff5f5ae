----------------------------- MODULE MCRequests -----------------------------
(***************************************************************************)
(* Calls for HttpRequest: each option in its forms, given or not, three of *)
(* them at a time; and errors as servers and proxies write them.           *)
(***************************************************************************)
EXTENDS HttpRequest, MCPackets, MCParams, Integers, Sequences, TLC

LOCAL Str(content) == Text("plain", content)
LOCAL Sql(before, clause, decoy) ==
  [text |-> before \o (IF clause = <<>> THEN <<>> ELSE <<"newline", "FORMAT", " ">> \o clause), clause |-> clause, decoy |-> decoy]
LOCAL Select == <<"SELECT", " ">>
\* A parameter; a column named format; FORMAT within a string, before a clause of its own;
\* a table named format, which takes the FORMAT behind it for its name.
LOCAL Asking == Select \o <<"{", "a", ":", "String", "}", ",", "{", "b", ":", "Nullable", "(", "UInt8", ")", "}">>

LOCAL BatchTypes == <<<<"LowCardinality", <<"String">>>>, <<"UInt8">>>>
LOCAL Batch(rows) ==
  [name |-> <<>>, schema |-> <<<<"a", BatchTypes[1]>>, <<"b", BatchTypes[2]>>>>, count |-> rows,
   columns |-> [j \in 1 .. 2 |->
     FromValues(BatchTypes[j], [i \in 1 .. rows |-> IF j = 1 THEN Str(<<i>>) ELSE Number(1)])]]
\* What an application gives: batches of some numbers of rows, or a table in text.
LOCAL Input(form) ==
  IF form[1] = "table" THEN form ELSE <<form[1], [i \in DOMAIN form[2] |-> Batch(form[2][i])]>>
LOCAL TwoColumns == <<<<"name", "a">>, <<"type", <<"UInt8">>>>, <<",">>, <<"name", "b">>, <<"type", <<"Array", <<"UInt8">>>>>>>>
\* Text with a line end at its end and one at its start, in one piece or in two.
LOCAL TextTable(format, chunks) == <<"table", TwoColumns, format, chunks>>
LOCAL Line == <<<<99, "crlf">>, <<98, "a">>, <<99, "crlf">>>>
MCTablesGiven ==
  {[i \in DOMAIN forms |-> <<<<(<<"t", "u">>)[i]>>, Input(forms[i])>>] : forms \in
     {<<<<"batch", <<2>>>>>>, <<<<"batches", <<1, 2>>>>>>, <<<<"batches", <<>>>>>>, <<<<"async", <<2>>>>>>, <<<<"async", <<>>>>>>,
      <<TextTable(Undefined, <<Line>>)>>, <<TextTable(<<"CSV">>, <<Line, Line>>)>>, <<TextTable(<<"CSV">>, <<<<>>>>)>>,
      <<<<"batch", <<1>>>>, TextTable(<<"TSV">>, <<<<>>, Line>>)>>,
      <<TextTable(Undefined, <<<<>>>>), <<"async", <<1, 1>>>>>>}}

LOCAL Zeros == [name \in SummaryNames |-> <<"0">>]
LOCAL Counted == [Zeros EXCEPT !.read_rows = <<"7">>, !.elapsed_ns = <<"5">>]
LOCAL ServerError(code, digits, name, message) ==
  [header |-> <<code>>, text |-> <<"Code", ":", " ">> \o digits \o <<".", " ">> \o name \o <<":", " ">> \o message \o <<"newline">>,
   meant |-> [code |-> code, name |-> name, message |-> message], counts |-> <<Counted>>, counted |-> Counted]
LOCAL DbException == <<"DB", ":", ":", "Exception">>
LOCAL QuotedError == <<"a", " ", "Code", ":", " ", "2", ".", " ", "DB", ":", " ", "b">>
LOCAL NoError == ServerError(1, <<"1">>, DbException, <<"a">>)
LOCAL Other(text, meant) == [header |-> <<>>, text |-> text, meant |-> meant, counts |-> <<>>, counted |-> Zeros]
MCHttpReplies ==
  {ServerError(62, <<"6", "2">>, DbException, QuotedError),
   [ServerError(62, <<"6", "2">>, DbException, <<"a", "newline", "b">>) EXCEPT !.header = <<>>],
   Other(<<" ", "Bad", " ", "Gateway", "newline">>, [code |-> 0, name |-> <<"Unknown">>, message |-> <<"Bad", " ", "Gateway">>]),
   Other(<<"Code", ":", " ", "none">> \o <<" ">> \o NoError.text, NoError.meant),
   [Other(<<>>, [code |-> 9, name |-> <<"Unknown">>, message |-> <<>>]) EXCEPT !.header = <<9>>, !.counts = <<"malformed", "json">>]}

MCHttpDefaults ==
  [operation |-> "query", sql |-> Sql(Select, <<>>, FALSE), url |-> Undefined,
   auth |-> [username |-> Undefined, password |-> Undefined], compression |-> Undefined, compressQuery |-> Undefined,
   framing |-> Undefined, signal |-> Undefined, timeout |-> Undefined, clientVersion |-> Undefined, settings |-> <<>>,
   params |-> <<>>, externalTables |-> <<>>, queryId |-> Undefined, sessionId |-> Undefined, raw |-> <<>>,
   bufferSize |-> 4096, threshold |-> Undefined, reply |-> NoError]
LOCAL Forms ==
  [sql |-> {Sql(Asking, <<"CSV">>, FALSE), Sql(Select \o <<"format", " ", "FROM", " ">>, <<"Native">>, TRUE),
            Sql(Select \o <<"quote", "FORMAT", " ", "CSV", "quote">>, <<"Native">>, TRUE), Sql(Asking, <<>>, FALSE),
            Sql(Select \o <<"format", " ", "FROM">>, <<>>, TRUE), Sql(Select \o <<"format">>, <<"Native">>, TRUE)},
   auth |-> {[username |-> <<"user">>, password |-> Undefined], [username |-> <<"user">>, password |-> <<"pass">>],
             [username |-> <<>>, password |-> <<"pass">>]},
   compression |-> {<<"zstd", <<"9">>>>, <<"bool", FALSE>>}, compressQuery |-> {<<"lz4">>, <<"zstd">>, <<"zstd", <<"9">>>>},
   framing |-> {<<"JSONLines">>}, signal |-> {<<"live">>, <<"aborted">>}, timeout |-> {Number(0), Number(5)},
   clientVersion |-> {Str(<<"24.8">>), Number(54479)},
   settings |-> {<<"max">> :> Number(3), (<<"max">> :> <<"bool", TRUE>>) @@ (<<"default_format">> :> Str(<<"Native">>))},
   params |-> {<<<<<<"a">>, Str(<<78, 92, 39>>)>>, <<<<"c">>, Number(1)>>>>, <<<<<<"b">>, Null>>, <<<<"a">>, Number(7)>>>>},
   externalTables |-> MCTablesGiven, queryId |-> {<<"id">>, <<>>}, sessionId |-> {<<"session">>},
   raw |-> {(<<"max">> :> Number(4)) @@ (<<"min">> :> Undefined), <<"default_format">> :> Str(<<"TSV">>),
            (<<"default_format">> :> Undefined) @@ (<<"min">> :> Str(<<"1">>))},
   reply |-> MCHttpReplies]
LOCAL InsertForms ==
  [operation |-> {"query", "insert"}, bufferSize |-> {0, 1, 100000}, threshold |-> {Number(100), Number(200000)}]
MCHttpChoices == Forms @@ InsertForms
MCSettingNames == {<<"max">>, <<"min">>}
MCTextFormats == {"JSONEachRow", "JSONEachRowWithProgress", "CSV", "TSV", "TabSeparated"}
MCLettersAndWords == MCLetters \cup {"CSV", "TSV", "Native", "FROM", "JSONEachRow", "FORMAT"}
=============================================================================
