------------------------------- MODULE MCHttp -------------------------------
(***************************************************************************)
(* Instances of HttpClient for TLC: what callers ask for and servers       *)
(* answer, each as small as shows its case.                                *)
(***************************************************************************)
EXTENDS HttpClient

Places(kinds) == [i \in DOMAIN kinds |-> <<kinds[i], i>>]
Trailer(kinds) == [i \in DOMAIN kinds |-> <<kinds[i], 0>>]
Bytes(n) == [i \in 1 .. n |-> <<"x", i>>]

\* Content in compressed blocks.
Packed(content) ==
  FlattenSeq([b \in DOMAIN content |->
                [i \in 1 .. HeadBytes |-> <<"h", b>>] \o [i \in 1 .. Len(content[b]) |-> <<"z", b>>]])

Uncompressed(wire, asText, tag) ==
  [wire |-> wire, content |-> <<>>, corrupt |-> {}, text |-> asText, framing |-> FALSE,
   compressed |-> FALSE, tag |-> tag]
Compressed(content, end, asText) ==
  [wire |-> Packed(content) \o end, content |-> content, corrupt |-> {}, text |-> asText,
   framing |-> FALSE, compressed |-> TRUE, tag |-> TRUE]

Plain ==
  [call |-> "query", consumer |-> "raw", timed |-> FALSE, tables |-> <<>>, ok |-> TRUE,
   header |-> FALSE, raises |-> "never", output |-> <<>>, batches |-> <<>>, packets |-> <<>>,
   totals |-> <<<<0, 0>>>>, message |-> <<>>, framedError |-> FALSE, layout |-> <<>>,
   format |-> "JSONEachPacketString", lines |-> <<>>, response |-> Uncompressed(<<>>, TRUE, FALSE),
   places |-> <<0>>, starts |-> <<0>>, counts |-> <<0>>]

Tagged == Trailer(<<"m", "n", "t", "n", "c", "x">>)
Tagless == Trailer(<<"m", "n", "c">>)

\* Rows of text, then a trailer with a tag; rows, of which one looks like a
\* trailer but for where it stands; binary output with a trailer right behind it.
Text == <<"x", "n", "x", "x", "n", "x", "n">>
TextRaises == [Plain EXCEPT !.raises = "always", !.output = Places(Text), !.header = TRUE,
                 !.response = Uncompressed(Places(Text) \o Tagged, TRUE, TRUE)]
Alike == <<"x", "x", "m", "n", "c", "n", "x", "x", "n">>
TextAlike == [Plain EXCEPT !.raises = "perhaps", !.output = Places(Alike),
                 !.response = Uncompressed(Places(Alike), TRUE, FALSE)]
BinaryRaises == [Plain EXCEPT !.raises = "always", !.output = Bytes(6),
                 !.response = Uncompressed(Bytes(6) \o Tagless, FALSE, FALSE)]

\* Compressed: whole; a trailer behind the blocks, or in the last; cut off in a
\* block; a block that does not decompress.
Blocks == <<Places(<<"x", "x", "n">>), <<<<"x", 4>>, <<"n", 5>>>>>>
Rows == Blocks[1] \o Blocks[2]
Whole == [Plain EXCEPT !.output = Rows, !.timed = TRUE, !.response = Compressed(Blocks, <<>>, TRUE)]
TrailerBehind == [Whole EXCEPT !.raises = "always", !.response = Compressed(Blocks, Tagged, TRUE)]
TrailerWithin == [Whole EXCEPT !.raises = "always",
                    !.response = Compressed(<<Blocks[1], Blocks[2] \o Tagged>>, <<>>, TRUE)]
CutOff == [Whole EXCEPT !.response.wire = SubSeq(@, 1, Len(@) - 1)]
Corrupt == [Whole EXCEPT !.response.corrupt = {2}]

\* Native: three blocks and an end marker, in compressed blocks cut elsewhere, or
\* uncompressed and broken off by an exception, or by the end.
Layout == <<<<2, 4, 7>>, <<2, 3>>, <<2>>, <<2, 5>>>>
Batch(start, cuts) ==
  [k \in 1 .. Len(cuts) - 1 |-> [i \in 1 .. cuts[k + 1] - cuts[k] |-> <<"x", start + cuts[k] + i>>]]
Batches == <<Batch(0, Layout[1]), Batch(7, Layout[2]), Batch(12, Layout[4])>>
NativeWhole == [Plain EXCEPT !.consumer = "native", !.layout = Layout, !.batches = Batches,
                  !.output = Bytes(17), !.header = TRUE,
                  !.response = Compressed(<<SubSeq(Bytes(17), 1, 5), SubSeq(Bytes(17), 6, 14),
                                            SubSeq(Bytes(17), 15, 17)>>, <<>>, FALSE)]
NativeRaises == [NativeWhole EXCEPT !.raises = "always", !.output = SubSeq(@, 1, 9),
                   !.batches = SubSeq(@, 1, 1),
                   !.response = Uncompressed(Bytes(9) \o Tagless, FALSE, FALSE)]
NativeCut == [NativeWhole EXCEPT !.response = Uncompressed(Bytes(15), FALSE, FALSE)]

\* Framed: events of two lines, an unknown one, counters, progress, output; ended
\* by an exception, or cut off in the middle of a packet.
Event(kind, value) == <<<<kind, value>>, <<"n", 0>>, <<"x", 0>>>>
Blank2 == <<<<"n", 0>>, <<"n", 0>>>>
Events == Event("p", 2) \o Blank2 \o Event("i", 1) \o Blank2 \o Event("u", 9) \o Blank2
          \o Event("d", 7) \o Blank2
Lines == <<<<"d", 1>>, <<"n", 0>>, <<"n", 0>>, <<"g", 4>>, <<"n", 0>>, <<"i", 3>>, <<"x", 0>>, <<"n", 0>>,
           <<"l", 0>>, <<"n", 0>>>>
FramedEvents == [Plain EXCEPT !.consumer = "framed", !.format = "EventStream", !.raises = "always",
                   !.packets = <<Event("p", 2), Event("i", 1), Event("d", 7)>>,
                   !.totals = <<<<0, 0>>, <<2, 0>>, <<2, 1>>, <<2, 1>>>>,
                   !.output = Events \o Event("e", 0) \o Blank2,
                   !.response = [Uncompressed(Events \o Event("e", 0) \o Blank2, TRUE, FALSE)
                                   EXCEPT !.framing = TRUE]]
FramedCut == [FramedEvents EXCEPT !.raises = "never", !.packets = SubSeq(@, 1, 3),
                !.response.wire = SubSeq(@, 1, Len(Events) + 2), !.packets = Append(@, <<>>),
                !.totals = Append(@, <<2, 1>>)]
FramedLines == [Plain EXCEPT !.consumer = "framed",
                  !.packets = <<<<<<"d", 1>>>>, <<<<"g", 4>>>>, <<<<"i", 3>>, <<"x", 0>>>>, <<<<"l", 0>>>>>>,
                  !.totals = <<<<0, 0>>, <<0, 0>>, <<0, 4>>, <<0, 7>>, <<0, 7>>>>,
                  !.output = Lines,
                  !.response = [Compressed(<<SubSeq(Lines, 1, 2), SubSeq(Lines, 3, 10)>>, <<>>, TRUE)
                                  EXCEPT !.framing = TRUE]]

\* Text read as lines: a character of two bytes, an empty line, a line that is not
\* ended and one that is cut off in a character; bytes that make no character; an
\* exception; rows of which one is not JSON.
LineBytes == Places(<<"x", "w", "v", "n", "n", "x", "n", "w", "v">>)
Char(i) == <<LineBytes[i]>>
Wide(i) == <<LineBytes[i], LineBytes[i + 1]>>
AsLines == [Plain EXCEPT !.consumer = "lines", !.output = LineBytes, !.header = TRUE,
              !.lines = <<<<Char(1), Wide(2)>>, <<Char(6)>>, <<Wide(8)>>>>,
              !.response = Uncompressed(LineBytes, TRUE, FALSE)]
LinesCut == [AsLines EXCEPT !.lines = <<<<Char(1), Wide(2)>>, <<Char(6)>>, <<Replaced>>>>,
               !.response.wire = SubSeq(@, 1, 8)]
Stray == Places(<<"v", "w", "x", "n", "w", "n">>)
LinesStray == [AsLines EXCEPT !.output = Stray,
                 !.lines = <<<<Replaced, Replaced, <<Stray[3]>>>>, <<Replaced>>>>,
                 !.response = Uncompressed(Stray, TRUE, FALSE)]
LinesRaise == [AsLines EXCEPT !.raises = "always", !.output = SubSeq(@, 1, 7), !.lines = SubSeq(@, 1, 2),
                 !.response = Uncompressed(SubSeq(LineBytes, 1, 7) \o Tagless, TRUE, FALSE)]
Objects == Places(<<"x", "n", "b", "x", "n", "x", "n">>)
RowsBroken == [AsLines EXCEPT !.consumer = "rows", !.output = Objects, !.lines = <<<<<<Objects[1]>>>>>>,
                 !.response = Compressed(<<SubSeq(Objects, 1, 4), SubSeq(Objects, 5, 7)>>, <<>>, TRUE)]
RowsGood == [RowsBroken EXCEPT !.output = SubSeq(@, 1, 2),
                !.response = Uncompressed(SubSeq(Objects, 1, 2), TRUE, FALSE)]
RowsLast == [RowsBroken EXCEPT !.response = Uncompressed(SubSeq(Objects, 1, 4), TRUE, FALSE)]

\* Error responses: compressed, in plain text though compression was asked for,
\* framed.
Error == <<<<"c", 1>>, <<"x", 2>>>>
ErrorPacked == [Plain EXCEPT !.ok = FALSE, !.raises = "always", !.message = Error \o Error,
                  !.response = Compressed(<<Error, Error>>, <<>>, TRUE)]
ErrorPlain == [ErrorPacked EXCEPT !.message = Error, !.response = Compressed(<<>>, Error, TRUE)]
ErrorFramed == [Plain EXCEPT !.ok = FALSE, !.raises = "always", !.consumer = "framed", !.framedError = TRUE, !.message = Error,
                  !.response = [Uncompressed(Error \o <<<<"n", 0>>>>, TRUE, FALSE) EXCEPT !.framing = TRUE]]

\* External tables; inserts, with the replies a 200 response may have.
WithTables == [Plain EXCEPT !.tables = <<"async", "batch", "async">>, !.timed = TRUE,
                 !.output = Bytes(1), !.response = Uncompressed(Bytes(1), TRUE, FALSE)]
EmptyTable == [WithTables EXCEPT !.tables = <<"async", "empty">>]
Insert == [Plain EXCEPT !.call = "insert", !.timed = TRUE]
InsertRaises == [Insert EXCEPT !.raises = "always", !.response = Uncompressed(Tagless, TRUE, FALSE)]
InsertSays == [Insert EXCEPT !.raises = "always", !.response = Uncompressed(Error, TRUE, FALSE)]
InsertRefused == [Insert EXCEPT !.ok = FALSE, !.message = Error, !.raises = "always",
                    !.response = Uncompressed(Error, TRUE, FALSE)]

Cases ==
  {TextRaises, TextAlike, BinaryRaises, Whole, TrailerBehind, TrailerWithin, CutOff, Corrupt,
   NativeWhole, NativeRaises, NativeCut, FramedEvents, FramedCut, FramedLines,
   AsLines, LinesCut, LinesStray, LinesRaise, RowsBroken, RowsGood, RowsLast,
   ErrorPacked, ErrorPlain, ErrorFramed, WithTables, EmptyTable,
   Insert, InsertRaises, InsertSays, InsertRefused}

\* Where blocks and records begin, each where the one before it ends.
StartsOf(s) ==
  LET next(starts, cuts) == Append(starts, Last(starts) + Last(cuts))
  IN FoldLeft(next, <<0>>, s.layout)
RecordStarts(s) ==
  LET mark == Delimiter[s.format]
      next(starts, k) ==
        IF Last(starts) <= k /\ StandsAt(s.output, mark, k) THEN Append(starts, k + Len(mark)) ELSE starts
  IN FoldLeft(next, <<0>>, [k \in 1 .. Len(s.output) + 1 |-> k - 1])
CountsOf(n, isCounted(_)) == [i \in 1 .. n |-> Cardinality({k \in 1 .. i - 1 : isCounted(k)})]
Placed(s) ==
  LET lengths == [c \in DOMAIN s.response.content |-> <<Len(s.response.content[c])>>]
      begin == IF s.consumer = "framed" THEN RecordStarts(s) ELSE StartsOf(s)
      item(i) == SubSeq(s.output, begin[i] + 1, begin[i + 1] - Len(Delimiter[s.format]))
      batch(b) == ~IsEndMarker(s.layout[b])
      packet(i) == MakesPacket(item(i)) /\ item(i)[1][1] # "e"
  IN [s EXCEPT !.places = StartsOf([layout |-> lengths]), !.starts = begin,
               !.counts = IF s.consumer = "framed" THEN CountsOf(Len(begin), packet)
                          ELSE CountsOf(Len(begin), batch)]

MCScenarios == {Placed(s) : s \in Cases}
=============================================================================
