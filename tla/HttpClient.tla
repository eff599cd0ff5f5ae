----------------------------- MODULE HttpClient -----------------------------
(***************************************************************************)
(* The HTTP client, src/client.ts: one call of query() or insert(), from   *)
(* init() to the last packet.  A query's body goes through createStream    *)
(* (HttpBody) to the application as it is, through parseFramedStream       *)
(* (FramedRecords), to the application's streamDecodeNative (NativeStream), *)
(* or to its streamLines or streamDecodeJsonEachRow (TextLines).           *)
(* Generators pull: of all these, one runs at a time.                      *)
(*                                                                         *)
(* scenario is what the caller asks for and what the server answers, a     *)
(* record of the fields                                                    *)
(*   call       "query" or "insert"                                        *)
(*   consumer   "raw", "framed", "native", "lines" or "rows"               *)
(*   timed      a timeout is given                                         *)
(*   tables     what each external table is given as                       *)
(*   ok         the status is 200                                          *)
(*   header     there is an X-ClickHouse-Progress header                   *)
(*   raises     the server ends with an exception, or its output can be    *)
(*              taken for one                                              *)
(*   output     what the application should get, in all and as batches,    *)
(*              packets (with the totals after each) or lines, message     *)
(*              what an error response says                                *)
(* and those of response and layout, which see, and the framing format.    *)
(***************************************************************************)
EXTENDS Integers, FiniteSets, SequencesExt,
        CompressionInit, HttpBody, NativeStream, FramedRecords, TextLines

CONSTANTS
  Scenarios,
  ChunkSizes,   \* of reads and of an insert's input
  BufferSize, Threshold,  \* an insert's, the threshold as clamped
  MaxInput,     \* bound: bytes of an insert
  MaxBatches    \* bound: batches of an external table

ASSUME InsertAssumption ==
  /\ BufferSize \in Nat \ {0} /\ Threshold \in Int /\ Threshold <= BufferSize
  /\ ChunkSizes \subseteq Nat \ {0} /\ MaxInput \in Nat /\ MaxBatches \in Nat

\* A body is bytes; a compressed one is the blocks of its content, one behind the
\* other, though the last may have been cut off, and then nothing like a header.
Byte == STRING \X Nat
Begins(r, i, b) ==
  i \in DOMAIN r.wire /\ r.wire[i] = <<"h", b>> /\ (i > 1 => r.wire[i - 1] # <<"h", b>>)
Follows(r, i, b) ==
  IF b <= Len(r.content) THEN Begins(r, i, b)
  ELSE \A j \in DOMAIN r.wire : j >= i => r.wire[j][1] # "h"
IsResponse(r) ==
  /\ r.wire \in Seq(Byte) /\ r.content \in Seq(Seq(Byte))
  /\ {r.text, r.framing, r.compressed, r.tag} \subseteq BOOLEAN
  /\ r.compressed => Follows(r, 1, 1)
  /\ r.compressed => \A i \in DOMAIN r.wire : \A b \in DOMAIN r.content :
       Begins(r, i, b) => Follows(r, i + HeadBytes + Len(r.content[b]), b + 1)
ASSUME ScenariosAssumption == \A s \in Scenarios :
  /\ s.call \in {"query", "insert"}
  /\ s.consumer \in {"raw", "framed", "native", "lines", "rows"}
  /\ s.tables \in Seq({"async", "batch", "empty"})
  /\ s.output \in Seq(Byte) /\ s.batches \in Seq(Seq(Seq(Byte)))
  /\ s.packets \in Seq(Seq(Byte)) /\ s.totals[1] = <<0, 0>>
  /\ IsResponse(s.response)

\* The output is what the body, or the content of its blocks from their places in the
\* output on, holds in front of the first trailer.
Clean(r, bytes, n) == \A m \in 1 .. n : m \notin Trailers(r, bytes)
Stands(bytes, n, output, at) ==
  at + n <= Len(output) /\ SubSeq(bytes, 1, n) = SubSeq(output, at + 1, at + n)
IsOutput(s, r) ==
  /\ ~r.compressed => \A n \in 0 .. Len(r.wire) :
       r.framing \/ Clean(r, r.wire, n) => Stands(r.wire, n, s.output, 0)
  /\ r.compressed =>
       /\ s.places \in Seq(Nat) /\ Len(s.places) = Len(r.content) + 1 /\ s.places[1] = 0
       /\ \A c \in DOMAIN r.content :
            /\ s.places[c + 1] = s.places[c] + Len(r.content[c])
            /\ (\A d \in 1 .. c - 1 : Trailers(r, r.content[d]) = {}) =>
                 \A n \in 0 .. Len(r.content[c]) :
                   Clean(r, r.content[c], n) => Stands(r.content[c], n, s.output, s.places[c])

\* Its Native blocks, or its records, begin at starts, and counts says how many
\* batches, or packets, those before each make.
Laid(s, n) ==
  /\ s.starts \in Seq(Nat) /\ Len(s.starts) = n /\ n > 0 /\ s.starts[1] = 0
  /\ s.counts \in Seq(Nat) /\ Len(s.counts) = n /\ s.counts[1] = 0
IsBatch(s, b, cuts) ==
  IF IsEndMarker(cuts) THEN s.counts[b + 1] = s.counts[b]
  ELSE /\ s.counts[b + 1] = s.counts[b] + 1 /\ s.counts[b + 1] <= Len(s.batches)
       /\ s.batches[s.counts[b + 1]] =
            [k \in 1 .. Len(cuts) - 1 |->
               SubSeq(s.output, s.starts[b] + cuts[k] + 1, s.starts[b] + cuts[k + 1])]
IsBlocks(s) ==
  /\ s.layout \in Seq(Seq(Nat)) /\ \A b \in DOMAIN s.layout : IsCuts(s.layout[b])
  /\ Laid(s, Len(s.layout) + 1)
  /\ \A b \in DOMAIN s.layout : LET cuts == s.layout[b] IN
       /\ s.starts[b + 1] = s.starts[b] + cuts[Len(cuts)]
       /\ s.starts[b + 1] <= Len(s.output) => IsBatch(s, b, cuts)

IsPacket(s, i, r) ==
  IF ~MakesPacket(r) \/ r[1][1] = "e" THEN s.counts[i + 1] = s.counts[i]
  ELSE LET k == s.counts[i] + 1 IN
       /\ s.counts[i + 1] = k /\ k <= Len(s.packets) /\ s.packets[k] = r
       /\ s.totals[k + 1] = <<Progressed(s.totals[k][1], r), Counted(s.totals[k][2], r)>>
IsRecords(s, mark) ==
  /\ Laid(s, Len(s.starts))
  /\ \A i \in 1 .. Len(s.starts) - 1 : LET end == s.starts[i + 1] - Len(mark) IN
       /\ s.starts[i] <= end /\ StandsAt(s.output, mark, end)
       /\ \A k \in s.starts[i] .. end - 1 : ~StandsAt(s.output, mark, k)
       /\ IsPacket(s, i, SubSeq(s.output, s.starts[i] + 1, end))
  /\ \A k \in s.starts[Len(s.starts)] .. Len(s.output) : ~StandsAt(s.output, mark, k)

\* Without a trailer the body holds all of the output: who has had Held bytes, to the
\* end of a block or a record, has had everything.
Held(s, r) == IF r.compressed THEN s.places[Len(r.content) + 1] ELSE Len(r.wire)
Unraised(r) ==
  IF r.compressed THEN \A c \in DOMAIN r.content : Trailers(r, r.content[c]) = {}
  ELSE r.framing \/ Trailers(r, r.wire) = {}
IsAll(s, n) ==
  /\ s.consumer = "raw" => Len(s.output) = n
  /\ s.consumer = "native" => \A b \in DOMAIN s.starts : s.starts[b] = n => s.counts[b] = Len(s.batches)
  /\ s.consumer = "framed" => \A i \in DOMAIN s.starts : s.starts[i] = n => s.counts[i] = Len(s.packets)

\* Unless output looks just like a trailer, it ends in front of the first preamble.
EndsBefore(s, r) ==
  /\ ~r.compressed /\ ~r.framing => \A i \in DOMAIN r.wire : TrailerAt(r, r.wire, i) => Len(s.output) < i
  /\ r.compressed =>
       /\ \A c \in DOMAIN r.content : \A i \in DOMAIN r.content[c] :
            TrailerAt(r, r.content[c], i) => Len(s.output) < s.places[c] + i
       /\ \A i \in DOMAIN r.wire : TrailerAt(r, r.wire, i) => Len(s.output) <= Held(s, r)

ASSUME OutputAssumption == \A s \in Scenarios : s.call = "query" /\ s.ok =>
  /\ IsOutput(s, s.response)
  /\ Unraised(s.response) => IsAll(s, Held(s, s.response))
  /\ s.raises # "perhaps" => EndsBefore(s, s.response)
  /\ s.consumer = "native" => IsBlocks(s)
  /\ s.consumer = "framed" => s.format \in DOMAIN Delimiter /\ IsRecords(s, Delimiter[s.format])

VARIABLES
  scenario, phase, outcome,
  signal,       \* of fetch: "none", "armed", "fired"
  received,     \* the bytes given to the application
  reported,     \* the text of an error response as it is reported
  peeked,       \* batches read from each external table before the request
  part,         \* the table of which the request body is being made
  uploaded,     \* the batches in the request body, each <<table, number>>
  feed,         \* where compressedBlocks() is
  given,        \* bytes the data has yielded to it
  rest, buffer, \* the rest of its chunk, its buffer up to fillLen
  sent, sizes   \* the bytes of the blocks it has yielded, and their sizes

callVars   == <<scenario, phase, outcome, signal>>
resultVars == <<received, reported>>
tableVars  == <<peeked, part, uploaded>>
insertVars == <<feed, given, rest, buffer, sent, sizes>>
vars == <<callVars, resultVars, tableVars, insertVars, initVars, bodyVars, nativeVars, framedVars, lineVars>>

Caller == CHOOSE c \in Callers : TRUE

Init ==
  /\ scenario \in Scenarios
  /\ response = scenario.response /\ layout = scenario.layout /\ delimiter = Delimiter[scenario.format]
  /\ phase = "idle" /\ outcome = "running" /\ signal = "none"
  /\ received = <<>> /\ reported = <<>>
  /\ peeked = [t \in DOMAIN scenario.tables |-> 0] /\ part = 1 /\ uploaded = <<>>
  /\ feed = "idle" /\ given = 0 /\ rest = <<>> /\ buffer = <<>> /\ sent = <<>> /\ sizes = <<>>
  /\ InitInit /\ BodyInit /\ NativeInit /\ FramedInit /\ LinesInit

Query    == scenario.call = "query"
Raw      == scenario.consumer = "raw"
Native   == scenario.consumer = "native"
Framed   == scenario.consumer = "framed"
Lining   == scenario.consumer \in {"lines", "rows"}
Json     == scenario.consumer = "rows"
Tables   == DOMAIN scenario.tables
Streamed == {t \in Tables : scenario.tables[t] = "async"}

End(how) == phase' = "end" /\ outcome' = how /\ UNCHANGED <<scenario, signal>>
To(next) == phase' = next /\ UNCHANGED <<scenario, outcome, signal>>
-----------------------------------------------------------------------------
\* The request.

\* Mutant: the timeout is not given to fetch().
FetchUntimed ==
  /\ phase' = "fetching" /\ UNCHANGED <<scenario, outcome, signal>>

\* createSignal(): made when the request is.
Fetch ==
  /\ phase' = "fetching" /\ UNCHANGED <<scenario, outcome>>
  /\ signal' = IF scenario.timed THEN "armed" ELSE "none"

\* The call begins with init(), shared with whoever else calls it.
Call ==
  /\ phase = "idle" /\ CallInit(Caller) /\ To("init")
  /\ UNCHANGED <<resultVars, tableVars, insertVars, bodyVars, nativeVars, framedVars, lineVars>>

OtherCall ==
  /\ \E c \in Callers \ {Caller} : CallInit(c)
  /\ UNCHANGED <<callVars, resultVars, tableVars, insertVars, bodyVars, nativeVars, framedVars, lineVars>>

Loading ==
  /\ InitStep
  /\ UNCHANGED <<callVars, resultVars, tableVars, insertVars, bodyVars, nativeVars, framedVars, lineVars>>

\* After init(): an insert fetches at once, a query looks at its tables first,
\* and a sync one that is empty is refused.
Initialized ==
  /\ phase = "init" /\ caller[Caller] \in {"ready", "failed"}
  /\ IF caller[Caller] = "failed" \/ \E t \in Tables : scenario.tables[t] = "empty" THEN End("error")
     ELSE IF Streamed # {} THEN To("tables")
     ELSE Fetch
  /\ UNCHANGED <<resultVars, tableVars, insertVars, initVars, bodyVars, nativeVars, framedVars, lineVars>>

\* normalizeExternalTable(): the first batch of an async table is read for its
\* structure, all tables at once.
Peek(t) ==
  /\ phase = "tables" /\ t \in Streamed /\ peeked[t] = 0
  /\ peeked' = [peeked EXCEPT ![t] = 1]
  /\ IF \A s \in Streamed \ {t} : peeked[s] = 1 THEN Fetch ELSE UNCHANGED callVars
  /\ UNCHANGED <<part, uploaded, resultVars, insertVars, initVars, bodyVars, nativeVars, framedVars, lineVars>>

\* It is empty, or fails.
PeekFails(t) ==
  /\ phase = "tables" /\ t \in Streamed /\ peeked[t] = 0 /\ End("error")
  /\ UNCHANGED <<resultVars, tableVars, insertVars, initVars, bodyVars, nativeVars, framedVars, lineVars>>

Uploading(t) == /\ phase = "fetching" /\ t = part /\ t \in Tables
SentOf(t) == {i \in DOMAIN uploaded : uploaded[i][1] = t}
Sent(t) == Cardinality(SentOf(t))

\* buildMultipartBody(), prepend() and mapAsync(): the runtime pulls a batch of
\* the part at hand, first the one that was read already.
Upload(t) ==
  /\ Uploading(t) /\ Sent(t) < (IF t \in Streamed THEN MaxBatches ELSE 1)
  /\ IF Sent(t) < peeked[t]
     THEN uploaded' = Append(uploaded, <<t, 1>>) /\ UNCHANGED peeked
     ELSE /\ uploaded' = Append(uploaded, <<t, peeked[t] + 1>>)
          /\ peeked' = [peeked EXCEPT ![t] = @ + 1]
  /\ UNCHANGED <<part, callVars, resultVars, insertVars, initVars, bodyVars, nativeVars, framedVars, lineVars>>

\* A part ends when its source does.
PartEnds(t) ==
  /\ Uploading(t) /\ Sent(t) > 0 /\ (t \in Streamed => Sent(t) >= peeked[t])
  /\ part' = part + 1
  /\ UNCHANGED <<peeked, uploaded, callVars, resultVars, insertVars, initVars, bodyVars, nativeVars,
                 framedVars, lineVars>>
-----------------------------------------------------------------------------
\* An insert's body: compressedBlocks(), pulled by the runtime.

Filled(bytes, next) ==
  IF Len(bytes) >= Threshold \/ next = "finished"
  THEN /\ sent' = sent \o bytes /\ sizes' = Append(sizes, Len(bytes))
       /\ buffer' = <<>>
       /\ feed' = IF next = "finished" THEN "last" ELSE "yielded"
  ELSE buffer' = bytes /\ feed' = next /\ UNCHANGED <<sent, sizes>>

\* Mutant: what does not fit is dropped when the buffer is full.
CopyOnce(chunk, bytes) ==
  LET room == BufferSize - Len(bytes)
      n    == IF room < Len(chunk) THEN room ELSE Len(chunk)
  IN rest' = <<>> /\ Filled(bytes \o SubSeq(chunk, 1, n), "source")

\* One turn of the inner loop: copy what fits, yield a block at the threshold.
Copy(chunk, bytes) ==
  LET room == BufferSize - Len(bytes)
      n    == IF room < Len(chunk) THEN room ELSE Len(chunk)
  IN rest' = SubSeq(chunk, n + 1, Len(chunk)) /\ Filled(bytes \o SubSeq(chunk, 1, n), "source")

Inserting == ~Query /\ phase = "fetching"

PullFirst ==
  /\ Inserting /\ feed = "idle" /\ feed' = "source"
  /\ UNCHANGED <<given, rest, buffer, sent, sizes, callVars, resultVars, tableVars,
                 initVars, bodyVars, nativeVars, framedVars, lineVars>>

\* The data yields its next chunk.
SourceChunk(n) ==
  /\ Inserting /\ feed = "source" /\ given + n <= MaxInput
  /\ given' = given + n /\ Copy([i \in 1 .. n |-> given + i], buffer)
  /\ UNCHANGED <<callVars, resultVars, tableVars, initVars, bodyVars, nativeVars, framedVars, lineVars>>

\* The runtime pulls on after a block.
PullOn ==
  /\ Inserting /\ feed \in {"yielded", "last"}
  /\ IF feed = "last" THEN feed' = "finished" /\ UNCHANGED <<rest, buffer, sent, sizes>>
     ELSE IF rest # <<>> THEN Copy(rest, buffer)
     ELSE feed' = "source" /\ UNCHANGED <<rest, buffer, sent, sizes>>
  /\ UNCHANGED <<given, callVars, resultVars, tableVars, initVars, bodyVars, nativeVars, framedVars, lineVars>>

\* The data has ended: the last block.
SourceEnds ==
  /\ Inserting /\ feed = "source"
  /\ IF buffer = <<>> THEN feed' = "finished" /\ UNCHANGED <<buffer, sent, sizes>>
     ELSE Filled(buffer, "finished")
  /\ UNCHANGED <<given, rest, callVars, resultVars, tableVars, initVars, bodyVars, nativeVars, framedVars, lineVars>>

\* The data, or a table, throws: the body fails, and fetch() rejects.
SourceFails ==
  /\ \/ Inserting /\ feed = "source"
     \/ \E t \in Streamed : Uploading(t) /\ Sent(t) >= peeked[t]
  /\ End("error")
  /\ UNCHANGED <<resultVars, tableVars, insertVars, initVars, bodyVars, nativeVars, framedVars, lineVars>>
-----------------------------------------------------------------------------
\* The response.

RequestSent == IF Query THEN part > Len(scenario.tables) ELSE feed = "finished"

\* fetch() resolves: with an error at any time, with success when the server has
\* had the request.
Responds ==
  /\ phase = "fetching" /\ (scenario.ok => RequestSent)
  /\ To(IF ~scenario.ok THEN "errorBody" ELSE IF ~Query THEN "reply"
        ELSE IF scenario.header THEN "header" ELSE "body")
  /\ UNCHANGED <<resultVars, tableVars, insertVars, initVars, bodyVars, nativeVars, framedVars, lineVars>>

\* The connection fails, the application aborts, or the timeout has fired; the
\* same for the await of a whole body.
FetchFails ==
  /\ phase \in {"fetching", "errorBody", "reply"} /\ End("error")
  /\ UNCHANGED <<resultVars, tableVars, insertVars, initVars, bodyVars, nativeVars, framedVars, lineVars>>

TimerFires ==
  /\ signal = "armed" /\ phase # "end" /\ signal' = "fired"
  /\ UNCHANGED <<scenario, phase, outcome, resultVars, tableVars, insertVars,
                 initVars, bodyVars, nativeVars, framedVars, lineVars>>

\* decodeBlocks(): whole blocks to the last byte, or it throws.
BlockStart(bytes) ==
  LET start[b \in Nat] ==
        IF b = 0 THEN 0
        ELSE LET left == SubSeq(bytes, start[b - 1] + 1, Len(bytes))
             IN IF Len(left) >= HeadBytes /\ IsHead(left) /\ Len(left) >= BlockBytes(left)
                THEN start[b - 1] + BlockBytes(left) ELSE start[b - 1]
  IN start
Decodable(bytes) == BlockStart(bytes)[Len(bytes)] = Len(bytes) /\ response.corrupt = {}
DecodeBlocks(bytes) ==
  FoldLeft(LAMBDA sum, b : sum \o response.content[bytes[b][2]], <<>>,
           SelectSeq([i \in DOMAIN bytes |-> i],
                     LAMBDA i : \E b \in 0 .. Len(bytes) : i = BlockStart(bytes)[b] + 1))

\* The text of an error response: decompressed if it can be, and the exception
\* packet's if it is framed.
ErrorText ==
  LET wire == response.wire
      body == IF response.compressed /\ Decodable(wire) THEN DecodeBlocks(wire) ELSE wire
  IN IF response.framing /\ scenario.framedError
     THEN SelectSeq(body, LAMBDA c : c[1] \notin {"n"}) ELSE body

ErrorRead ==
  /\ phase = "errorBody" /\ End("exception") /\ reported' = ErrorText
  /\ UNCHANGED <<received, tableVars, insertVars, initVars, bodyVars, nativeVars, framedVars, lineVars>>

\* An insert reads the whole body of a 200 response: it may tell of a failure,
\* framed or in plain text.
ReplyFails == HasException(response.wire) \/ \E i \in DOMAIN response.wire : response.wire[i][1] = "c"
Reply ==
  /\ phase = "reply" /\ End(IF ReplyFails THEN "exception" ELSE "ok")
  /\ UNCHANGED <<resultVars, tableVars, insertVars, initVars, bodyVars, nativeVars, framedVars, lineVars>>

\* The application has taken the packet of the Progress header.
HeaderTaken ==
  /\ phase = "header" /\ To("body")
  /\ UNCHANGED <<resultVars, tableVars, insertVars, initVars, bodyVars, nativeVars, framedVars, lineVars>>
-----------------------------------------------------------------------------
\* The body.

\* The consumer of createStream waits for its next chunk.
Asks == CASE Native -> turn = "waiting" [] Framed -> parser = "waiting"
             [] Lining -> reading = "waiting" [] Raw -> TRUE

BodyStep(step) ==
  /\ phase = "body" /\ step
  /\ UNCHANGED <<callVars, resultVars, tableVars, insertVars, initVars, nativeVars, framedVars, lineVars>>

BodyOpens   == BodyStep(Asks /\ Open)
BodyReads   == \E n \in ChunkSizes : BodyStep(ReadChunk(n))
BodyEnds    == BodyStep(ReadEnd)
BodyFails   == BodyStep(ReadFails)
BodyResumes == BodyStep(Asks /\ handed = <<>> /\ Resume)

\* The chunk yielded reaches the consumer.
Taken == handed' = <<>> /\ UNCHANGED <<response, arrived, stream, after, pending, streamBuffer, cancelled>>
Take ==
  /\ phase = "body" /\ stream = "yielded" /\ handed # <<>> /\ Taken
  /\ IF Native THEN TakeChunk(handed) ELSE UNCHANGED nativeVars
  /\ IF Framed THEN TakeText(handed) ELSE UNCHANGED framedVars
  /\ IF Lining THEN TakeBytes(handed) ELSE UNCHANGED lineVars
  /\ received' = received \o handed
  /\ UNCHANGED <<callVars, reported, tableVars, insertVars, initVars>>

\* The steps of the consumers between two chunks.
Decoding ==
  /\ phase \in {"body", "finished"} /\ Native /\ (TryBlock \/ TryFinal \/ NextBatch)
  /\ UNCHANGED <<callVars, resultVars, tableVars, insertVars, initVars, bodyVars, framedVars, lineVars>>
Parsing ==
  /\ phase = "body" /\ Framed /\ (CutRecord \/ NoRecord \/ NextPacket)
  /\ UNCHANGED <<callVars, resultVars, tableVars, insertVars, initVars, bodyVars, nativeVars, lineVars>>
Reading ==
  /\ phase \in {"body", "finished"} /\ Lining /\ (YieldLine(Json) \/ NextLine)
  /\ UNCHANGED <<callVars, resultVars, tableVars, insertVars, initVars, bodyVars, nativeVars, framedVars>>

\* createStream has ended; parseRecords makes sure that nothing is left over.
LastRecord ==
  /\ phase = "body" /\ stream = "done" /\ Framed /\ TextEnds
  /\ UNCHANGED <<callVars, resultVars, tableVars, insertVars, initVars, bodyVars, nativeVars, lineVars>>

\* The Summary packet is yielded.
Summarize ==
  /\ phase = "body" /\ stream = "done" /\ To("summary")
  /\ CASE Framed -> parser = "done" [] Native -> turn = "waiting"
       [] Lining -> reading = "waiting" [] Raw -> TRUE
  /\ UNCHANGED <<resultVars, tableVars, insertVars, initVars, bodyVars, nativeVars, framedVars, lineVars>>

\* The application pulls past it; dataChunks() does, for the consumers of chunks.
SummaryTaken ==
  /\ phase = "summary"
  /\ IF Native \/ Lining THEN To("finished") ELSE End("ok")
  /\ IF Native THEN LastChunk ELSE UNCHANGED nativeVars
  /\ IF Lining THEN LastLine(Json) ELSE UNCHANGED lineVars
  /\ UNCHANGED <<resultVars, tableVars, insertVars, initVars, bodyVars, framedVars>>

AllDecoded ==
  /\ phase = "finished" /\ (turn \in {"done", "truncated"} \/ reading = "done")
  /\ End(IF turn = "truncated" THEN "error" ELSE "ok")
  /\ UNCHANGED <<resultVars, tableVars, insertVars, initVars, bodyVars, nativeVars, framedVars, lineVars>>

\* What createStream throws goes through to the application.
Throws ==
  /\ phase = "body"
  /\ \/ stream \in {"exception", "error"} /\ End(stream)
     \/ stream = "done" /\ Framed /\ parser = "truncated" /\ End("error")
  /\ UNCHANGED <<resultVars, tableVars, insertVars, initVars, bodyVars, nativeVars, framedVars, lineVars>>

\* Mutant: createStream is left where it is.
LeaveUnreturned ==
  /\ stream \in {"idle", "yielded"}
  /\ UNCHANGED <<response, arrived, stream, after, handed, pending, streamBuffer, cancelled>>

\* createStream is returned if it has yielded, through the loops that consume it.
Leave ==
  IF stream = "yielded" THEN Return ELSE UNCHANGED bodyVars

\* An exception packet: queryImpl leaves its loop.
PacketThrows ==
  /\ phase = "body" /\ parser = "exception" /\ End("exception") /\ Leave
  /\ UNCHANGED <<resultVars, tableVars, insertVars, initVars, nativeVars, framedVars, lineVars>>

\* A line that is not JSON: streamDecodeJsonEachRow throws, and its loop is left.
LineThrows ==
  /\ phase \in {"body", "finished"} /\ reading = "error" /\ End("error") /\ Leave
  /\ UNCHANGED <<resultVars, tableVars, insertVars, initVars, nativeVars, framedVars, lineVars>>

\* The application has a packet, a line, or a batch, and asks for no more.
HasItem ==
  \/ phase \in {"header", "summary"} /\ (Raw \/ Framed)
  \/ phase \in {"body", "finished"} /\
       CASE Raw -> stream = "yielded" /\ handed = <<>>
         [] Framed -> parser = "yield"
         [] Lining -> reading \in {"yield", "lastYield"}
         [] Native -> turn \in {"yield", "lastYield"}
Abandon ==
  /\ HasItem /\ End("left") /\ Leave
  /\ UNCHANGED <<resultVars, tableVars, insertVars, initVars, nativeVars, framedVars, lineVars>>
-----------------------------------------------------------------------------
Requesting ==
  \/ Call \/ OtherCall \/ Loading \/ Initialized
  \/ \E t \in Tables : Peek(t) \/ PeekFails(t) \/ Upload(t) \/ PartEnds(t)
  \/ PullFirst \/ (\E n \in ChunkSizes : SourceChunk(n)) \/ PullOn \/ SourceEnds \/ SourceFails
Answering ==
  Responds \/ FetchFails \/ TimerFires \/ ErrorRead \/ Reply \/ BodyReads \/ BodyEnds \/ BodyFails

\* What the client, and an application that goes on pulling, do by themselves.
GoingOn ==
  \/ HeaderTaken \/ BodyOpens \/ BodyResumes \/ Take \/ Decoding \/ Parsing \/ Reading \/ LastRecord
  \/ Summarize \/ SummaryTaken \/ AllDecoded \/ Throws \/ PacketThrows \/ LineThrows

Next == Requesting \/ Answering \/ GoingOn \/ Abandon

Spec == Init /\ [][Next]_vars

\* Timers fire, what waits for an aborted request rejects, and the application
\* pulls on.  Nothing is asked of the server.
FairSpec ==
  /\ Spec /\ WF_vars(TimerFires) /\ WF_vars(GoingOn)
  /\ WF_vars(signal = "fired" /\ FetchFails) /\ WF_vars(signal = "fired" /\ BodyFails)
-----------------------------------------------------------------------------
\* The variables of the call, and those of the generators under it, keep their types.
TypeOK ==
  /\ phase \in {"idle", "init", "tables", "fetching", "errorBody", "reply", "header",
                "body", "summary", "finished", "end"}
  /\ outcome \in {"running", "ok", "exception", "error", "left"}
  /\ (phase = "end") = (outcome # "running") /\ signal \in {"none", "armed", "fired"}
  /\ arrived \in 0 .. Len(response.wire) /\ cancelled \in BOOLEAN
  /\ stream \in {"idle", "reading", "yielded"} \union Terminal
  /\ after \in {"reading", "blocks", "done", "exception"} /\ Len(pending) <= TailBytes
  /\ turn \in {"waiting", "decoding", "yield", "final", "lastYield", "done", "truncated"}
  /\ block \in 0 .. Len(layout) /\ retryWait \in 0 .. RetryMax /\ retryAfter \in Nat
  /\ parser \in {"waiting", "scanning", "yield", "exception", "done", "truncated"}
  /\ from \in 0 .. Len(text) /\ Len(halfChar) <= 1
  /\ reading \in {"waiting", "splitting", "yield", "lastYield", "done", "error"}
  /\ feed \in {"idle", "source", "yielded", "last", "finished"} /\ Len(buffer) < BufferSize

\* The memo of init() (compression.ts 81-103) works for all its callers.
InitShared == InitMemo

\* Whatever the chunks, the application gets the output in order, without gap or
\* repetition: bytes as they are, batches with the columns the server sent, framed
\* packets with the totals that go with them; and a query that succeeds has given it
\* all of it, as createStream has when it throws an exception, unless output can be
\* taken for one (client.ts 882-1031).
Delivered ==
  /\ IsPrefix(received, scenario.output)
  /\ Native => IsPrefix(batches, scenario.batches)
  /\ Framed => /\ IsPrefix(packets, scenario.packets)
               /\ <<progress, counter>> = scenario.totals[Len(packets) + 1]
  /\ outcome = "ok" /\ Query =>
       /\ Raw => received = scenario.output
       /\ Native => batches = scenario.batches
       /\ Framed => packets = scenario.packets
  /\ stream = "exception" /\ Query /\ scenario.ok /\ scenario.raises # "perhaps" =>
       received = scenario.output

\* The same of text: lines are of whole characters, none of them empty and none cut
\* by a chunk, and an error response is reported with the text the server gave,
\* compressed and framed as it may be (client.ts 840-863, 1057-1093).
TextDelivered ==
  /\ Lining => IsPrefix(lines, scenario.lines) /\ (outcome = "ok" => lines = scenario.lines)
  /\ reported # <<>> => reported = scenario.message

\* An exception trailer is found however chunks split it: a body is never taken
\* for whole when a trailer stands in it, at the start of a line where the format
\* has lines.  And an exception is thrown only where a whole preamble follows what
\* the application has got, or, of a compressed body, stands in a block or beside the
\* blocks (findExceptionMarker, the tail of createStream).
TrailerRule ==
  /\ stream = "done" /\ ~response.framing /\ ~response.compressed => ~HasException(response.wire)
  /\ stream = "done" /\ response.compressed => \A c \in DOMAIN response.content : ~HasException(response.content[c])
  /\ stream = "exception" /\ ~response.compressed => IsFramedExceptionAt(response.wire, Len(received) + 1)
  /\ stream = "exception" /\ response.compressed =>
       \/ \E c \in DOMAIN response.content : HasException(response.content[c])
       \/ \E i \in DOMAIN response.wire : IsFramedExceptionAt(response.wire, i)

\* When a call ends after its body was first read, createStream has ended and the
\* reader has been cancelled, "so the HTTP connection can be returned to the pool".
\* (A generator given up at the Progress packet of the headers has not come so far.)
ReaderReleased == phase = "end" /\ stream # "idle" => cancelled /\ stream \in Terminal

\* What is sent is what was given: an insert's blocks are its input cut anew, none
\* empty, none larger than the buffer, none but the last below the threshold; each
\* external table's batches come once and in order, the one read ahead first.
BlocksWhole ==
  /\ sent \o buffer \o rest = [i \in 1 .. given |-> i]
  /\ \A b \in DOMAIN sizes :
       sizes[b] \in 1 .. BufferSize /\ (sizes[b] < Threshold => b = Len(sizes) /\ feed \in {"last", "finished"})
  /\ feed = "finished" => buffer = <<>> /\ rest = <<>>
TablesWhole ==
  /\ \A i \in DOMAIN uploaded :
       LET before == {j \in 1 .. i - 1 : uploaded[j][1] = uploaded[i][1]}
       IN uploaded[i][2] = Cardinality(before) + 1
  /\ \A i, j \in DOMAIN uploaded : i < j => uploaded[i][1] <= uploaded[j][1]
  /\ \A t \in Streamed : part > t => Sent(t) = peeked[t]
RequestWhole == BlocksWhole /\ TablesWhole

\* "zero-copy views handed out while decoding earlier blocks are never mutated
\* afterwards": no step writes over bytes of streamDecodeNative's buffer that may
\* have been handed out.
ViewsStay ==
  [][blockBuffer'.generation = blockBuffer.generation =>
       \A i \in 1 .. blockBuffer.to : blockBuffer'.cells[i] = blockBuffer.cells[i]]_vars

\* The call implements HttpResult.
Items == CASE Raw -> Len(received) [] Native -> Len(batches) [] Framed -> Len(packets)
           [] Lining -> Len(lines)
Result == INSTANCE HttpResult WITH
  promised  <- [items |-> CASE Raw -> Len(scenario.output) [] Native -> Len(scenario.batches)
                            [] Framed -> Len(scenario.packets) [] Lining -> Len(scenario.lines),
                raises |-> scenario.raises, batched |-> Native \/ Lining],
  given     <- Items
ImplementsResult == Result!Spec

\* A query or insert with a timeout ends, however silent the server, once its
\* request is under way and provided the application pulls on (createSignal).
TimedCallEnds == scenario.timed /\ phase = "fetching" ~> phase = "end"
=============================================================================
