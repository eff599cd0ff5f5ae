# A verification of chwire in TLA+

chwire is a TypeScript client for ClickHouse: an HTTP client, a client for the
native TCP protocol, and a toolkit for the Native format. These modules model
what depends on order (who owns the connection, what a timeout or an abort leaves
behind, how bytes that come in pieces become packets, blocks, records and lines)
and what two sides must agree on without asking (the columns of a block, the
fields of a packet, the text of a type or a parameter, a request).
The modules are translated from `src/` (the code, read with its tests and its
changelog); line numbers below refer to it.

## 1. The system

| Part | State it keeps | Operations | Works with |
|---|---|---|---|
| `TcpClient` (`tcp_client/client.ts`) | `socket`, `reader`, `_serverHello`, `busy`; per operation `startSocket`, `cancelled`, `timedOut`, `reachedEndOfStream`, `receivedException`, `sentDataDelimiter`, two timers, an abort listener | `connect`, `query`, `insert`, `ping`, `close`; `teardown`, `drainPackets` inside | the socket's events, the reader, the writer, the application's iterables, signals and consumer |
| `StreamingReader` (`tcp_client/reader.ts`) | `buffer`, `offset`, `end`, `returnedEnd`, `done`, `error`, `wake`, `pausedByUs` | `ensure`, `consume`, `peekAll`, `nextChunk`, `read*`, `discardCompressedBlock` | filled by `data` events, drained by `TcpClient` |
| `StreamingWriter`, packet ids (`writer.ts`, `types.ts`) | a reusable buffer | `encode*` | `TcpClient` |
| Native blocks (`native/index.ts`, `io.ts`) | `PartialBlockState`, `BlockBuffer` offsets, retry backoff | `decodeNativeBlockWithReader`, `streamDecodeNative`, `encodeNative` | reader, HTTP streams, codecs |
| Codecs (`native/codecs/*`) | none per codec; an LRU cache in `registry.ts` | `fromValues`, `encode`, `decode`, `writePrefix`, `readPrefix`, `readKinds`, `toLiteral`, `getCodec` | blocks, parameters |
| Record batches, columns, coercion (`native/table.ts`, ...) | builders' columns | `appendRow`, `finish`, `batchFromRows`, `batchFromCols`, row proxies | application, codecs |
| Parameters and settings (`params.ts`) | none | `extractParamTypes`, `serializeParams`, `mergeQueryParams` | both clients |
| HTTP client (`client.ts`) | per call: held-back tail, `BlockBuffer`, reader, signal | `query`, `insert` | `fetch`, framing, compression |
| Framing (`framing.ts`) | `pending`, `from` | `parseRecords` | HTTP query |
| Compression (`compression.ts`) | memo of `init()` | `init`, `encodeBlock`, `decodeBlock(s)` | both clients |
| Helpers (`iter.ts`, `util.ts`), table of settings, CLI | none, or a readline loop | iteration, formatting | everything |

One TCP packet travels like this: the socket's `data` event appends to the
`StreamingReader`'s buffer and wakes the one read that sleeps on it;
`readServerPacket` reads the packet id and the payload, decoding a Native block
in as many attempts as its bytes take to arrive; the loop of `queryImpl` or
`insertImpl` yields the packet to the application. Everything runs on one
JavaScript thread, so the interleavings are those of awaits, yields, socket
events, timers, abort signals and calls by the application.

What is hard, by part, and what would make it correct:

* **Operations.** An operation is suspended at one of some ten awaits and yields,
  and at each of them the signal may abort, a timer may fire, the server may
  hang up, the application may call `close()` and reconnect, or may drop the
  generator. Afterwards the client must be free exactly when nobody uses it, the
  connection must be clean or closed, and an operation of the dead connection
  must not disturb the new one.
* **connect().** Three promises race, `close()` may come at any time, and the
  loser of the race goes on by itself. Nothing may be left half connected.
* **Reader.** Chunks end anywhere, the buffer is reallocated under reads that
  sleep, the socket is paused and resumed, and `end`, `close` and `error` come in
  any order. Every byte must be read once, nobody may wait for good, and memory
  must be bounded.
* **Block decoding.** An attempt that runs out of bytes is resumed at the last
  completed column. Checkpoint, columns and bytes consumed must agree.
* **HTTP query.** A server exception is a trailer inside the body, which may be
  split over chunks, look like a compressed block, or be imitated by data.
* **HTTP insert, framing.** Bytes are cut anew at boundaries that have nothing to
  do with those they came in.
* **Codecs.** Inverse functions on bytes, with offsets, dictionaries, widths, orders
  of arms and paths, sparse columns; and rows that fail half way into a builder.
* **Names, parameters, packets, requests.** Text and fields written by one side and
  read by the other, across quoting, escapes, protocol revisions and options that
  interact; an error shows only as another value at the other end.

`PROJECT.json` lists every component with its status, and the hazards of the
code at the line where each bites, with the properties that would catch it.

## 2. The modules

| Module | Models | Instance | Proofs |
|---|---|---|---|
| `TcpClient` | operations on the connections of one client | `MCTcpClient` | `TcpClientProofs`, `TcpChannelProofs` |
| `TcpSession` | what a client promises: abstract | through `TcpClient!ImplementsSession` | refinement in `TcpClientProofs` |
| `TcpConnect` | `connect()` and `handshake()` | `MCTcpConnect` | `TcpConnectProofs` |
| `NativeBlock` | one resumable decode attempt (operators) | used by `StreamingReader` | |
| `StreamingReader` | the reader, and packets read out of it | `MCStreamingReader` | `StreamingReaderProofs` |
| `PacketStream` | what reading packets promises: abstract | through `StreamingReader!ImplementsStream` | refinement of steps in `StreamingReaderProofs` |
| `HttpClient` | one call of `query()` or `insert()`, from `init()` to the last packet; it composes the next five | `MCHttp` | `HttpClientProofs` |
| `CompressionInit` | the memo of `init()` | in `HttpClient` | `HttpClientProofs` |
| `HttpBody` | `createStream`: trailers, compressed blocks | in `HttpClient` | `HttpBodyProofs` |
| `FramedRecords` | `parseRecords` and what `queryImpl` makes of its packets | in `HttpClient` | `HttpBodyProofs` |
| `NativeStream`, `BlockBuffer` | `streamDecodeNative`; the buffer it and `createStream` use | in `HttpClient` | `HttpBodyProofs` |
| `TextLines` | `decodeText`, `streamLines`, `streamDecodeJsonEachRow` | in `HttpClient` | |
| `HttpResult` | what a call promises: abstract | through `HttpClient!ImplementsResult` | |
| `NativeValues`, `ScalarCodecs` | JavaScript values, `coercion.ts`, the codecs of `scalar.ts` | `MCNative` | |
| `Columns`, `NativeCodecs`, `NativeWire` | `columns.ts`; `composite.ts`, `dynamic.ts`, `base.ts`, `serialization.ts` | `MCNative` | |
| `RecordBatches`, `RowViews` | `table.ts`, `rows.ts`, rows given as objects; blocks encoded and decoded | `MCNative` | |
| `NativeIo` | VarInts, `BufferWriter` | `MCNative` | |
| `CodecCache` | the LRU map of `getCodec` | `MCNative` | `CodecCacheProofs` |
| `TypeNames` | the parsing of type names, the choice of a codec | `MCNames` | |
| `Literals`, `QueryParams` | `toLiteral`; `params.ts` and its way through both transports | `MCParams` | |
| `TcpPackets` | `writer.ts`, revisions, packet readers, accumulators, compressed frames | `MCPackets` | |
| `HttpRequest` | URL, headers and bodies of the HTTP client, errors and summaries | `MCRequests` | |
| `BlockLemmas` | two facts about sets of numbers (a greatest, a least) | | lemmas of other proofs |

`MCNative` extends `MCNames`, `MCParams`, `MCPackets` and `MCRequests`: these parts
share no state, and one run checks each on its own (its variable `part`).

`TcpClient` takes for granted what the other two establish: that a successful
connect leaves socket, reader and greeting together (`ResolvedIsUsable`,
`WholeOrNothing` of `TcpConnect`), and that packets come off the reader whole
and in order (`ImplementsStream` of `StreamingReader`); and the fields inside its
packets are those of `TcpPackets`. This is how the four are composed; one module
with all of them would have a state space out of reach.

In each model module, operators whose comment starts with `Mutant:` are faulty
variants of the definition that follows them. No behaviour uses them: they are
there to confirm that a property fails when the code has that fault.

### TcpClient

An operation is a generator (or one `ping()` call), and `pc[o]` is the await or
yield it is suspended at; an action runs from one suspension point to the next,
as JavaScript does between two turns of the event loop.

| `pc` | suspended at |
|---|---|
| `query`, `begin`, `batch`, `delimiter`, `cancel`, `ping` | `writeWithBackpressure` of the query, of an insert's opening delimiter, a Data block, the closing delimiter, the Cancel of the finally block, a Ping |
| `schema`, `reading`, `draining`, `pong` | `readServerPacket` / `drainServerPacket` |
| `source` | the application's iterable (rows, batches, external tables) |
| `yielded`, `eos` | a `yield` of a packet, of the final EndOfStream |

`own` is `startSocket`; `via` is the socket that the pending await is about, which
is whatever `this.socket` was when the await began: the difference between the
two is the subject of `SuccessorUntouched`. `clock` is the query timer and then
the grace timer. `socket`, `reader` and `_serverHello` are one variable, since
they are set and cleared together once connected. `Finally` is the finally
block of `queryImpl` and `insertImpl` (1321-1343, 728-753), `Throw` an error
thrown out of the body into it.

Packets are classes. A query hands `Data` and `Progress` (standing for every
packet it yields) to its consumer, swallows `TimezoneUpdate` (and, in the code,
blocks without rows), and refuses `TableColumns` and `Pong`; an insert ignores
whatever it does not yield. A `Data` packet may fail to decode at any time
(`DecodeFails`).

The server is external, modelled as the client relies on it: one statement at a
time, closed by exactly one EndOfStream or Exception; a Cancel brings the end
forward; client packets that no longer fit (data after a Cancel, a Cancel after
the end) are skipped. An Exception may come before an insert's header, in the
middle of its data, or at the end.

A hangup is two events, as in Node. At `end` or `error` (`Hangup`) what has arrived
can still be read, and what has not is lost, in both directions: an operation that
finds nothing left to read, or waits to write, fails while the socket still is the
client's (`Rejects`), writes its Cancel to nobody, and its drain fails too. At `close`
(`CloseEvent`) the client forgets the socket. That the next operation still finds
a clean connection when `ping()` releases the client in between is part of `CleanReuse`.
A Ping that has been answered has left the send buffer, so that its write no longer
fails.

`EventLoopSettled` states one fact about Node: a `close` event, and the
rejections it causes, are delivered before a connection made later can have
finished its handshake. Without it the unguarded release in `ping()` (1472)
would free a successor's operation.

`StaleResume` says whether the application goes on with an operation of an
earlier connection after it has reconnected. The client cannot prevent it, and
does not survive it (finding 1 below), so the passing runs assume it does not;
what such an operation does without the application's help (timers, signals,
rejected awaits, finally blocks, `return()`) is in all of them.

### TcpSession

One connection at a time, never the same twice; one owner at a time; one tenure
for each operation. The refinement maps the owner to the operation that is under
way on the current connection, whatever `busy` says, so it fails if two
operations ever share it, if one takes over without a release in between, or if
`busy` drifts from ownership far enough to let a second one start.

### TcpConnect

`race[a]` is where call `a` of `connect()` is, `inner[a]` where its `onConnected()`
is: the race can be lost while `onConnected()` goes on. The three fields
`this.socket`, `this.reader` and `this._serverHello` are separate here, and
remember which attempt set them. One action is one turn of the event loop,
promise reactions included: `Reject` covers the rejection of `connectPromise`,
the catch block with its `teardown()`, and the finally block. `Overlap` says when
the application may call `connect()` again: after earlier calls have returned or
`close()` has given them up, or at any time.

### NativeBlock and StreamingReader

A byte is its own position in the stream, so "every byte exactly once, in order"
is an equation between buffer cells and positions (`Aligned`). A packet is a
sequence of fields (anything read once it is all there: varints, integers,
strings), an uncompressed block (whose end is known only when it has been
decoded), or a block in compressed frames. Socket events are `Data`, `Finish`
(`end`, `close`) and `SocketError`; `WaitOrEnd` is what every read does when bytes
are missing; `wake` is the pending promise. `NativeBlock!Attempt` decodes the
columns that are there and keeps a checkpoint at a column boundary, from which
the next attempt resumes. What the bytes of a column mean is left to its codec,
and decompression is the removal of a frame's head.

`PacketStream` is the abstraction: a packet can be read once its last byte has
arrived, in order, and a failure is reported only when the connection is broken
and the next packet is incomplete. Its fairness makes the refinement say that
what has arrived is read, and that a broken connection is reported.

### HttpClient and the generators under it

Generators pull, so of the fetch, `createStream` and its consumer one runs at a
time, and each has a variable that says where it is: `phase`, `stream`, `parser`
(framed), `turn` (Native), `reading` (lines). `scenario` is what the caller asks
for and what the server answers: it stands in the initial state, with the
answer's bytes, and every way of cutting these bytes into chunks is a behaviour.
A byte is a pair of a kind (what a scan can take it for) and its number, so
that the output can be compared byte by byte. A byte of a compressed block says
which block it is of; a block may be corrupt.

`Return` is what JavaScript does to a suspended generator when a `for await` loop
above it is left: the finally block of `createStream`, with `reader.cancel()`.
`BlockBuffer` gives its memory a `generation`, which changes when it is allocated
afresh, so `ViewsStay` can say which writes hit memory that was handed out.

`TextLines` is the application's side of text: the `TextDecoder` keeps the bytes
of a character that is split over chunks, `lineBuffer` those of a line.

### The Native format

A type is a tuple of its name and what it is made of, a JavaScript value a tuple
that begins with its kind, and what goes over the wire tokens
`<<width, bit pattern>>`: widths, signs, truncation and order are kept, byte order
within a number is not. Every codec is one case of `FromValues`, `Prefix`, `Encode`,
`ReadPrefix`, `Decode` and `At`. An exception is a value (`Error`, `Refusal`, a
broken reader) that spreads as the exception does.

`Kept` says without columns what a value becomes, and `RowsWhole` compares it with
what comes off the wire after one and after two turns. Server blocks are written
out token by token in `MCNative`, with the rows they mean.

`CodecCache` is a machine: `building` is the stack of the codecs under construction,
each with the types it has yet to look up, so an eviction or an unknown type can
come between any two lookups. `CacheDepth` says that no type is a part of itself.

`TypeNames`, `QueryParams`, `TcpPackets` and `HttpRequest` have the same shape:
what was meant (a tree, an argument, a packet, a set of options), the code that
writes it, and the other side reading it (external: a ClickHouse server as the
code relies on it), where it must mean the same.

## 3. What the runs check

| Run | Shows | Bounds |
|---|---|---|
| `tcp_reuse` | `CleanReuse`: a connection free for the next statement has no packet of an earlier one to read and an idle server; `OwnPackets`: nobody reads another's packets; `CancelOwn`: a statement meets an idle server and a Cancel its own statement or none; `TypeOK` | a query with external tables, an insert and a ping, 1 socket, backpressure, 4 packet classes |
| `tcp_reconnect` | `OneOwner`: busy is ownership; `SuccessorUntouched`: nothing is written to or read from a connection by an operation started on another; `NoLeakedSocket`; `StaleEndsQuietly`: the end of a stale operation changes nothing of the client; `ImplementsSession` | a query, an insert, a ping, 2 sockets |
| `tcp_fair` | `TimedQueryEnds`, `DrainEnds` against a silent server, `BusyEnds` with one that answers | a query and an insert, 1 socket, backpressure |
| `connect` | `WholeOrNothing`: no half-connected client that refuses every later connect; `NoOrphan`; `ResolvedIsUsable`: a resolved connect is the client's, alive and complete; `ConnectReturns` even after `close()` | 3 attempts |
| `reader` | `Aligned`, `BlocksDecode`, `BoundedBuffer`, `SleeperWakes`, `ViewsKept`, `ImplementsStream`, `AllRead` | 7 packets, 22 bytes, chunks of 1, 3 and 6, threshold 4, capacity 4 |
| `http` | `InitShared`: one load for all callers, and a failed one can be retried; `Delivered`: bytes, batches, packets and totals in order, none lost or made up, for any chunks, all of them when the call succeeds, and all in front of an exception when `createStream` throws one; `TextDelivered`: the same of lines and of the text of an error; `TrailerRule`: no body with a trailer passes for whole; `ReaderReleased`: the reader is cancelled whatever way a call ends; `RequestWhole`: an insert's bytes and each table's batches once and in order; `ViewsStay`: memory handed out is not written again; `ImplementsResult`; `TimedCallEnds` | 30 scenarios of at most some 40 bytes, chunks of 1, 3 and 7, two callers of `init()`, two loads, insert buffer 4, threshold 3, 10 bytes |
| `native` | `RowsWhole`, `BlocksKept`, `CacheSound`, `IoExact`, `TypesParse`, `ParamsRead`, `PacketsAgree`, `RequestMeant` (below) | 42 types, batches of 2 rows, 2 turns over the wire; see below |
| `tcp_stale_resume`, `tcp_timer_after_end`, `connect_stale_attempt`, `connect_overlap`, `reader_drain` | the findings below | as small as shows them |

What `native` shows, part by part:

* `RowsWhole`: rows appended, given at once, as columns or as objects come off the
  wire as they went on it, each value in its own column, after one turn and after
  two; a row that fails half way never mixes with another; nothing is refused that
  can be kept. `BlocksKept`: a server's block (sparse, wide indices, arms and paths
  out of order) decodes to its rows, in whatever way they are read, and survives
  being encoded again.
* `CacheSound`: the cache holds what was used last, however lookups nest or fail.
* `IoExact`: a VarInt is read exactly or refused, a prefix is an underflow
  (`VarIntExact`); what a writer wrote reads back, however it grew (`WriterReads`).
* `TypesParse`: the text of a type is read as the type it was written for.
* `ParamsRead`: placeholders are found where they are, and a parameter arrives, by
  HTTP and by TCP, as an insert of the same value would store it.
* `PacketsAgree`: both sides take every packet for what the other meant, for
  every pair of revisions, compressed or not; the client's totals are the
  server's.
* `RequestMeant`: every combination of options gives a request that the server
  takes for what was meant and answers in the encoding the client decodes.

Why the bounds are enough. Two operations that follow each other on a
connection are the least that can hand it over; a third adds the kind that is
written differently (`ping`). Two sockets are the least for a predecessor and a
successor, and no code looks further back than `startSocket`. One packet before
the end and one batch from the source reach every suspension point, with every
event possible at each (`MaxChatter`, `MaxBatches` are the named bounds; more
only repeat the loops). Three connect attempts allow a stale one, a current one
and a failed one between them. The reader's script has a value longer than the
pause threshold, a block split over any chunks and a block split over frames;
the chunk sizes give reads that wait, reads that find everything, and
reallocation in the middle of a block. In `http` chunks of one byte end anywhere,
those of 3 and 7 hold several delimiters, blocks or a whole trailer; `TailBytes`
is 5, as long as the longest trailer that can be split, as the 128 of the code are
meant to be.

`native` scales numbers down and keeps their relations: a byte has one bit
(`ByteBits = 1`), so that an `UInt8` is 0 or 1, an `Int64` has eight bits and an
`Int128` sixteen, and values, lengths, dictionary sizes and index widths cross
their limits with two rows; ten is two (`Ten`), so decimals of every width fit TLC's
integers; a second has two milliseconds and a day four; a microsecond two
nanoseconds (`NsPerMicro`); a block of LZ4 is 4 tokens (`FrameBlock`); a checksum is
a mark in two halves, whose swapped order is kept. Revisions are the real ones,
and the peers of the packets are those around every gate. What the scaling cannot
show: 256-bit integers and decimals of 32 bytes, whose patterns exceed TLC's
integers even so (their code differs from that for 128 bits in a width).

`CHECK_DEADLOCK FALSE` stands in every configuration because every instance may
really stop: each operation is started once, each connect made once, a stream
ends, a batch has been decoded.

The `TypeOK` of `TcpConnect` and `StreamingReader` are part of the inductive
invariants of section 4 and proved there; that of `HttpClient` is the type record
its definitions are read with. TLC finds all three true on these instances, and no
configuration lists them.

**Fairness.** `ClientFairness`: a continuation whose promise is settled runs, a
timer fires, a destroyed socket reports `close`, and the consumer of a generator
pulls or returns. That is the JavaScript event loop, and for the consumer the
contract of a generator whose result is awaited. It says nothing of the server or
the network: `TimedQueryEnds` and `DrainEnds` hold against a server that stays
silent and a peer that stops reading. `BusyEnds` adds `Served` as its premise (the
server answers, a stalled peer resumes, the source produces), because inserts and
pings have no timeout in the code. `Served` asks strong fairness of a
continuation: a `drain` event resolves the write that waits for it even if the
socket stalls again at once. `TcpConnect` assumes only the timer and the close
event. `StreamingReader` assumes that the client reads on; `AllRead` has
`Delivered` (the server sends all, the connection stays up) as its premise. `FairSpec` of
`HttpClient` says that a timer fires, that what waits for an aborted request
rejects, and that the application pulls on; it asks nothing of the server, so
`TimedCallEnds` holds against one that never answers or stops in the middle.

**Findings.** Five statements of the repository that the code does not keep:

1. `tcp_stale_resume`: "a stale operation never touches a successor connection"
   (client.ts 1101) is true of the callbacks, not of the bodies, which write
   through `this.socket` and read through `this.reader`. An insert waiting for its
   source across a reconnect sends its block on the new connection.
2. `tcp_timer_after_end`: the grace period is there for the server "to respond"
   (1131), but the timers run until the consumer pulls past EndOfStream, and may
   destroy the connection of a query the server has answered.
3. `connect_stale_attempt`: the connect timer tears down whatever the client is
   connected to when it fires; after `close()` during a connect that is the next
   attempt's connection.
4. `connect_overlap`: two overlapping `connect()` calls both pass the check that
   is to make a repeated connect refuse (changelog, line 93), because it is
   separated from the assignment by an await.
5. `reader_drain`: draining a compressed Data packet discards one frame, while
   a block may take several; the rest is read as packets. Usually that fails and
   the connection is closed, but the bytes may also look like a terminal packet.

**Observations.** Behaviour met while modelling that no run states, and that the
instances keep clear of where a property would fail on it:

* HTTP answers. A generator given up at the Progress packet of the headers has not
  started `createStream`, so its reader is never cancelled (`ReaderReleased` starts
  at the first read). The line-start rule does not hold at offset 0 of the held-back
  tail, so text that looks like a trailer may be taken for one (`raises = "perhaps"`).
  A trailer split over two compressed blocks is not found. An exception's message
  may be cut where the stream is. A body cut off exactly between blocks or records
  cannot be told from a whole one. When an exception follows, `streamDecodeNative`
  may still hold complete blocks back, and `streamLines` a last line (`batched`).
  `streamDecodeNative` gives every batch the columns of the first block.
  The finally blocks of `prepend` and `mapAsync` do not run if the generators
  never started: peeked sources of tables that were not reached stay open.
* HTTP requests. Settings or raw options with the names of transport parameters
  (`compress`, `framing_output_format`) change the URL but not how the client decodes.
  `settings: {a: undefined}` is sent as `undefined`, raw options skip it.
  `extractResponseFormat` takes the last `FORMAT` word, also one in a string, a comment
  or a column's name; after a table called `format` it takes the word `FORMAT` itself for
  the format's name. Parameters of the base URL are sent twice. Names are not
  escaped in `multipart` structures. A summary of JSON `null` is null.
* Codecs. `DynamicCodec.writePrefix` (dynamic.ts 303-315) writes prefixes of the types
  that have rows, `readPrefix` reads one for every type: a decoded Dynamic with a
  LowCardinality type without rows does not survive being encoded again. `readSparse`
  rebuilds an Enum column without `enumAsNumber`. `NumericColumnBuilder.push` moves on
  before it converts, so after a failed row the column is one longer
  (`validateColumnLengths` then refuses the batch). `readVarInt64` accepts 70 bits, and a
  VarInt padded with zero bytes may be refused. DateTime64 rounds milliseconds
  toward zero, the other date types down. `NumericCodec.encode` writes any typed
  array's bytes whatever its element type.
* Rows. `Object.keys` of a row throws when two columns have one name, because the
  `ownKeys` trap lists it twice; a column called `toObject`, `toJSON` or `toArray` hides
  behind the method. `bigIntAsString` does not reach into arrays, maps or tuples.
* TCP packets. `encodeBatchAsDataPacket` (client.ts 1347-1371) writes column prefixes
  even with zero rows, while `encodeNative`, the decoder and servers have none: an empty
  batch with a LowCardinality, Variant, Dynamic or JSON column would put the
  connection out of step. CPU percentages are computed only with ProfileEvents.
  Settings for servers older than 54429 go as strings without flags.
* Names. `parseTypeList` knows backquotes and no apostrophes, so an Enum's name with a
  lone parenthesis inside a Tuple is split wrongly (`Fragile` in `TypeNames`);
  `SKIP REGEXP` with a comma likewise; `parseType` of params.ts knows no backquotes.
* Parameters. Dates and Variants nested in a literal are not quoted, though
  `toLiteral`'s doc says nested values are (base.ts 232-241). A number for a DateTime64
  is passed as its digits, which a server reads as seconds, while an insert takes
  milliseconds; a ClickHouseDateTime64 of another precision is rescaled by a parameter and
  refused by an insert; an array for a named Tuple is positional in a parameter and
  all defaults in an insert; a Map's pair of other than two members is refused by an insert
  and cut or filled by a parameter. These are left out of `MCArguments`.

## 4. What is proved

Everything here is checked by TLAPS for every value of the constants; the runs of
section 3 show the same statements on their instances. Each proof goes through one
inductive invariant, which is stronger than what it is for: below each list is what
had to be added, and why.

The assumptions on constants are those the modules name, and type them or say what
the server and the application send. Three theorems' hypotheses go further, each
the negation of a finding: `Overlap = "given up"` (finding 4), `SingleFrames`
(finding 5: drained packets are of one frame), `~StaleResume` (finding 1). In the
presence of the finding the theorem is false, as the runs that expect a violation
show.

### TcpClient

| Theorem | States |
|---|---|
| `TypeCorrect`, `BusyIsOwnership`, `SocketsNotLeaked` (`TcpClientProofs`) | `[]TypeOK`, `[]OneOwner`, `[]NoLeakedSocket` |
| `Refinement` (`TcpClientProofs`) | `ImplementsSession`, that is, `Session!Spec` |
| `ReuseIsClean`, `ReadsOwnPackets`, `CancelReachesOwn` (`TcpChannelProofs`, `~StaleResume`) | `[]CleanReuse`, `[]OwnPackets`, `[]CancelOwn` |
| `SuccessorLeftAlone`, `StaleEndIsQuiet` (`TcpChannelProofs`, `~StaleResume`) | `[]SuccessorUntouched`, `StaleEndsQuietly` |

`OneOwner` alone is not inductive: the unguarded release of `ping()` would break it
in a state where a ping of an old connection is still suspended while a new
operation is under way. `Inv` excludes that state by following the ping
(`PingsApart`: a suspended ping waits on the connection it started on, and the
client's socket is that one or none, because `EventLoopSettled` keeps a new
connection from being made before the ping has been rejected), and adds that the
client's socket is always a live one (`SocketLive`), that an operation under way
has a start socket that has been used (`Rooted`), and that the server works only
for operations (`ServerBusyWith`, needed for the types). The steps of an operation
fall into a few classes (it goes on; it leaves and releases; it drops the
connection), so preservation is proved once per class and each action is shown to
belong to one. `Refinement` maps each class to a step or a stutter of `TcpSession`.

`ChInv` adds what passes over the connections. `CleanReuse` speaks of a free
client only, so nothing in it says why the next release leaves the connection
clean. `Conversation` says of every socket that a statement is on its way to the
server, or being worked on, or its result on its way back: one of the three, and
with it only packets of that statement; in particular an EndOfStream is the last of
its result; and that nothing is on its way once the connection has ended.
`OwnTraffic` says that the conversation on the client's socket is its
owner's, and over once the owner has seen its end; `AwaitsOwn`, which is where
`~StaleResume` enters, that an await is on the operation's own connection. `Manners`
describes what a step of an operation may write, read and release, so preservation
is proved once, and each action shown to have these manners.

### TcpConnect

`ConnectTypes` (`[]TypeOK`, calls may overlap); with `Overlap = "given up"`
`NothingHalfConnected` (`[]WholeOrNothing`), `SocketNotForgotten` (`[]NoOrphan`),
`ResolvesUsable` (`ResolvedIsUsable`) and `SocketNotReplaced` (`NoReplacement`), for
any number of attempts. The invariant adds `LoadsAlone` (while an attempt loads
compression the client holds nothing and no other attempt is there: what makes the
check at the top of `connect()` enough despite the await behind it) and
`OverOwnSocket` (a handshake left behind by a lost race talks over its own socket,
so it cannot greet for another). `NoReplacement` is the property that `connect_overlap`
refutes; the theorem is the other half of that finding. Most steps only fail attempts and let sockets die
(`Shrinks`), and are dealt with together.

### StreamingReader

For every script of packets, chunking, threshold and capacity, with `SingleFrames`:
`ReaderTypes`, `EveryByteOnce` (`[]Aligned`), `BlocksFromTheirBytes`
(`[]BlocksDecode`), `CursorBetweenPackets` (`[]PacketsWhole`), `BufferBounded`
(`[]BoundedBuffer`), `SleepersWakeable` (`[]SleeperWakes`), `HandedOutKept`
(`ViewsKept`), and `PacketsInOrder`, the safety part of `ImplementsStream`: an initial
state maps to one of `PacketStream` and a step to a step or a stutter.

`IInv` has three parts. `Reading` says where the cursor is within its packet and that
what is behind it in the buffer is what comes next. `Holding` says what an attempt
at a block has kept: the checkpoint lies on a column boundary of the bytes gathered
(`Resumable`), and what has been gathered is exactly what has been handed out and
not consumed (`HandedOut`, `Payloads`); without them `Aligned` would break when the
decoder gives back what it did not use. `Flowing` says why the socket is not paused:
less is buffered than the threshold or than the longest span a read may wait for
(`Unpaused`), from which the bound and the absence of a stuck sleeper follow. The
longest span and the largest chunk exist by `FiniteMax` of `BlockLemmas`.

### HttpClient

| Theorem | States |
|---|---|
| `MemoShared` (`HttpClientProofs`) | `[]InitShared`, for any callers and libraries |
| `ReleasedAtEnd` (`HttpClientProofs`) | `[]ReaderReleased`, for every response, consumer and point at which the application leaves |
| `SentAsGiven` (`HttpClientProofs`) | `[]RequestWhole`, for any input, chunks, buffer and threshold |
| `TrailerFound` (`HttpBodyProofs`) | `[]TrailerRule`, for any body, plain or in compressed blocks, cut into any chunks |
| `BodyPassesThrough` (`HttpBodyProofs`) | of a plain body, what has been received is a prefix of what was sent, and all of it when `createStream` is done |
| `OutputDelivered` (`HttpBodyProofs`) | `[]Delivered`: of any body, plain, compressed or framed, the consumer has bytes, batches, or packets and their totals as the server meant them, in order and once, and a query that succeeds has given all of them; when `createStream` throws an exception, all in front of it has been given, unless output looks just like one |
| `BatchViewsStay` (`HttpBodyProofs`) | `ViewsStay`: the columns of a batch handed out are never written over |

`ReaderInv` ties the generators together: which may run in a phase, and that a
consumer is busy only while `createStream` is suspended at a yield or done. The
insert's invariants say of the bytes copied, buffered and flushed that together
they are a prefix of the input; those of the tables that what was peeked is the
first batch and is sent before the source is asked again. `TrailerFound` is about a
scan: `PlainScan` says that what has been yielded and what is held back are the bytes
arrived, that no trailer stands in them, and that at least `TailBytes` are held back
once anything has been yielded; a trailer that a new chunk completes then begins in
what is held back (`NothingMissed`), since a preamble that can be split is no longer
than `TailBytes`. For compressed bodies `BlocksFound` says that the buffer begins with
a block's head, that every block before it was scanned, and how the buffer's cells,
moved and compacted, still are the bytes of the body (`AppendedView`,
`ConsumedView`). `ScenariosAssumption` says what a response is: a compressed body is
blocks, one behind the other, of which the last may be cut off.

`OutputDelivered` needs to know what the server meant, and `OutputAssumption` says it,
byte by byte and block by block, never by way of the client's algorithms: the output
is what the body, or the content of its blocks, holds in front of the first trailer
(`IsOutput`); a Native output is a row of blocks whose column boundaries are given,
each a batch or an end marker (`IsBlocks`); a framed one a row of records, each up to
the first delimiter behind the one before, which make the packets and totals listed
(`IsRecords`). Without a trailer the body holds all of the output (`Unraised`, `IsAll`);
unless output looks just like a trailer, it ends in front of the first (`EndsBefore`).
A chunk may end anywhere, so none of this says what a read returns. The assumption
covers successful queries; TLC evaluates it on every scenario of `http`.
The argument goes from the wire to the application. `OutputPassed`: what
`createStream` yields is a prefix of the output, from `PlainScan`, `BlocksFound` and,
for framed bodies, which are not scanned, `FramesPass`; so no byte of a trailer is
ever passed on. `NativeInv`: `streamDecodeNative`'s buffer is well formed, the bytes in
it are what has been received from the block on that it is about to decode, and what
it keeps of earlier attempts are columns of that block (`BlocksDecoded`), so that an
attempt that is whole, early or late, decodes that block and nothing else
(`AttemptDecodes`, `AttemptResumes` of `BlockLemmas`). `FramedInv`: the text is what has
been received from a record on, and no delimiter begins before `from`, where the next
search starts (`RecordsCut`), so a record cut by chunks is neither split nor joined.
That a query which succeeds has had everything rests on `EndInv`: success means that
`createStream`, and the parser or the decoder behind it, are done, and whoever is done
has nothing left over; then all that the body held has been received (`AllHeld`), the
last batch or packet ends where it does, and the assumption makes it the server's last.
That an exception comes after all in front of it rests on where it was found:
`PlainScan` and `BlocksFound` say that a trailer stands right behind what was yielded,
or beside blocks all of which were (`Raised`).
For `BatchViewsStay` the buffer must be known to be well formed: only then does an
append that stays within the memory write behind everything in it.

### CodecCache

`CacheIsLru` (`CodecCacheProofs`): `CacheSpec => []CacheSound`, for any types, nesting
and limit. `CacheSound` is preserved by an insertion only when the type is not in the
cache by then: it was not when its codec was begun, but many lookups lie between.
The invariant says of the stack that the codecs under construction are of ever
smaller types (`StackFits`), so what is inserted meanwhile is none of them.

### What stays with TLC

* Liveness, which the prover does not do: `TimedQueryEnds`, `DrainEnds`, `BusyEnds`,
  `ConnectReturns`, `AllRead`, `TimedCallEnds`, and the fairness of `ImplementsStream`.
* `ImplementsResult`: that a query which succeeds has had everything, in order, that an
  exception stands in the body, and that all in front of it has been given, are
  `OutputDelivered` and `TrailerFound`. For TLC remain the same of text, exceptions that
  come as packets, and that the server meant what stands there as an exception.
* `TextDelivered`: `TextDecoder`, split characters, the trimming of lines: what they make
  of a text is a fold over its characters, and equating it for every text with the
  lines meant is an induction over data.
* `RowsWhole`, `BlocksKept`, `IoExact`, `TypesParse`, `ParamsRead`, `PacketsAgree`,
  `RequestMeant`: the modules of the Native format, VarInts, names, parameters,
  packets and requests compute by recursion over types, values and text. What they
  compute for every input is an induction over data too, and they declare
  RECURSIVE operators for TLC.

## 5. What is not modelled, and the plan

Not modelled: `generate`, `compare` and `estimateSize` of the codecs (they serve
fuzzers, tests and allocation); the JSON text of values; `setKeepAlive`; the
brand by which batches of several copies of the package know each other; logging;
the CLI (a readline loop over `TcpClient`); the fuzzers, benchmarks, scripts and
tests; the generated table of settings (6366 lines of names and types), and the
type declarations and re-exports, which do nothing at run time. The compression
libraries, the hash, `fetch`, the socket and the ClickHouse server are external,
modelled as the code uses them. `appendRow` after `finish` is left out: a second
`finish` throws, so nothing reads those rows.

Proofs to come: that a framed query has been given all packets in front of an exception
packet, for which `RecordsCut` has to say which record the parser stopped at.

The modules of the HTTP client are written for proofs: parameters are constants with named
assumptions, an action is an operation, layouts are given as cut positions so that
no sum has to be computed, and no module among them declares a RECURSIVE operator.
