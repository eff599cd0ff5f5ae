------------------------------ MODULE HttpBody ------------------------------
(***************************************************************************)
(* createStream() of queryImpl (src/client.ts): the generator that turns   *)
(* the chunks of an HTTP response body into chunks of formatted output,    *)
(* on the watch for an exception that ClickHouse appends to a body after   *)
(* its headers have left.                                                  *)
(*                                                                         *)
(* A byte is a pair <<kind, number>>.  Of output, the number is its place, *)
(* and the kind says whether it is a newline ("n"), or can be taken for a  *)
(* part of a trailer: the marker "__exception__" ("m"), the server's tag   *)
(* ("t"), "Code: <digits>." ("c").  Of a compressed block, <<"h", b>> are  *)
(* the bytes of its header and <<"z", b>> those of its payload, and what   *)
(* it decompresses to is content[b].                                       *)
(***************************************************************************)
EXTENDS Naturals, Sequences, BlockBuffer

CONSTANTS
  TailBytes,    \* EXCEPTION_SCAN_TAIL_BYTES
  HeadBytes,    \* the 25 bytes of checksum and header
  BufferBytes   \* the first size of the BlockBuffer

\* "Must exceed the longest trailer preamble a chunk boundary can split."
ASSUME TailAssumption == TailBytes \in Nat /\ TailBytes >= 5 /\ HeadBytes \in Nat \ {0}
                         /\ BufferBytes \in Nat \ {0}

VARIABLES
  response,     \* [wire, content, corrupt, text, framing, compressed, tag]
  arrived,      \* bytes of it that have been read
  stream,       \* where the generator is
  after,        \* where it goes on after the chunk it has yielded
  handed,       \* that chunk
  pending,      \* the tail held back
  streamBuffer, \* the BlockBuffer
  cancelled     \* reader.cancel() has been called

bodyVars == <<response, arrived, stream, after, handed, pending, streamBuffer, cancelled>>

Terminal == {"done", "exception", "error", "returned"}

BodyInit ==
  /\ arrived = 0 /\ stream = "idle" /\ after = "reading" /\ handed = <<>>
  /\ pending = <<>> /\ streamBuffer = Fresh(BufferBytes) /\ cancelled = FALSE
-----------------------------------------------------------------------------
\* Finding the trailer.

Kinds(bytes, i, kinds) ==
  /\ i + Len(kinds) - 1 <= Len(bytes)
  /\ \A k \in DOMAIN kinds : bytes[i + k - 1][1] = kinds[k]

\* The marker, a line with the tag if the server has announced one, the preamble.
TrailerAt(r, bytes, i) ==
  \/ Kinds(bytes, i, <<"m", "n", "c">>)
  \/ r.tag /\ Kinds(bytes, i, <<"m", "n", "t", "n", "c">>)

\* Text formats ask for the marker at the start of a line, or of what there is.
Trailers(r, bytes) ==
  {i \in DOMAIN bytes : /\ r.text /\ i > 1 => bytes[i - 1][1] = "n"
                        /\ TrailerAt(r, bytes, i)}

IsFramedExceptionAt(bytes, i) == TrailerAt(response, bytes, i)
Markers(bytes) == Trailers(response, bytes)
HasException(bytes) == Markers(bytes) # {}
ExceptionMarker(bytes) == CHOOSE i \in Markers(bytes) : \A k \in Markers(bytes) : i <= k
BeforeException(bytes) == SubSeq(bytes, 1, ExceptionMarker(bytes) - 1)
-----------------------------------------------------------------------------
\* The ways on from one await or yield to the next.

\* To an await, or out of the generator through its finally block.
Go(where) ==
  /\ stream' = where /\ handed' = <<>> /\ UNCHANGED after
  /\ cancelled' = (cancelled \/ where \in Terminal)

\* Yield a chunk, then go on.  An empty one tells its consumer nothing, and counts
\* as taken.
YieldChunk(chunk, where) ==
  stream' = "yielded" /\ handed' = chunk /\ after' = where /\ UNCHANGED cancelled

\* Yield it unless it is empty.
Emit(chunk, where) == IF chunk = <<>> THEN Go(where) ELSE YieldChunk(chunk, where)

Scan(bytes) == Emit(BeforeException(bytes), "exception") /\ pending' = <<>>

\* Mutant: nothing is held back.
HoldBackNothing(chunk) ==
  IF HasException(chunk) THEN Scan(chunk)
  ELSE Emit(chunk, "reading") /\ UNCHANGED pending

\* An uncompressed chunk.
HoldBack(chunk) ==
  LET combined == pending \o chunk
      emitLen  == IF Len(combined) > TailBytes THEN Len(combined) - TailBytes ELSE 0
  IN IF HasException(combined) THEN Scan(combined)
     ELSE /\ Emit(SubSeq(combined, 1, emitLen), "reading")
          /\ pending' = SubSeq(combined, emitLen + 1, Len(combined))

\* Its end: the tail is looked at once more, and let go.
LetGo ==
  IF HasException(pending) THEN Scan(pending)
  ELSE Emit(pending, "done") /\ pending' = <<>>

\* readUInt32LE of a block's size; of anything but a header it is some number
\* larger than any body.
IsHead(bytes) == bytes[1][1] = "h"
BlockBytes(bytes) == HeadBytes + Len(response.content[bytes[1][2]])

\* The loop over the complete blocks of a buffer, up to its next yield or await.
\* decodeBlock() checks the checksum; a failure is not a trailer, which has been
\* looked for before.
NextBlockOf(buffer) ==
  LET bytes == View(buffer)
  IN IF Available(buffer) < HeadBytes THEN Go("reading") /\ streamBuffer' = buffer
     ELSE IF IsFramedExceptionAt(bytes, 1) THEN Go("exception") /\ streamBuffer' = buffer
     ELSE IF ~IsHead(bytes) \/ Available(buffer) < BlockBytes(bytes)
          THEN Go("reading") /\ streamBuffer' = buffer
     ELSE IF bytes[1][2] \in response.corrupt THEN Go("error") /\ streamBuffer' = buffer
     ELSE LET content == response.content[bytes[1][2]]
          IN /\ streamBuffer' = Consumed(buffer, BlockBytes(bytes))
             /\ IF HasException(content)
                THEN Emit(BeforeException(content), "exception")
                ELSE YieldChunk(content, "blocks")

\* The bytes left at the end are a trailer or a block that was cut off.
Leftover ==
  IF Available(streamBuffer) = 0 THEN Go("done")
  ELSE IF IsFramedExceptionAt(View(streamBuffer), 1) THEN Go("exception")
  ELSE Go("error")
-----------------------------------------------------------------------------
\* The generator is asked for its first chunk.
Open ==
  /\ stream = "idle" /\ Go("reading")
  /\ UNCHANGED <<response, arrived, pending, streamBuffer>>

\* reader.read() resolves with the next n bytes.
ReadChunk(n) ==
  LET chunk == SubSeq(response.wire, arrived + 1, arrived + n)
  IN /\ stream = "reading" /\ arrived + n <= Len(response.wire)
     /\ arrived' = arrived + n
     /\ IF response.compressed
        THEN NextBlockOf(Appended(streamBuffer, chunk)) /\ UNCHANGED pending
        ELSE /\ IF response.framing THEN Emit(chunk, "reading") /\ UNCHANGED pending
                ELSE HoldBack(chunk)
             /\ UNCHANGED streamBuffer
     /\ UNCHANGED response

\* Mutant: what is left of a compressed body is not looked at.
ReadEndBlind ==
  /\ stream = "reading" /\ arrived = Len(response.wire)
  /\ IF response.compressed \/ response.framing THEN Go("done") /\ UNCHANGED pending ELSE LetGo
  /\ UNCHANGED <<response, arrived, streamBuffer>>

\* reader.read() resolves with the end of the body.
ReadEnd ==
  /\ stream = "reading" /\ arrived = Len(response.wire)
  /\ IF response.compressed THEN Leftover /\ UNCHANGED pending
     ELSE IF response.framing THEN Go("done") /\ UNCHANGED pending
     ELSE LetGo
  /\ UNCHANGED <<response, arrived, streamBuffer>>

\* reader.read() rejects: the connection broke, or the signal fired.
ReadFails ==
  /\ stream = "reading" /\ Go("error")
  /\ UNCHANGED <<response, arrived, pending, streamBuffer>>

\* The consumer asks for more.
Resume ==
  /\ stream = "yielded"
  /\ IF after = "blocks" THEN NextBlockOf(streamBuffer)
     ELSE Go(after) /\ UNCHANGED streamBuffer
  /\ UNCHANGED <<response, arrived, pending>>

\* The consumer gives up: return() resumes a suspended generator in its finally
\* block, and ends one that has not been started without it.
Return ==
  /\ stream \in {"idle", "yielded"}
  /\ stream' = "returned" /\ cancelled' = (stream = "yielded")
  /\ UNCHANGED <<response, arrived, after, handed, pending, streamBuffer>>
=============================================================================
