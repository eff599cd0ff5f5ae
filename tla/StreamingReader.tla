-------------------------- MODULE StreamingReader --------------------------
(***************************************************************************)
(* src/tcp_client/reader.ts with the block decoding of                     *)
(* src/tcp_client/client.ts: socket events fill a buffer, and one client   *)
(* reads packets out of it, sleeping when their bytes are not there yet.   *)
(* The socket is paused when the reader falls behind.                      *)
(*                                                                         *)
(* The stream is 1, 2, 3, ...: a byte is its own position.  The packets it *)
(* consists of are of three kinds:                                         *)
(*   fields  varints, integers and strings, each read when it is all there *)
(*           (readVarint, ensure);                                         *)
(*   block   an uncompressed Native block, whose end is known only once it *)
(*           has been decoded (peekAll, nextChunk, consume);               *)
(*   packed  a Native block in compressed frames, each read when it is all *)
(*           there (readCompressedBlock) or skipped unread by a drain      *)
(*           (discardCompressedBlock).                                     *)
(* The packet id and the block name that precede a block are fields.       *)
(* Consumer steps are as fine as single reads, where the code may run      *)
(* several before the next socket event.                                   *)
(***************************************************************************)
EXTENDS NativeBlock, FiniteSets

CONSTANTS
  Script,       \* the packets: [kind, stops, cuts], see IsPacket
  Drained,      \* the packed packets a drain may meet
  FrameHead,    \* bytes of a frame before its payload (FULL_HEADER_SIZE)
  ChunkSizes,   \* the sizes of "data" events
  Threshold,    \* PAUSE_THRESHOLD
  MinCapacity   \* MIN_CAPACITY

Packets == 1 .. Len(Script)
Last(s) == s[Len(s)]
Start(p) == IF p = 1 THEN 0 ELSE Last(Script[p - 1].stops)
Stop(p)  == Last(Script[p].stops)
Total    == Stop(Len(Script))

\* stops are the stream positions at which the fields or frames of a packet
\* end (one for a block); cuts is the layout of its block, over the payloads of
\* its frames, none of which is empty.
IsPacket(p) ==
  /\ IsCuts(Script[p].stops) /\ Start(p) < Script[p].stops[1]
  /\ Script[p].kind = "block" =>
       /\ Len(Script[p].stops) = 1
       /\ IsCuts(Script[p].cuts) /\ Last(Script[p].cuts) = Stop(p) - Start(p)
  /\ Script[p].kind = "packed" =>
       /\ IsCuts(Script[p].cuts)
       /\ FrameHead < Script[p].stops[1] - Start(p)
       /\ \A i, j \in DOMAIN Script[p].stops :
            i < j => FrameHead * (j - i) < Script[p].stops[j] - Script[p].stops[i]
       /\ Last(Script[p].cuts) = Stop(p) - Start(p) - FrameHead * Len(Script[p].stops)

ASSUME ScriptAssumption ==
  /\ Script \in Seq([kind : {"fields", "block", "packed"},
                     stops : Seq(Nat), cuts : Seq(Nat)])
  /\ Len(Script) > 0
  /\ \A p \in Packets : IsPacket(p)
  /\ Drained \subseteq {p \in Packets : Script[p].kind = "packed"}
ASSUME SizesAssumption ==
  /\ FrameHead \in Nat
  /\ ChunkSizes \subseteq Nat \ {0} /\ IsFiniteSet(ChunkSizes) /\ 1 \in ChunkSizes
  /\ Threshold \in Nat \ {0} /\ MinCapacity \in Nat \ {0}

VARIABLES
  \* the socket
  arrived,      \* bytes it has delivered
  done, error,  \* "end" or "close", "error"
  paused,       \* pausedByUs
  \* the reader
  buffer, offset, end, returnedEnd,
  generation,   \* counts the buffers allocated
  wake,         \* a read sleeps in waitForMore
  \* the client reading
  packet, part, \* the packet it reads, the fields or frames of it it has read
  firstRead, gathered, partial,  \* readBlock and decodeNativePayload
  outcome

socketVars == <<arrived, done, error>>
bufferVars == <<buffer, end, generation>>
cursor     == <<offset, returnedEnd, paused>>
sleep      == <<wake, outcome>>
decoder    == <<packet, part, firstRead, gathered, partial>>
vars       == <<socketVars, bufferVars, cursor, sleep, decoder>>

Init ==
  /\ arrived = 0 /\ done = FALSE /\ error = FALSE /\ paused = FALSE
  /\ buffer = [i \in 1 .. MinCapacity |-> 0]
  /\ offset = 0 /\ end = 0 /\ returnedEnd = 0 /\ generation = 0
  /\ wake = FALSE
  /\ packet = 1 /\ part = 0
  /\ firstRead = TRUE /\ gathered = <<>> /\ partial = NoPartial
  /\ outcome = "reading"

available == end - offset
Larger(m, n) == IF m >= n THEN m ELSE n
-----------------------------------------------------------------------------
\* Socket events.

Incoming(n) == [i \in 1 .. n |-> arrived + i]
Unread == SubSeq(buffer, offset + 1, end)
Blank(n) == [i \in 1 .. n |-> 0]

\* Mutant: unread bytes move to the front of the same buffer.
ReallocInPlace(n) ==
  LET capacity == Larger(Len(buffer), available + n)
  IN /\ buffer' = [i \in 1 .. capacity |->
                     IF i <= available + n THEN (Unread \o Incoming(n))[i]
                     ELSE IF i <= Len(buffer) THEN buffer[i] ELSE 0]
     /\ offset' = 0
     /\ end' = available + n
     /\ returnedEnd' = IF returnedEnd > offset THEN returnedEnd - offset ELSE 0
     /\ UNCHANGED generation

\* realloc() and the rest of append(): a fresh buffer, with headroom.
Realloc(n) ==
  LET capacity == Larger(MinCapacity, (available + n) * 2)
  IN /\ buffer' = Unread \o Incoming(n) \o Blank(capacity - available - n)
     /\ offset' = 0
     /\ end' = available + n
     /\ returnedEnd' = IF returnedEnd > offset THEN returnedEnd - offset ELSE 0
     /\ generation' = generation + 1

\* Mutant: a slow client does not stop the socket.
DataUnbounded(n) ==
  /\ ~done /\ ~error /\ arrived + n <= Total
  /\ IF end + n > Len(buffer)
     THEN Realloc(n)
     ELSE /\ buffer' = [i \in DOMAIN buffer |->
                          IF i \in end + 1 .. end + n THEN arrived + i - end ELSE buffer[i]]
          /\ end' = end + n
          /\ UNCHANGED <<offset, returnedEnd, generation>>
  /\ arrived' = arrived + n
  /\ wake' = FALSE
  /\ UNCHANGED <<paused, done, error, outcome, decoder>>

\* A "data" event.
Data(n) ==
  /\ ~paused /\ ~done /\ ~error /\ arrived + n <= Total
  /\ IF end + n > Len(buffer)
     THEN Realloc(n)
     ELSE /\ buffer' = [i \in DOMAIN buffer |->
                          IF i \in end + 1 .. end + n THEN arrived + i - end ELSE buffer[i]]
          /\ end' = end + n
          /\ UNCHANGED <<offset, returnedEnd, generation>>
  /\ arrived' = arrived + n
  /\ paused' = (end' - offset' >= Threshold)
  /\ wake' = FALSE
  /\ UNCHANGED <<done, error, outcome, decoder>>

\* "end" follows the last data that was read off the socket, "close" may come
\* at any time.
Finish ==
  /\ ~done /\ done' = TRUE
  /\ wake' = FALSE
  /\ UNCHANGED <<arrived, error, bufferVars, cursor, outcome, decoder>>

SocketError ==
  /\ ~done /\ ~error /\ error' = TRUE
  /\ wake' = FALSE
  /\ UNCHANGED <<arrived, done, bufferVars, cursor, outcome, decoder>>

-----------------------------------------------------------------------------
\* The primitives a read is made of.

\* Mutant: a read goes to sleep with the socket paused.
WaitOrEndPaused ==
  /\ IF error \/ done
     THEN outcome' = "failed" /\ UNCHANGED wake
     ELSE wake' = TRUE /\ UNCHANGED outcome
  /\ UNCHANGED <<cursor, socketVars, bufferVars, decoder>>

\* Mutant: a read sleeps even though the stream has ended.
WaitOrEndDeaf ==
  /\ wake' = TRUE /\ paused' = FALSE
  /\ UNCHANGED <<offset, returnedEnd, outcome, socketVars, bufferVars, decoder>>

\* waitOrEnd() and the throw of its callers; the caller's loop looks again when
\* it is woken.
WaitOrEnd ==
  /\ IF error \/ done
     THEN outcome' = "failed" /\ UNCHANGED <<wake, paused>>
     ELSE wake' = TRUE /\ paused' = FALSE /\ UNCHANGED outcome
  /\ UNCHANGED <<offset, returnedEnd, socketVars, bufferVars, decoder>>

\* advance()
Skip(n) ==
  /\ offset' = offset + n
  /\ paused' = (paused /\ 2 * (available - n) >= Threshold)

Awake(kind) ==
  /\ outcome = "reading" /\ ~wake
  /\ packet \in Packets /\ Script[packet].kind = kind

NextPacket ==
  /\ packet' = packet + 1 /\ part' = 0
  /\ firstRead' = TRUE /\ gathered' = <<>> /\ partial' = NoPartial

\* The stream position at which the field or frame to read starts.
Due  == IF part = 0 THEN Start(packet) ELSE Script[packet].stops[part]
Size == Script[packet].stops[part + 1] - Due

-----------------------------------------------------------------------------
\* Reading packets.

\* Mutant: a value is taken without making sure that it is all there.
ReadFieldEager ==
  /\ Awake("fields")
  /\ IF available = 0 THEN WaitOrEnd
     ELSE /\ Skip(IF available < Size THEN available ELSE Size)
          /\ IF part + 1 = Len(Script[packet].stops) THEN NextPacket
             ELSE part' = part + 1 /\ UNCHANGED <<packet, firstRead, gathered, partial>>
          /\ UNCHANGED <<returnedEnd, socketVars, bufferVars, sleep>>

\* readVarint(), readString(), readU8() and their kin.
ReadField ==
  /\ Awake("fields")
  /\ IF available < Size THEN WaitOrEnd
     ELSE /\ Skip(Size)
          /\ IF part + 1 = Len(Script[packet].stops) THEN NextPacket
             ELSE part' = part + 1 /\ UNCHANGED <<packet, firstRead, gathered, partial>>
          /\ UNCHANGED <<returnedEnd, socketVars, bufferVars, sleep>>

\* One turn of decodeNativePayload(): append a chunk, try again.
Decode(chunk) == Attempt(gathered \o chunk, Script[packet].cuts, partial)
Decodes(chunk) == IsWhole(Script[packet].cuts, Decode(chunk))
Gather(chunk) == gathered' = gathered \o chunk /\ partial' = Decode(chunk)

\* Mutant: a whole block consumes all that was handed out.
BlockChunkGreedy(chunk) ==
  /\ returnedEnd' = end
  /\ IF Decodes(chunk)
     THEN Skip(Len(gathered \o chunk)) /\ NextPacket
     ELSE /\ Gather(chunk) /\ firstRead' = FALSE
          /\ UNCHANGED <<offset, paused, packet, part>>
  /\ UNCHANGED <<socketVars, bufferVars, sleep>>

\* A chunk of an uncompressed block.  The bytes stay unread until the block is
\* whole and its length is known.
BlockChunk(chunk) ==
  /\ returnedEnd' = end
  /\ IF Decodes(chunk)
     THEN Skip(Decode(chunk).resumeOffset) /\ NextPacket
     ELSE /\ Gather(chunk) /\ firstRead' = FALSE
          /\ UNCHANGED <<offset, paused, packet, part>>
  /\ UNCHANGED <<socketVars, bufferVars, sleep>>

\* peekAll(), for the first chunk of a block.
PeekAll ==
  /\ Awake("block") /\ firstRead
  /\ IF available > 0 THEN BlockChunk(Unread)
     ELSE /\ returnedEnd' = end
          /\ firstRead' = FALSE
          /\ UNCHANGED <<offset, paused, socketVars, bufferVars, sleep,
                         packet, part, gathered, partial>>

\* nextChunk(), for the others.
NextChunk ==
  /\ Awake("block") /\ ~firstRead
  /\ IF end <= returnedEnd THEN WaitOrEnd
     ELSE BlockChunk(SubSeq(buffer, returnedEnd + 1, end))

\* readCompressedBlock(): the frame is copied out of the buffer as it is
\* decompressed.  A block may take several.  Waiting for the frame's header
\* first changes nothing but the size waited for.
ReadFrame ==
  /\ Awake("packed")
  /\ IF available < Size THEN WaitOrEnd
     ELSE LET payload == SubSeq(buffer, offset + FrameHead + 1, offset + Size)
          IN /\ Skip(Size)
             /\ IF Decodes(payload) THEN NextPacket
                ELSE Gather(payload) /\ part' = part + 1 /\ UNCHANGED <<packet, firstRead>>
             /\ UNCHANGED <<returnedEnd, socketVars, bufferVars, sleep>>

\* discardCompressedBlock(), in the drain of an abandoned statement: one frame,
\* and drainServerPacket goes on to the next packet.
DiscardFrame ==
  /\ Awake("packed") /\ packet \in Drained /\ part = 0
  /\ IF available < Size THEN WaitOrEnd
     ELSE /\ Skip(Size) /\ NextPacket
          /\ UNCHANGED <<returnedEnd, socketVars, bufferVars, sleep>>

-----------------------------------------------------------------------------
Socket == (\E n \in ChunkSizes : Data(n)) \/ Finish \/ SocketError
ReadOn == ReadField \/ PeekAll \/ NextChunk \/ ReadFrame
Next   == Socket \/ ReadOn \/ DiscardFrame

Spec == Init /\ [][Next]_vars

\* The client goes on reading what it has awaited.
FairSpec == Spec /\ WF_vars(ReadOn)

\* The server sends everything, and the connection stays up.
Delivered == WF_vars(\E n \in ChunkSizes : Data(n)) /\ [](~done /\ ~error)

-----------------------------------------------------------------------------
TypeOK ==
  /\ arrived \in 0 .. Total
  /\ done \in BOOLEAN /\ error \in BOOLEAN /\ paused \in BOOLEAN /\ wake \in BOOLEAN
  /\ buffer \in Seq(0 .. Total) /\ end \in 0 .. Len(buffer) /\ offset \in 0 .. end
  /\ returnedEnd \in 0 .. end /\ generation \in Nat
  /\ packet \in 1 .. Len(Script) + 1 /\ part \in Nat
  /\ firstRead \in BOOLEAN /\ gathered \in Seq(1 .. Total)
  /\ outcome \in {"reading", "failed"}

\* Where the cursor should be.
Position == IF packet > Len(Script) THEN Total ELSE Due

\* Every byte exactly once: what is unread is what has arrived and has not been
\* consumed, wherever chunks, packets and buffers begin and end.
Aligned ==
  /\ arrived = Position + available
  /\ \A i \in 1 .. available : buffer[offset + i] = Position + i

\* A block is decoded from its own bytes: the decoder holds a block's bytes in
\* order without gap or repetition, exactly those the reader has handed out, and
\* the columns kept across a resumed attempt are cut from them in the right places.
BlockBytes ==
  packet \in Packets /\ Script[packet].kind = "block" =>
    /\ gathered = [i \in 1 .. Len(gathered) |-> Start(packet) + i]
    /\ ~firstRead => Len(gathered) = returnedEnd - offset
ColumnsCut ==
  packet \in Packets /\ partial.header =>
    LET cuts == Script[packet].cuts
    IN /\ \A k \in DOMAIN partial.columns :
            partial.columns[k] = SubSeq(gathered, cuts[k] + 1, cuts[k + 1])
       /\ partial.resumeOffset = cuts[Len(partial.columns) + 1]
BlocksDecode == BlockBytes /\ ColumnsCut

\* "drain remaining packets to keep the connection in a clean state": whether
\* packets are read or drained, between two of them the cursor stands at the
\* start of the next.
PacketsWhole ==
  packet \in Packets /\ part = 0 => arrived - available = Start(packet)

\* Backpressure: however slow the client, what is buffered is bounded by the
\* threshold, or the longest span the client waits for, and one chunk more.
Longest == CHOOSE m \in {Stop(p) - Start(p) : p \in Packets} :
             \A p \in Packets : Stop(p) - Start(p) <= m
Largest == CHOOSE m \in ChunkSizes : \A n \in ChunkSizes : n <= m
BoundedBuffer == available < Larger(Threshold, Longest) + Largest

\* A read that sleeps can be woken: the socket flows, and has not ended.
SleeperWakes == wake => ~paused /\ ~done /\ ~error

\* "views handed out by peekAll()/nextChunk()/readCompressedBlock() must keep
\* their bytes": no step writes over bytes that have been handed out.
ViewsKept ==
  [][generation' = generation =>
       \A i \in 1 .. returnedEnd : buffer'[i] = buffer[i]]_vars

\* The reader implements PacketStream.
Stream == INSTANCE PacketStream WITH
  Count <- Len(Script),
  broken <- done \/ error,
  got <- packet - 1,
  failed <- outcome = "failed"
ImplementsStream == Stream!Spec

\* With everything delivered, everything is read: pausing never leaves client
\* and server waiting for each other.
AllRead == Delivered => <>(packet > Len(Script))
=============================================================================
