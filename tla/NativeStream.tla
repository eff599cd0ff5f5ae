---------------------------- MODULE NativeStream ----------------------------
(***************************************************************************)
(* streamDecodeNative of src/native/index.ts: a generator that decodes the *)
(* Native blocks of a stream of chunks.  A block that is not there yet is  *)
(* tried again when enough more has come, from the last column that was    *)
(* complete.                                                               *)
(***************************************************************************)
EXTENDS NativeBlock, BlockBuffer

CONSTANTS
  MinBuffer,  \* minBufferSize
  RetryMin,   \* underflowRetryMinBytes, 0 for none
  RetryMax    \* underflowRetryMaxBytes

ASSUME RetryAssumption ==
  MinBuffer \in Nat \ {0} /\ RetryMin \in Nat /\ RetryMax \in Nat

VARIABLES
  layout,       \* the blocks of the stream: their cuts, see NativeBlock
  turn,         \* where the generator is
  blockBuffer, partial,
  retryAfter, retryWait,  \* retryAfterAvailable, retryWaitBytes
  chunkLength,  \* of the last chunk
  block,        \* blocks decoded
  batches       \* the columns of each batch yielded

nativeVars == <<layout, turn, blockBuffer, partial, retryAfter, retryWait,
                chunkLength, block, batches>>

NativeInit ==
  /\ turn = "waiting" /\ blockBuffer = Fresh(MinBuffer) /\ partial = NoPartial
  /\ retryAfter = 0 /\ retryWait = 0 /\ chunkLength = 0
  /\ block = 0 /\ batches = <<>>

LOCAL Least(m, n) == IF m <= n THEN m ELSE n

\* initialRetryWait()
InitialWait == Least(IF RetryMin > 0 THEN RetryMin ELSE chunkLength, RetryMax)

Cuts == layout[block + 1]
Tried == Attempt(View(blockBuffer), Cuts, partial)

\* A block of no columns and no rows marks the end; it is not a batch.
IsEndMarker(cuts) == Len(cuts) = 1

\* A chunk arrives.
TakeChunk(chunk) ==
  /\ turn = "waiting" /\ turn' = "decoding"
  /\ blockBuffer' = Appended(blockBuffer, chunk) /\ chunkLength' = Len(chunk)
  /\ UNCHANGED <<layout, partial, retryAfter, retryWait, block, batches>>

\* The block is whole: it leaves the buffer, and is yielded unless it marks the end.
Decoded(loop) ==
  /\ block < Len(layout) /\ IsWhole(Cuts, Tried)
  /\ blockBuffer' = NextBlock(blockBuffer, Tried.resumeOffset)
  /\ partial' = NoPartial /\ block' = block + 1
  /\ IF IsEndMarker(Cuts) THEN turn' = loop /\ UNCHANGED batches
     ELSE /\ turn' = IF loop = "final" THEN "lastYield" ELSE "yield"
          /\ batches' = Append(batches, Tried.columns)

\* It is not: keep the columns that are, and wait, longer each time that a column
\* is tried in vain.
Underflow ==
  /\ block < Len(layout) /\ ~IsWhole(Cuts, Tried)
  /\ turn' = "waiting" /\ partial' = Tried
  /\ LET progress == Tried.header /\ (~partial.header \/ Len(Tried.columns) # Len(partial.columns))
         wait == IF progress \/ retryWait = 0 THEN InitialWait ELSE retryWait
     IN IF wait = 0 THEN retryAfter' = 0 /\ retryWait' = 0
        ELSE /\ retryAfter' = Available(blockBuffer) + wait
             /\ retryWait' = Least(wait * 2, RetryMax)
  /\ UNCHANGED <<blockBuffer, block, batches>>

\* The inner loop: decode while there is enough to try.
TryBlock ==
  /\ turn = "decoding"
  /\ IF Available(blockBuffer) < 2 \/ Available(blockBuffer) < retryAfter
     THEN turn' = "waiting" /\ UNCHANGED <<blockBuffer, partial, retryAfter, retryWait, block, batches>>
     ELSE \/ Decoded("decoding") /\ retryAfter' = 0 /\ retryWait' = 0
          \/ Underflow
  /\ UNCHANGED <<layout, chunkLength>>

\* The chunks have ended.
LastChunk ==
  /\ turn = "waiting" /\ turn' = "final"
  /\ UNCHANGED <<layout, blockBuffer, partial, retryAfter, retryWait, chunkLength, block, batches>>

\* What is left is decoded whatever the backoff says, and has to be whole.
TryFinal ==
  /\ turn = "final"
  /\ IF Available(blockBuffer) = 0
     THEN turn' = "done" /\ UNCHANGED <<blockBuffer, partial, block, batches>>
     ELSE \/ Decoded("final")
          \/ /\ block < Len(layout) /\ ~IsWhole(Cuts, Tried)
             /\ turn' = "truncated" /\ UNCHANGED <<blockBuffer, partial, block, batches>>
  /\ UNCHANGED <<layout, retryAfter, retryWait, chunkLength>>

\* The consumer asks for the next batch.
NextBatch ==
  /\ turn \in {"yield", "lastYield"}
  /\ turn' = IF turn = "yield" THEN "decoding" ELSE "final"
  /\ UNCHANGED <<layout, blockBuffer, partial, retryAfter, retryWait, chunkLength, block, batches>>
=============================================================================
