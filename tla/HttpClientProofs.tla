-------------------------- MODULE HttpClientProofs --------------------------
(***************************************************************************)
(* Theorems about the HTTP client for every scenario, chunking and buffer  *)
(* size: the memo of init() works for any number of callers; the reader of *)
(* a body is released however the call ends; and a request body is what    *)
(* was given, whole and in order.                                          *)
(***************************************************************************)
EXTENDS HttpClient, BlockLemmas

-----------------------------------------------------------------------------
\* The memo of init().

\* Where init() can be.  A load that is under way has something to load, one that
\* succeeded has loaded everything; whoever waits, waits for a load that has not
\* failed; and while there is no promise nobody owns a load or waits for one.
InitTypes ==
  /\ initPromise \in {"none", "pending", "resolved", "rejected"}
  /\ initialized = (initPromise = "resolved")
  /\ todo \subseteq Libraries /\ loaded \subseteq Libraries
  /\ caller \in [Callers -> {"idle", "owner", "waiting", "rejected", "ready", "failed"}]
InitLoads ==
  /\ initPromise = "pending" => todo # {} /\ loaded \union todo = Libraries
  /\ initPromise = "resolved" => loaded = Libraries
InitCallers ==
  /\ initPromise = "none" => \A c \in Callers : caller[c] \notin {"owner", "waiting"}
  /\ initPromise \in {"pending", "rejected"} => \E c \in Callers : caller[c] = "owner"
  /\ initPromise = "rejected" => \A c \in Callers : caller[c] # "waiting"
  /\ \A c, d \in Callers : caller[c] = "owner" /\ caller[d] = "owner" => c = d
  /\ (\E c \in Callers : caller[c] = "ready") => initPromise = "resolved"
InitInv == InitTypes /\ InitLoads /\ InitCallers

LEMMA CallInitSafe ==
  ASSUME InitInv, NEW c \in Callers, CallInit(c)
  PROVE  InitInv'
<1> USE DEF InitInv
<1>1. CASE initialized
  BY <1>1 DEF CallInit, Becomes, InitTypes, InitLoads, InitCallers
<1>2. CASE ~initialized /\ initPromise # "none"
  <2>1. InitTypes'
    BY <1>2 DEF CallInit, Becomes, InitTypes
  <2>2. InitLoads'
    BY <1>2 DEF CallInit, Becomes, InitTypes, InitLoads
  <2>3. InitCallers'
    BY <1>2 DEF CallInit, Becomes, InitTypes, InitCallers
  <2> QED BY <2>1, <2>2, <2>3
<1>3. CASE ~initialized /\ initPromise = "none"
  <2>1. /\ initPromise' = "pending" /\ todo' = Libraries /\ loaded' = loaded
        /\ initialized' = initialized /\ caller' = [caller EXCEPT ![c] = "owner"]
    BY <1>3 DEF CallInit, Becomes
  <2>2. InitTypes'
    BY <1>3, <2>1 DEF InitTypes
  <2>3. Libraries # {} /\ Libraries' = Libraries
    BY DEF Libraries
  <2>4. InitLoads'
    BY <2>1, <2>3 DEF InitTypes, InitLoads
  <2>5. InitCallers'
    BY <1>3, <2>1 DEF InitTypes, InitCallers
  <2> QED BY <2>2, <2>4, <2>5
<1> QED BY <1>1, <1>2, <1>3

LEMMA InitStepSafe ==
  ASSUME InitInv, InitStep
  PROVE  InitInv'
<1> USE DEF InitInv
<1>1. ASSUME NEW library \in Libraries, Load(library)
      PROVE  InitInv'
  <2>1. InitTypes'
    BY <1>1 DEF Load, InitTypes
  <2>2. InitLoads'
    BY <1>1 DEF Load, InitTypes, InitLoads
  <2>3. InitCallers'
    BY <1>1 DEF Load, InitTypes, InitCallers
  <2> QED BY <2>1, <2>2, <2>3
<1>2. CASE LoadFails
  BY <1>2 DEF LoadFails, InitTypes, InitLoads, InitCallers
<1>3. ASSUME NEW c \in Callers, InitReturns(c)
      PROVE  InitInv'
  BY <1>3 DEF InitReturns, Becomes, InitTypes, InitLoads, InitCallers
<1>4. ASSUME NEW c \in Callers, OwnerFails(c)
      PROVE  InitInv'
  BY <1>4 DEF OwnerFails, Becomes, InitTypes, InitLoads, InitCallers
<1>5. ASSUME NEW c \in Callers, WaiterFails(c)
      PROVE  InitInv'
  BY <1>5 DEF WaiterFails, Becomes, InitTypes, InitLoads, InitCallers
<1> QED BY <1>1, <1>2, <1>3, <1>4, <1>5 DEF InitStep

\* Every step of the client is a step of init(), or leaves it alone.
LEMMA InitSteps ==
  ASSUME [Next]_vars
  PROVE  (\E c \in Callers : CallInit(c)) \/ InitStep \/ UNCHANGED initVars
<1>1. Caller \in Callers
  BY LoadsAssumption DEF Caller
<1>2. CASE Requesting
  BY <1>1, <1>2 DEF Requesting, Call, OtherCall, Loading, Initialized, Peek, PeekFails, Upload,
     PartEnds, PullFirst, SourceChunk, PullOn, SourceEnds, SourceFails
<1>3. CASE Answering
  BY <1>3 DEF Answering, Responds, FetchFails, TimerFires, ErrorRead, Reply, BodyReads, BodyEnds,
     BodyFails, BodyStep
<1>4. CASE GoingOn
  BY <1>4 DEF GoingOn, HeaderTaken, BodyOpens, BodyResumes, BodyStep, Take, Decoding, Parsing, Reading,
     LastRecord, Summarize, SummaryTaken, AllDecoded, Throws, PacketThrows, LineThrows
<1>5. CASE Abandon \/ UNCHANGED vars
  BY <1>5 DEF Abandon, vars
<1> QED BY <1>2, <1>3, <1>4, <1>5 DEF Next

\* However many callers share init() (compression.ts 81-103), whatever fails and
\* whoever retries: there is one load at a time, its owner is there to clear the
\* promise should it fail, and who has returned finds every library.
THEOREM MemoShared == Spec => []InitShared
<1>1. Init => InitInv
  BY DEF Init, InitInit, InitInv, InitTypes, InitLoads, InitCallers
<1>2. InitInv /\ [Next]_vars => InitInv'
  <2> SUFFICES ASSUME InitInv, [Next]_vars PROVE InitInv'
    OBVIOUS
  <2>1. CASE UNCHANGED initVars
    BY <2>1 DEF initVars, InitInv, InitTypes, InitLoads, InitCallers
  <2> QED BY <2>1, InitSteps, CallInitSafe, InitStepSafe
<1>3. InitInv => InitShared
  BY DEF InitInv, InitTypes, InitLoads, InitCallers, InitShared, InitMemo
<1> QED BY <1>1, <1>2, <1>3, PTL DEF Spec
-----------------------------------------------------------------------------
\* The reader of a body.

\* Before the body is consumed, and where createStream and its consumer are then:
\* at most one of them is busy, and a consumer that is has a chunk, or the end.
Before == {"idle", "init", "tables", "fetching", "errorBody", "reply", "header"}
Idle == parser = "waiting" /\ turn = "waiting" /\ reading = "waiting"
OthersIdle ==
  (~Framed => parser = "waiting") /\ (~Native => turn = "waiting") /\ (~Lining => reading = "waiting")

ReaderTypes ==
  /\ scenario \in Scenarios /\ response = scenario.response
  /\ phase \in Before \union {"body", "summary", "finished", "end"}
  /\ stream \in {"idle", "reading", "yielded"} \union Terminal
  /\ after \in {"reading", "blocks", "done", "exception"}
  /\ cancelled \in BOOLEAN
  /\ parser \in {"waiting", "scanning", "yield", "exception", "done", "truncated"}
ReaderPlace ==
  /\ stream \in Terminal => cancelled
  /\ phase \in Before => stream = "idle" /\ Idle
  /\ phase = "body" => OthersIdle /\ (~Idle => stream = "yielded" \/ (stream = "done" /\ parser \in {"done", "truncated"}))
  /\ phase \in {"summary", "finished"} => stream = "done"
  /\ phase = "end" => stream \in {"idle"} \union Terminal
ReaderInv == ReaderTypes /\ ReaderPlace

LEMMA ConsumerFacts ==
  ASSUME scenario \in Scenarios
  PROVE  /\ Raw \/ Framed \/ Native \/ Lining
         /\ Framed => ~Raw /\ ~Native /\ ~Lining
         /\ Native => ~Raw /\ ~Framed /\ ~Lining
         /\ Lining => ~Raw /\ ~Framed /\ ~Native
BY ScenariosAssumption DEF Raw, Framed, Native, Lining

\* The consumer that asks for a chunk is not busy, nor is any other.
LEMMA AsksIdle ==
  ASSUME ReaderInv, phase = "body", Asks
  PROVE  Idle
<1>1. Raw \/ Framed \/ Native \/ Lining
  BY ConsumerFacts DEF ReaderInv, ReaderTypes
<1>2. OthersIdle
  BY DEF ReaderInv, ReaderPlace
<1>3. CASE Framed
  BY <1>2, <1>3, ConsumerFacts DEF Asks, OthersIdle, Idle, ReaderInv, ReaderTypes
<1>4. CASE Native
  BY <1>2, <1>4, ConsumerFacts DEF Asks, OthersIdle, Idle, ReaderInv, ReaderTypes
<1>5. CASE Lining
  BY <1>2, <1>5, ConsumerFacts DEF Asks, OthersIdle, Idle, ReaderInv, ReaderTypes
<1>6. CASE Raw
  BY <1>2, <1>6, ConsumerFacts DEF OthersIdle, Idle, ReaderInv, ReaderTypes
<1> QED BY <1>1, <1>3, <1>4, <1>5, <1>6

\* A way on from an await or a yield keeps what createStream promises.
OnItsWay ==
  /\ stream' \in {"reading", "yielded"} \union Terminal
  /\ after' \in {"reading", "blocks", "done", "exception"} /\ cancelled' \in BOOLEAN
  /\ stream' \in Terminal => cancelled'

LEMMA GoOnWay ==
  ASSUME ReaderInv, NEW where \in {"reading"} \union Terminal, Go(where)
  PROVE  OnItsWay
BY DEF OnItsWay, Go, ReaderInv, ReaderTypes

LEMMA YieldOnWay ==
  ASSUME ReaderInv, NEW chunk, NEW where \in {"reading", "blocks", "done", "exception"},
         YieldChunk(chunk, where)
  PROVE  OnItsWay
BY DEF OnItsWay, YieldChunk, ReaderInv, ReaderTypes, Terminal

LEMMA EmitOnWay ==
  ASSUME ReaderInv, NEW chunk, NEW where \in {"reading", "done", "exception"}, Emit(chunk, where)
  PROVE  OnItsWay
<1>1. where \in {"reading"} \union Terminal
  BY DEF Terminal
<1> QED BY <1>1, GoOnWay, YieldOnWay DEF Emit

LEMMA NextBlockOnWay ==
  ASSUME ReaderInv, NEW buf, NextBlockOf(buf)
  PROVE  OnItsWay
<1>1. {"exception", "error", "reading"} \subseteq {"reading"} \union Terminal
  BY DEF Terminal
<1> DEFINE content == response.content[View(buf)[1][2]]
<1>2. \/ Go("reading") \/ Go("exception") \/ Go("error")
      \/ Emit(BeforeException(content), "exception") \/ YieldChunk(content, "blocks")
  BY DEF NextBlockOf
<1>3. CASE Go("reading") \/ Go("exception") \/ Go("error")
  BY <1>1, <1>3, GoOnWay
<1>4. CASE Emit(BeforeException(content), "exception")
  BY <1>4, EmitOnWay
<1>5. CASE YieldChunk(content, "blocks")
  BY <1>5, YieldOnWay
<1> QED BY <1>2, <1>3, <1>4, <1>5

LEMMA ScanOnWay ==
  ASSUME ReaderInv, NEW bytes, Scan(bytes)
  PROVE  OnItsWay
BY EmitOnWay DEF Scan

\* So does every step of createStream, from where it can be.
LEMMA BodyOnWay ==
  ASSUME ReaderInv,
         Open \/ (\E n \in ChunkSizes : ReadChunk(n)) \/ ReadEnd \/ ReadFails \/ Resume
  PROVE  OnItsWay /\ response' = response
<1>1. {"reading", "exception", "error", "done"} \subseteq {"reading"} \union Terminal
  BY DEF Terminal
<1>2. CASE Open
  BY <1>1, <1>2, GoOnWay DEF Open
<1>3. ASSUME NEW n \in ChunkSizes, ReadChunk(n)
      PROVE  OnItsWay /\ response' = response
  <2> DEFINE chunk == SubSeq(response.wire, arrived + 1, arrived + n)
             combined == pending \o chunk
             emitLen == IF Len(combined) > TailBytes THEN Len(combined) - TailBytes ELSE 0
  <2>1. \/ NextBlockOf(Appended(streamBuffer, chunk)) \/ Emit(chunk, "reading")
        \/ Scan(combined) \/ Emit(SubSeq(combined, 1, emitLen), "reading")
    BY <1>3 DEF ReadChunk, HoldBack
  <2>2. response' = response
    BY <1>3 DEF ReadChunk
  <2> HIDE DEF chunk, combined, emitLen
  <2> QED BY <2>1, <2>2, NextBlockOnWay, EmitOnWay, ScanOnWay
<1>4. CASE ReadEnd
  <2>1. \/ Go("done") \/ Go("exception") \/ Go("error")
        \/ Scan(pending) \/ Emit(pending, "done")
    BY <1>4 DEF ReadEnd, Leftover, LetGo
  <2> QED BY <1>1, <1>4, <2>1, GoOnWay, ScanOnWay, EmitOnWay DEF ReadEnd
<1>5. CASE ReadFails
  BY <1>1, <1>5, GoOnWay DEF ReadFails
<1>6. CASE Resume
  <2>1. NextBlockOf(streamBuffer) \/ (after # "blocks" /\ Go(after))
    BY <1>6 DEF Resume
  <2>2. after # "blocks" => after \in {"reading"} \union Terminal
    BY <1>1 DEF ReaderInv, ReaderTypes
  <2> QED BY <1>6, <2>1, <2>2, NextBlockOnWay, GoOnWay DEF Resume
<1> QED BY <1>2, <1>3, <1>4, <1>5, <1>6

\* createStream takes its steps while no consumer is busy.
LEMMA BodySteps ==
  ASSUME ReaderInv, BodyOpens \/ BodyReads \/ BodyEnds \/ BodyFails \/ BodyResumes
  PROVE  ReaderInv'
<1>1. /\ phase = "body" /\ UNCHANGED <<callVars, nativeVars, framedVars, lineVars>>
      /\ Open \/ (\E n \in ChunkSizes : ReadChunk(n)) \/ ReadEnd \/ ReadFails \/ Resume
  BY DEF BodyOpens, BodyReads, BodyEnds, BodyFails, BodyResumes, BodyStep
<1>2. OnItsWay /\ response' = response
  BY <1>1, BodyOnWay
<1>3. Idle
  <2>1. CASE BodyOpens \/ BodyResumes
    BY <1>1, <2>1, AsksIdle DEF BodyOpens, BodyResumes, BodyStep
  <2>2. CASE BodyReads \/ BodyEnds \/ BodyFails
    <3>1. stream = "reading"
      BY <2>2 DEF BodyReads, BodyEnds, BodyFails, BodyStep, ReadChunk, ReadEnd, ReadFails
    <3> QED BY <1>1, <3>1 DEF ReaderInv, ReaderPlace
  <2> QED BY <2>1, <2>2
<1>4. Idle' /\ scenario' = scenario /\ phase' = "body" /\ parser' = parser
  BY <1>1, <1>3 DEF Idle, callVars, nativeVars, framedVars, lineVars
<1>5. ReaderTypes'
  BY <1>2, <1>4 DEF ReaderInv, ReaderTypes, OnItsWay
<1>6. ReaderPlace'
  BY <1>2, <1>4 DEF ReaderPlace, OnItsWay, OthersIdle, Idle, Before
<1> QED BY <1>5, <1>6 DEF ReaderInv

\* Before the body, and when only the timer fires, nobody moves.
LEMMA QuietSteps ==
  ASSUME ReaderInv, UNCHANGED <<scenario, bodyVars, nativeVars, framedVars, lineVars>>,
         \/ phase' = phase
         \/ phase \in Before /\ phase' \in Before \union {"body", "end"}
  PROVE  ReaderInv'
<1>1. /\ UNCHANGED <<scenario, response, stream, after, cancelled, parser, turn, reading>>
      /\ (Idle' <=> Idle) /\ (OthersIdle' <=> OthersIdle)
  BY DEF bodyVars, nativeVars, framedVars, lineVars, Idle, OthersIdle, Framed, Native, Lining
<1>2. phase \in Before => OthersIdle
  BY DEF ReaderInv, ReaderPlace, Idle, OthersIdle
<1>3. ReaderTypes'
  BY <1>1 DEF ReaderInv, ReaderTypes
<1>4. ReaderPlace'
  BY <1>1, <1>2 DEF ReaderInv, ReaderPlace, Before
<1> QED BY <1>3, <1>4 DEF ReaderInv

\* A consumer works on a chunk that it has, or after the end.
LEMMA ConsumerSteps ==
  ASSUME ReaderInv, UNCHANGED <<scenario, phase, response, stream, after, cancelled>>,
         parser' \in {"waiting", "scanning", "yield", "exception"},
         phase = "body" => stream = "yielded", phase \in {"body", "finished"},
         ~Framed => parser' = parser, ~Native => turn' = turn, ~Lining => reading' = reading
  PROVE  ReaderInv'
<1>1. ReaderTypes'
  BY DEF ReaderInv, ReaderTypes
<1>2. OthersIdle => OthersIdle'
  BY DEF OthersIdle, Framed, Native, Lining
<1>3. ReaderPlace'
  BY <1>2 DEF ReaderInv, ReaderPlace, Before, Terminal
<1> QED BY <1>1, <1>3 DEF ReaderInv

\* A busy consumer in the body has a chunk.
LEMMA BusyHasChunk ==
  ASSUME ReaderInv, phase = "body",
         parser \in {"scanning", "yield", "exception"} \/ turn # "waiting" \/ reading # "waiting"
  PROVE  stream = "yielded"
<1>1. OthersIdle /\ ~Idle
  BY DEF ReaderInv, ReaderPlace, Idle
<1>2. (turn # "waiting" \/ reading # "waiting") => ~Framed
  BY <1>1, ConsumerFacts DEF OthersIdle, ReaderInv, ReaderTypes
<1> QED BY <1>1, <1>2 DEF ReaderInv, ReaderPlace, OthersIdle

LEMMA TakeSafe ==
  ASSUME ReaderInv, Take
  PROVE  ReaderInv'
<1>1. /\ phase = "body" /\ stream = "yielded"
      /\ UNCHANGED <<scenario, phase, response, stream, after, cancelled>>
      /\ ~Framed => parser' = parser
      /\ ~Native => turn' = turn
      /\ ~Lining => reading' = reading
      /\ Framed => parser' = "scanning"
  BY DEF Take, Taken, callVars, nativeVars, framedVars, lineVars, TakeText
<1>2. ~Framed => parser = "waiting"
  BY <1>1 DEF ReaderInv, ReaderPlace, OthersIdle
<1> QED BY <1>1, <1>2, ConsumerSteps

LEMMA DecodingSafe ==
  ASSUME ReaderInv, Decoding
  PROVE  ReaderInv'
<1>1. /\ phase \in {"body", "finished"} /\ Native /\ turn # "waiting"
      /\ UNCHANGED <<callVars, bodyVars, framedVars, lineVars>>
  BY DEF Decoding, TryBlock, TryFinal, NextBatch
<1>2. UNCHANGED <<scenario, phase, response, stream, after, cancelled, parser, reading>>
  BY <1>1 DEF callVars, bodyVars, framedVars, lineVars
<1>3. phase = "body" => stream = "yielded" /\ parser = "waiting"
  BY <1>1, BusyHasChunk, ConsumerFacts DEF ReaderInv, ReaderTypes, ReaderPlace, OthersIdle
<1>4. CASE phase = "body"
  BY <1>1, <1>2, <1>3, <1>4, ConsumerSteps
<1>5. CASE phase = "finished"
  BY <1>1, <1>2, <1>5 DEF ReaderInv, ReaderTypes, ReaderPlace, Before, Terminal
<1> QED BY <1>1, <1>4, <1>5

LEMMA ReadingSafe ==
  ASSUME ReaderInv, Reading
  PROVE  ReaderInv'
<1>1. /\ phase \in {"body", "finished"} /\ Lining /\ reading # "waiting"
      /\ UNCHANGED <<callVars, bodyVars, framedVars, nativeVars>>
  BY DEF Reading, YieldLine, NextLine
<1>2. UNCHANGED <<scenario, phase, response, stream, after, cancelled, parser, turn>>
  BY <1>1 DEF callVars, bodyVars, framedVars, nativeVars
<1>3. phase = "body" => stream = "yielded" /\ parser = "waiting"
  BY <1>1, BusyHasChunk, ConsumerFacts DEF ReaderInv, ReaderTypes, ReaderPlace, OthersIdle
<1>4. CASE phase = "body"
  BY <1>1, <1>2, <1>3, <1>4, ConsumerSteps
<1>5. CASE phase = "finished"
  BY <1>1, <1>2, <1>5 DEF ReaderInv, ReaderTypes, ReaderPlace, Before, Terminal
<1> QED BY <1>1, <1>4, <1>5

LEMMA ParsingSafe ==
  ASSUME ReaderInv, Parsing
  PROVE  ReaderInv'
<1>1. /\ phase = "body" /\ Framed /\ parser \in {"scanning", "yield"}
      /\ UNCHANGED <<callVars, bodyVars, lineVars, nativeVars>>
  BY DEF Parsing, CutRecord, NoRecord, NextPacket
<1>2. UNCHANGED <<scenario, phase, response, stream, after, cancelled, reading, turn>>
  BY <1>1 DEF callVars, bodyVars, lineVars, nativeVars
<1>3. parser' \in {"waiting", "scanning", "yield", "exception"}
  BY DEF Parsing, CutRecord, Deliver, NoRecord, NextPacket
<1>4. stream = "yielded"
  BY <1>1, BusyHasChunk
<1> QED BY <1>1, <1>2, <1>3, <1>4, ConsumerSteps

\* The end of the body, and of the call after it.
LEMMA LastSteps ==
  ASSUME ReaderInv, LastRecord \/ Summarize \/ SummaryTaken \/ AllDecoded \/ Throws
  PROVE  ReaderInv'
<1>1. CASE LastRecord
  <2>1. /\ phase = "body" /\ stream = "done" /\ Framed /\ parser' \in {"done", "truncated"}
        /\ UNCHANGED <<scenario, phase, response, stream, after, cancelled, turn, reading>>
    BY <1>1 DEF LastRecord, TextEnds, callVars, bodyVars, nativeVars, lineVars
  <2>2. OthersIdle'
    BY <2>1 DEF ReaderInv, ReaderPlace, OthersIdle, Framed, Native, Lining
  <2> QED BY <2>1, <2>2 DEF ReaderInv, ReaderTypes, ReaderPlace, Before
<1>2. CASE Summarize \/ SummaryTaken \/ AllDecoded \/ Throws
  <2>1. UNCHANGED <<scenario, bodyVars, framedVars>>
    BY <1>2 DEF Summarize, SummaryTaken, AllDecoded, Throws, End, To
  <2>2. UNCHANGED <<scenario, response, stream, after, cancelled, parser>>
    BY <2>1 DEF bodyVars, framedVars
  <2>3. stream \in Terminal /\ (phase' \in {"summary", "finished"} => stream = "done")
        /\ phase' \in {"summary", "finished", "end"}
    BY <1>2 DEF Summarize, SummaryTaken, AllDecoded, Throws, End, To, Terminal, ReaderInv, ReaderPlace
  <2> QED BY <2>2, <2>3 DEF ReaderInv, ReaderTypes, ReaderPlace, Before
<1> QED BY <1>1, <1>2

\* Giving up returns createStream wherever it stands after its start.
LEMMA LeaveSafe ==
  ASSUME ReaderInv, Leave, phase' = "end",
         UNCHANGED <<scenario, parser>>,
         phase = "body" => stream = "yielded", phase \in {"header", "body", "summary", "finished"}
  PROVE  ReaderInv'
<1>1. CASE stream = "yielded"
  <2>1. stream' = "returned" /\ cancelled' = TRUE /\ UNCHANGED <<response, after>>
    BY <1>1 DEF Leave, Return
  <2> QED BY <2>1 DEF ReaderInv, ReaderTypes, ReaderPlace, Before, Terminal
<1>2. CASE stream # "yielded"
  <2>1. UNCHANGED <<response, stream, after, cancelled>>
    BY <1>2 DEF Leave, bodyVars
  <2>2. stream \in {"idle"} \union Terminal
    BY <1>2 DEF ReaderInv, ReaderPlace, Before, Terminal
  <2> QED BY <2>1, <2>2 DEF ReaderInv, ReaderTypes, ReaderPlace, Before
<1> QED BY <1>1, <1>2

LEMMA GiveUpSteps ==
  ASSUME ReaderInv, PacketThrows \/ LineThrows \/ Abandon
  PROVE  ReaderInv'
<1>1. Leave /\ phase' = "end" /\ UNCHANGED <<scenario, framedVars>>
  BY DEF PacketThrows, LineThrows, Abandon, End
<1>2. phase \in {"header", "body", "summary", "finished"}
  BY DEF PacketThrows, LineThrows, Abandon, HasItem
<1>3. phase = "body" => stream = "yielded"
  <2>1. CASE PacketThrows
    BY <2>1, BusyHasChunk DEF PacketThrows
  <2>2. CASE LineThrows
    BY <2>2, BusyHasChunk DEF LineThrows
  <2>3. CASE Abandon
    <3>1. HasItem
      BY <2>3 DEF Abandon
    <3>2. SUFFICES ASSUME phase = "body" PROVE stream = "yielded"
      OBVIOUS
    <3>3. Raw \/ Framed \/ Native \/ Lining
      BY ConsumerFacts DEF ReaderInv, ReaderTypes
    <3>4. CASE Raw
      BY <3>1, <3>2, <3>4, ConsumerFacts DEF HasItem, ReaderInv, ReaderTypes
    <3>5. CASE Framed
      <4>1. parser = "yield"
        BY <3>1, <3>2, <3>5, ConsumerFacts DEF HasItem, ReaderInv, ReaderTypes
      <4> QED BY <3>2, <4>1, BusyHasChunk
    <3>6. CASE Native
      <4>1. turn \in {"yield", "lastYield"}
        BY <3>1, <3>2, <3>6, ConsumerFacts DEF HasItem, ReaderInv, ReaderTypes
      <4> QED BY <3>2, <4>1, BusyHasChunk
    <3>7. CASE Lining
      <4>1. reading \in {"yield", "lastYield"}
        BY <3>1, <3>2, <3>7, ConsumerFacts DEF HasItem, ReaderInv, ReaderTypes
      <4> QED BY <3>2, <4>1, BusyHasChunk
    <3> QED BY <3>3, <3>4, <3>5, <3>6, <3>7
  <2> QED BY <2>1, <2>2, <2>3
<1> QED BY <1>1, <1>2, <1>3, LeaveSafe DEF framedVars

LEMMA ReaderStep ==
  ASSUME ReaderInv, [Next]_vars
  PROVE  ReaderInv'
<1>1. CASE Requesting
  <2>1. UNCHANGED <<scenario, bodyVars, nativeVars, framedVars, lineVars>>
    BY <1>1 DEF Requesting, Call, OtherCall, Loading, Initialized, Peek, PeekFails, Upload, PartEnds,
       PullFirst, SourceChunk, PullOn, SourceEnds, SourceFails, End, To, Fetch, callVars
  <2>2. phase' = phase \/ (phase \in Before /\ phase' \in Before \union {"body", "end"})
    BY <1>1 DEF Requesting, Call, OtherCall, Loading, Initialized, Peek, PeekFails, Upload, PartEnds,
       PullFirst, SourceChunk, PullOn, SourceEnds, SourceFails, End, To, Fetch, callVars, Before,
       Inserting, Uploading
  <2> QED BY <2>1, <2>2, QuietSteps
<1>2. CASE Responds \/ FetchFails \/ TimerFires \/ ErrorRead \/ Reply \/ HeaderTaken
  <2>1. UNCHANGED <<scenario, bodyVars, nativeVars, framedVars, lineVars>>
    BY <1>2 DEF Responds, FetchFails, TimerFires, ErrorRead, Reply, HeaderTaken, End, To
  <2>2. phase' = phase \/ (phase \in Before /\ phase' \in Before \union {"body", "end"})
    BY <1>2 DEF Responds, FetchFails, TimerFires, ErrorRead, Reply, HeaderTaken, End, To, Before
  <2> QED BY <2>1, <2>2, QuietSteps
<1>3. CASE UNCHANGED vars
  <2>1. UNCHANGED <<scenario, phase, bodyVars, nativeVars, framedVars, lineVars>>
    BY <1>3 DEF vars, callVars
  <2> QED BY <2>1, QuietSteps
<1> QED BY <1>1, <1>2, <1>3, BodySteps, TakeSafe, DecodingSafe, ParsingSafe, ReadingSafe, LastSteps,
     GiveUpSteps DEF Next, Answering, GoingOn

LEMMA ReaderInit ==
  ASSUME Init
  PROVE  ReaderInv
<1>1. /\ scenario \in Scenarios /\ response = scenario.response /\ phase = "idle"
      /\ stream = "idle" /\ after = "reading" /\ cancelled = FALSE
      /\ parser = "waiting" /\ turn = "waiting" /\ reading = "waiting"
  BY DEF Init, BodyInit, NativeInit, FramedInit, LinesInit
<1> QED BY <1>1 DEF ReaderInv, ReaderTypes, ReaderPlace, Before, Idle, Terminal

THEOREM ReaderInvariant == Spec => []ReaderInv
<1>1. ReaderInv /\ [Next]_vars => ReaderInv'
  BY ReaderStep
<1> QED BY <1>1, ReaderInit, PTL DEF Spec

\* However a call ends whose body was read, by its last packet, an exception, an
\* error of any layer or the application leaving at any yield, the reader has been
\* cancelled (the finally block of createStream, client.ts 989-993).
THEOREM ReleasedAtEnd == Spec => []ReaderReleased
<1>1. ReaderInv => ReaderReleased
  BY DEF ReaderInv, ReaderPlace, ReaderReleased
<1> QED BY <1>1, ReaderInvariant, PTL
-----------------------------------------------------------------------------
\* An insert's body.

\* The bytes given are sent, in the buffer, or in the chunk being copied, in their
\* order.  The buffer is never left full, and there is a chunk only while a block
\* is out: what is not yielded at the threshold has been copied to the end.
BlocksInv ==
  /\ given \in Nat /\ rest \in Seq(Nat) /\ buffer \in Seq(Nat) /\ sent \in Seq(Nat) /\ sizes \in Seq(Nat)
  /\ feed \in {"idle", "source", "yielded", "last", "finished"}
  /\ Len(buffer) < BufferSize
  /\ feed # "yielded" => rest = <<>>
  /\ feed \in {"last", "finished"} => buffer = <<>>
  /\ BlocksWhole

\* Concatenation, in the form in which its instances are easily found.
LEMMA Associative == \A s, t, u \in Seq(Nat) : (s \o t) \o u = s \o (t \o u)
BY ConcatAssociative, SMTT(60)

\* The bytes of a number given, and of n more.
Count(n) == [i \in 1 .. n |-> i]

LEMMA CountOn ==
  ASSUME NEW g \in Nat, NEW n \in Nat
  PROVE  /\ [i \in 1 .. n |-> g + i] \in Seq(Nat) /\ Len([i \in 1 .. n |-> g + i]) = n
         /\ Count(g) \in Seq(Nat)
         /\ Count(g) \o [i \in 1 .. n |-> g + i] = Count(g + n)
<1> DEFINE more == [i \in 1 .. n |-> g + i]
<1>1. more \in Seq(Nat) /\ Len(more) = n
  <2>1. \A i \in 1 .. n : g + i \in Nat
    OBVIOUS
  <2>2. more \in Seq(Nat)
    BY <2>1, IsASeq
  <2> QED BY <2>2
<1>2. Count(g) \in Seq(Nat) /\ Len(Count(g)) = g
  <2>1. \A i \in 1 .. g : i \in Nat
    OBVIOUS
  <2>2. [i \in 1 .. g |-> i] \in Seq(Nat)
    BY <2>1, IsASeq
  <2> QED BY <2>2 DEF Count
<1>3. Count(g + n) \in Seq(Nat) /\ Len(Count(g + n)) = g + n
  <2>1. \A i \in 1 .. g + n : i \in Nat
    OBVIOUS
  <2>2. [i \in 1 .. g + n |-> i] \in Seq(Nat)
    BY <2>1, IsASeq
  <2> QED BY <2>2 DEF Count
<1> HIDE DEF more
<1>4. /\ Count(g) \o more \in Seq(Nat) /\ Len(Count(g) \o more) = g + n
      /\ \A i \in 1 .. g + n :
           (Count(g) \o more)[i] = IF i <= g THEN Count(g)[i] ELSE more[i - g]
  <2> DEFINE low == Count(g)
  <2>1. low \in Seq(Nat) /\ more \in Seq(Nat) /\ Len(low) = g /\ Len(more) = n
    BY <1>1, <1>2
  <2> HIDE DEF low
  <2>2. /\ low \o more \in Seq(Nat) /\ Len(low \o more) = g + n
        /\ \A i \in 1 .. g + n : (low \o more)[i] = IF i <= g THEN low[i] ELSE more[i - g]
    BY <2>1, ConcatProperties
  <2> QED BY <2>2 DEF low
<1>5. \A i \in 1 .. g + n : (Count(g) \o more)[i] = Count(g + n)[i]
  <2> TAKE i \in 1 .. g + n
  <2>1. Count(g + n)[i] = i
    BY DEF Count
  <2>2. CASE i <= g
    BY <1>4, <2>1, <2>2 DEF Count
  <2>3. CASE i > g
    <3>1. i - g \in 1 .. n
      BY <2>3
    <3>2. more[i - g] = i
      BY <3>1 DEF more
    <3>3. (Count(g) \o more)[i] = more[i - g]
      BY <1>4, <2>3
    <3> QED BY <2>1, <3>2, <3>3
  <2>4. i <= g \/ i > g
    OBVIOUS
  <2> QED BY <2>2, <2>3, <2>4
<1>6. Count(g) \o more = Count(g + n)
  BY <1>3, <1>4, <1>5, SeqEqual
<1> QED BY <1>1, <1>2, <1>6 DEF more

\* One turn of the copying loop, over a chunk that goes on where the buffer ends.
LEMMA CopySafe ==
  ASSUME BlocksInv, NEW chunk \in Seq(Nat), chunk # <<>>, given' \in Nat,
         sent \o buffer \o chunk = Count(given'), feed \in {"source", "yielded"},
         Copy(chunk, buffer)
  PROVE  BlocksInv'
<1> DEFINE room == BufferSize - Len(buffer)
           n    == IF room < Len(chunk) THEN room ELSE Len(chunk)
           head == SubSeq(chunk, 1, n)
           tail == SubSeq(chunk, n + 1, Len(chunk))
           filled == buffer \o head
<1>1. /\ BufferSize \in Nat \ {0} /\ Threshold \in Int /\ Threshold <= BufferSize
      /\ Len(buffer) \in Nat /\ Len(buffer) < BufferSize /\ Len(chunk) \in Nat \ {0}
      /\ buffer \in Seq(Nat) /\ sent \in Seq(Nat) /\ sizes \in Seq(Nat)
  BY InsertAssumption, EmptySeq, LenProperties DEF BlocksInv
<1>2. n \in 1 .. Len(chunk) /\ Len(buffer) + n <= BufferSize
      /\ (n < Len(chunk) => Len(buffer) + n = BufferSize)
  BY <1>1
<1>3. rest' = tail /\ Filled(filled, "source")
  BY DEF Copy
<1> HIDE DEF n
<1>4. /\ head \in Seq(Nat) /\ Len(head) = n
  <2>1. \A i \in 1 .. n : chunk[i] \in Nat
    BY <1>2, ElementOfSeq
  <2> QED BY <1>1, <1>2, <2>1, SubSeqProperties
<1>5. tail \in Seq(Nat)
  <2>1. \A i \in n + 1 .. Len(chunk) : chunk[i] \in Nat
    BY <1>1, <1>2, ElementOfSeq, SMTT(60)
  <2> QED BY <1>1, <1>2, <2>1, SubSeqProperties
<1>6. head \o tail = chunk
  <2>1. head \o tail = SubSeq(chunk, 1, Len(chunk))
    BY <1>1, <1>2, ConcatAdjacentSubSeq
  <2> QED BY <2>1, SubSeqFull
<1>7. filled \in Seq(Nat) /\ Len(filled) = Len(buffer) + n
  BY <1>1, <1>4, ConcatProperties
<1>8. n = Len(chunk) => tail = <<>>
  BY <1>1, SubSeqEmpty
<1>9. sent \o filled \o tail = Count(given')
  <2> HIDE DEF head, tail
  <2>1. sent \o filled = (sent \o buffer) \o head
    BY <1>1, <1>4, Associative, ZenonT(60)
  <2>2. sent \o buffer \in Seq(Nat)
    BY <1>1, ConcatProperties
  <2>3. ((sent \o buffer) \o head) \o tail = (sent \o buffer) \o (head \o tail)
    BY <1>4, <1>5, <2>2, Associative
  <2> QED BY <1>6, <2>1, <2>3
<1>10. \A b \in DOMAIN sizes : sizes[b] \in 1 .. BufferSize /\ sizes[b] >= Threshold
  <2> TAKE b \in DOMAIN sizes
  <2>1. sizes[b] \in 1 .. BufferSize /\ ~(sizes[b] < Threshold)
    BY Zenon DEF BlocksInv, BlocksWhole
  <2> QED BY <1>1, <2>1
<1> HIDE DEF head, tail, filled
<1>11. CASE Len(filled) >= Threshold
  <2>1. /\ sent' = sent \o filled /\ sizes' = Append(sizes, Len(filled)) /\ buffer' = <<>>
        /\ feed' = "yielded"
    BY <1>3, <1>11 DEF Filled
  <2>2. sent' \in Seq(Nat) /\ buffer' \in Seq(Nat) /\ Len(buffer') = 0
    BY <1>1, <1>7, <2>1, ConcatProperties, EmptySeq
  <2>3. sent' \o buffer' = sent \o filled
    BY <2>1, <2>2, ConcatEmptySeq
  <2>4. Len(filled) \in 1 .. BufferSize
    BY <1>1, <1>2, <1>7
  <2>5. /\ sizes' \in Seq(Nat) /\ Len(sizes') = Len(sizes) + 1
        /\ \A b \in 1 .. Len(sizes) : sizes'[b] = sizes[b]
        /\ sizes'[Len(sizes) + 1] = Len(filled)
    BY <1>1, <2>1, <2>4, AppendProperties
  <2>6. \A b \in DOMAIN sizes' : sizes'[b] \in 1 .. BufferSize /\ sizes'[b] >= Threshold
    <3>1. Len(sizes) \in Nat /\ DOMAIN sizes = 1 .. Len(sizes) /\ DOMAIN sizes' = 1 .. Len(sizes) + 1
      BY <1>1, <2>5, LenProperties
    <3>2. TAKE b \in DOMAIN sizes'
    <3>3. b \in DOMAIN sizes \/ b = Len(sizes) + 1
      BY <3>1
    <3> QED BY <1>10, <1>11, <2>4, <2>5, <3>1, <3>3
  <2>7. \A b \in DOMAIN sizes' : ~(sizes'[b] < Threshold)
    BY <1>1, <2>6
  <2>8. BlocksWhole'
    BY <1>3, <1>9, <2>1, <2>3, <2>6, <2>7 DEF BlocksWhole, Count
  <2> QED BY <1>1, <1>3, <1>5, <2>1, <2>2, <2>5, <2>8 DEF BlocksInv
<1>12. CASE Len(filled) < Threshold
  <2>1. /\ sent' = sent /\ sizes' = sizes /\ buffer' = filled /\ feed' = "source"
    BY <1>1, <1>3, <1>7, <1>12 DEF Filled
  <2>2. n = Len(chunk)
    <3>1. Len(buffer) + n < Threshold
      BY <1>7, <1>12
    <3> QED BY <1>1, <1>2, <3>1
  <2>3. rest' = <<>>
    BY <1>3, <1>8, <2>2
  <2>4. Len(buffer') < BufferSize
    BY <1>1, <1>7, <1>12, <2>1
  <2>5. \A b \in DOMAIN sizes' : sizes'[b] \in 1 .. BufferSize /\ ~(sizes'[b] < Threshold)
    BY <1>1, <1>10, <2>1
  <2>6. BlocksWhole'
    BY <1>3, <1>9, <2>1, <2>5 DEF BlocksWhole, Count
  <2> QED BY <1>1, <1>3, <1>5, <1>7, <2>1, <2>3, <2>4, <2>6 DEF BlocksInv
<1> QED BY <1>1, <1>7, <1>11, <1>12

LEMMA SourceChunkSafe ==
  ASSUME BlocksInv, NEW n \in ChunkSizes, SourceChunk(n)
  PROVE  BlocksInv'
<1> DEFINE chunk == [i \in 1 .. n |-> given + i]
<1>1. n \in Nat \ {0} /\ given \in Nat /\ given' = given + n /\ feed = "source" /\ Copy(chunk, buffer)
  BY InsertAssumption DEF SourceChunk, BlocksInv
<1>2. chunk \in Seq(Nat) /\ Len(chunk) = n /\ Count(given) \o chunk = Count(given + n)
  BY <1>1, CountOn
<1>3. chunk # <<>>
  BY <1>1, <1>2, EmptySeq
<1>4. sent \o buffer = Count(given)
  <2>1. sent \o buffer \in Seq(Nat)
    BY ConcatProperties DEF BlocksInv
  <2>2. sent \o buffer \o rest = Count(given) /\ rest = <<>>
    BY <1>1 DEF BlocksInv, BlocksWhole, Count
  <2> QED BY <2>1, <2>2, ConcatEmptySeq
<1>5. sent \o buffer \o chunk = Count(given')
  BY <1>1, <1>2, <1>4
<1>6. feed \in {"source", "yielded"} /\ given' \in Nat
  BY <1>1
<1> HIDE DEF chunk
<1> QED BY <1>1, <1>2, <1>3, <1>5, <1>6, CopySafe

LEMMA PullOnSafe ==
  ASSUME BlocksInv, PullOn
  PROVE  BlocksInv'
<1>1. given' = given /\ feed \in {"yielded", "last"}
  BY DEF PullOn
<1>2. CASE feed = "last"
  BY <1>1, <1>2 DEF PullOn, BlocksInv, BlocksWhole
<1>3. CASE feed = "yielded" /\ rest # <<>>
  <2>1. Copy(rest, buffer)
    BY <1>3 DEF PullOn
  <2>2. sent \o buffer \o rest = Count(given')
    BY <1>1 DEF BlocksInv, BlocksWhole, Count
  <2> QED BY <1>1, <1>3, <2>1, <2>2, CopySafe DEF BlocksInv
<1>4. CASE feed = "yielded" /\ rest = <<>>
  BY <1>1, <1>4 DEF PullOn, BlocksInv, BlocksWhole
<1> QED BY <1>1, <1>2, <1>3, <1>4

LEMMA SourceEndsSafe ==
  ASSUME BlocksInv, SourceEnds
  PROVE  BlocksInv'
<1>1. given' = given /\ rest' = rest /\ feed = "source" /\ rest = <<>>
  BY DEF SourceEnds, BlocksInv
<1>2. CASE buffer = <<>>
  BY <1>1, <1>2 DEF SourceEnds, BlocksInv, BlocksWhole
<1>3. CASE buffer # <<>>
  <2>1. /\ sent' = sent \o buffer /\ sizes' = Append(sizes, Len(buffer)) /\ buffer' = <<>> /\ feed' = "last"
    BY <1>3 DEF SourceEnds, Filled
  <2>2. /\ buffer \in Seq(Nat) /\ sent \in Seq(Nat) /\ sizes \in Seq(Nat) /\ Len(buffer) < BufferSize
        /\ BufferSize \in Nat \ {0} /\ Threshold \in Int
    BY InsertAssumption DEF BlocksInv
  <2>3. Len(buffer) \in 1 .. BufferSize
    BY <1>3, <2>2, EmptySeq
  <2>4. /\ sizes' \in Seq(Nat) /\ Len(sizes') = Len(sizes) + 1 /\ Len(sizes) \in Nat
        /\ \A b \in 1 .. Len(sizes) : sizes'[b] = sizes[b]
        /\ sizes'[Len(sizes) + 1] = Len(buffer)
        /\ DOMAIN sizes = 1 .. Len(sizes) /\ DOMAIN sizes' = 1 .. Len(sizes) + 1
    BY <2>1, <2>2, <2>3, AppendProperties, LenProperties
  <2>5. sent' \in Seq(Nat) /\ sent' \o <<>> = sent'
    BY <2>1, <2>2, ConcatProperties, ConcatEmptySeq
  <2>6. \A b \in DOMAIN sizes' :
          sizes'[b] \in 1 .. BufferSize /\ (sizes'[b] < Threshold => b = Len(sizes'))
    <3> TAKE b \in DOMAIN sizes'
    <3>1. CASE b = Len(sizes) + 1
      BY <2>3, <2>4, <3>1
    <3>2. CASE b # Len(sizes) + 1
      <4>1. b \in 1 .. Len(sizes) /\ b \in DOMAIN sizes
        BY <2>4, <3>2
      <4>2. sizes[b] \in 1 .. BufferSize /\ ~(sizes[b] < Threshold)
        BY <1>1, <4>1 DEF BlocksInv, BlocksWhole
      <4> QED BY <2>4, <4>1, <4>2
    <3> QED BY <3>1, <3>2
  <2>7. sent' \o buffer' \o rest' = Count(given')
    <3>1. sent' \o <<>> \o <<>> = sent'
      BY <2>5
    <3>2. sent \o buffer = Count(given)
      <4>1. sent \o buffer \o rest = Count(given) /\ sent \o buffer \in Seq(Nat)
        BY <2>1, <2>5 DEF BlocksInv, BlocksWhole, Count
      <4> QED BY <1>1, <4>1, ConcatEmptySeq
    <3> QED BY <1>1, <2>1, <3>1, <3>2
  <2>8. BlocksWhole'
    BY <1>1, <2>1, <2>6, <2>7 DEF BlocksWhole, Count
  <2>9. buffer' \in Seq(Nat) /\ Len(buffer') = 0
    BY <2>1, EmptySeq
  <2> QED BY <1>1, <2>1, <2>2, <2>4, <2>5, <2>8, <2>9 DEF BlocksInv
<1> QED BY <1>2, <1>3

\* Every step is one of compressedBlocks(), or leaves it alone.
LEMMA InsertSteps ==
  ASSUME [Next]_vars
  PROVE  PullFirst \/ (\E n \in ChunkSizes : SourceChunk(n)) \/ PullOn \/ SourceEnds
         \/ UNCHANGED insertVars
<1>1. CASE Requesting
  BY <1>1 DEF Requesting, Call, OtherCall, Loading, Initialized, Peek, PeekFails, Upload,
     PartEnds, SourceFails
<1>2. CASE Answering
  BY <1>2 DEF Answering, Responds, FetchFails, TimerFires, ErrorRead, Reply, BodyReads, BodyEnds,
     BodyFails, BodyStep
<1>3. CASE GoingOn
  BY <1>3 DEF GoingOn, HeaderTaken, BodyOpens, BodyResumes, BodyStep, Take, Decoding, Parsing, Reading,
     LastRecord, Summarize, SummaryTaken, AllDecoded, Throws, PacketThrows, LineThrows
<1>4. CASE Abandon \/ UNCHANGED vars
  BY <1>4 DEF Abandon, vars
<1> QED BY <1>1, <1>2, <1>3, <1>4 DEF Next

LEMMA BlocksStep ==
  ASSUME BlocksInv, [Next]_vars
  PROVE  BlocksInv'
<1>1. CASE PullFirst
  BY <1>1 DEF PullFirst, BlocksInv, BlocksWhole
<1>2. CASE UNCHANGED insertVars
  BY <1>2 DEF insertVars, BlocksInv, BlocksWhole
<1> QED BY <1>1, <1>2, InsertSteps, SourceChunkSafe, PullOnSafe, SourceEndsSafe

LEMMA BlocksInit ==
  ASSUME Init
  PROVE  BlocksInv
<1>1. /\ feed = "idle" /\ given = 0 /\ rest = <<>> /\ buffer = <<>> /\ sent = <<>> /\ sizes = <<>>
  BY DEF Init
<1>2. <<>> \in Seq(Nat) /\ Len(<<>>) = 0 /\ DOMAIN <<>> = {}
  BY EmptySeq
<1>3. <<>> \o <<>> = <<>>
  BY <1>2, ConcatEmptySeq
<1>4. [i \in 1 .. 0 |-> i] = <<>>
  OBVIOUS
<1> QED BY <1>1, <1>2, <1>3, <1>4, InsertAssumption DEF BlocksInv, BlocksWhole
-----------------------------------------------------------------------------
\* The external tables.

\* Of each table as many batches are sent as have been read, but for the one that
\* was read ahead; nothing is sent before the request, nor of a table before its turn.
TablesInv ==
  /\ scenario \in Scenarios
  /\ part \in Nat \ {0} /\ peeked \in [Tables -> Nat] /\ uploaded \in Seq(Tables \X Nat)
  /\ phase \in {"idle", "init", "tables"} => uploaded = <<>> /\ part = 1
  /\ \A i \in 1 .. Len(uploaded) : uploaded[i][1] <= part
  /\ \A t \in Tables : Sent(t) = peeked[t] \/ (Sent(t) = 0 /\ peeked[t] = 1)
  /\ \A t \in Tables : part > t => Sent(t) = peeked[t]
  /\ TablesWhole

LEMMA TablesFacts ==
  ASSUME scenario \in Scenarios
  PROVE  Tables \subseteq Nat \ {0} /\ Streamed \subseteq Tables
<1>1. scenario.tables \in Seq({"async", "batch", "empty"})
  BY ScenariosAssumption
<1>2. Tables = 1 .. Len(scenario.tables) /\ Len(scenario.tables) \in Nat
  BY <1>1, LenProperties DEF Tables
<1> QED BY <1>2 DEF Streamed

LEMMA SentType ==
  ASSUME TablesInv, NEW t \in Tables
  PROVE  Sent(t) \in Nat /\ IsFiniteSet(SentOf(t)) /\ SentOf(t) = {i \in 1 .. Len(uploaded) : uploaded[i][1] = t}
<1>1. DOMAIN uploaded = 1 .. Len(uploaded) /\ Len(uploaded) \in Nat
  BY LenProperties DEF TablesInv
<1>2. SentOf(t) = {i \in 1 .. Len(uploaded) : uploaded[i][1] = t}
  BY <1>1 DEF SentOf
<1>3. IsFiniteSet(1 .. Len(uploaded)) /\ SentOf(t) \subseteq 1 .. Len(uploaded)
  BY <1>1, <1>2, FS_Interval
<1>4. IsFiniteSet(SentOf(t)) /\ Cardinality(SentOf(t)) \in Nat
  BY <1>3, FS_Subset, FS_CardinalityType
<1> QED BY <1>2, <1>4 DEF Sent

\* A batch more of the table t, which is the last of those that have had any.
LEMMA UploadFacts ==
  ASSUME TablesInv, NEW t \in Tables, t = part, UNCHANGED scenario, part' = part,
         uploaded' = Append(uploaded, <<t, Sent(t) + 1>>)
  PROVE  /\ uploaded' \in Seq(Tables \X Nat)
         /\ \A i \in 1 .. Len(uploaded') : uploaded'[i][1] <= part'
         /\ Sent(t)' = Sent(t) + 1 /\ \A s \in Tables \ {t} : Sent(s)' = Sent(s)
         /\ \A i \in DOMAIN uploaded' :
              LET before == {j \in 1 .. i - 1 : uploaded'[j][1] = uploaded'[i][1]}
              IN uploaded'[i][2] = Cardinality(before) + 1
         /\ \A i, j \in DOMAIN uploaded' : i < j => uploaded'[i][1] <= uploaded'[j][1]
<1> DEFINE new == Len(uploaded) + 1
           batch == <<t, Sent(t) + 1>>
<1>1. /\ uploaded \in Seq(Tables \X Nat) /\ Len(uploaded) \in Nat /\ DOMAIN uploaded = 1 .. Len(uploaded)
      /\ Tables \subseteq Nat \ {0} /\ Sent(t) \in Nat /\ part \in Nat
  BY TablesFacts, SentType, LenProperties DEF TablesInv
<1>2. batch \in Tables \X Nat
  BY <1>1
<1>3. /\ uploaded' \in Seq(Tables \X Nat) /\ Len(uploaded') = new
      /\ \A i \in 1 .. Len(uploaded) : uploaded'[i] = uploaded[i]
      /\ uploaded'[new] = batch
  BY <1>1, <1>2, AppendProperties
<1>4. DOMAIN uploaded' = 1 .. new
  BY <1>3, LenProperties
<1>5. uploaded'[new][1] = t /\ uploaded'[new][2] = Sent(t) + 1
  BY <1>3
<1>6. \A i \in 1 .. new : i \in 1 .. Len(uploaded) \/ i = new
  BY <1>1
<1>7. \A i \in 1 .. Len(uploaded) : uploaded[i][1] \in Nat /\ uploaded[i][1] <= t
  <2> TAKE i \in 1 .. Len(uploaded)
  <2>1. uploaded[i] \in Tables \X Nat
    BY <1>1, ElementOfSeq
  <2> QED BY <1>1, <2>1 DEF TablesInv
<1> HIDE DEF batch
<1>8. \A i \in 1 .. Len(uploaded') : uploaded'[i][1] <= part'
  BY <1>1, <1>3, <1>5, <1>6, <1>7
<1>9. /\ SentOf(t)' = SentOf(t) \union {new}
      /\ \A s \in Tables \ {t} : SentOf(s)' = SentOf(s)
  <2>1. \A s : SentOf(s)' = {i \in 1 .. new : uploaded'[i][1] = s}
    BY <1>4 DEF SentOf
  <2>2. \A s : SentOf(s) = {i \in 1 .. Len(uploaded) : uploaded[i][1] = s}
    BY <1>1 DEF SentOf
  <2>3. \A i \in 1 .. Len(uploaded) : i \in 1 .. new
    BY <1>1
  <2>4. new \in 1 .. new /\ new \notin 1 .. Len(uploaded)
    BY <1>1
  <2> HIDE DEF new
  <2>5. SentOf(t)' = SentOf(t) \union {new}
    BY <1>3, <1>5, <1>6, <2>1, <2>2, <2>3, <2>4
  <2>6. ASSUME NEW s \in Tables \ {t} PROVE SentOf(s)' = SentOf(s)
    <3>1. \A i \in 1 .. Len(uploaded) : uploaded'[i][1] = uploaded[i][1]
      BY <1>3
    <3>2. uploaded'[new][1] # s
      BY <1>5
    <3>3. SentOf(s)' = {i \in 1 .. new : uploaded'[i][1] = s}
      BY <2>1
    <3>4. SentOf(s) = {i \in 1 .. Len(uploaded) : uploaded[i][1] = s}
      BY <2>2
    <3> QED BY <1>6, <2>3, <3>1, <3>2, <3>3, <3>4
  <2> QED BY <2>5, <2>6
<1>10. Sent(t)' = Sent(t) + 1
  <2>1. new \notin SentOf(t)
    BY <1>1 DEF SentOf
  <2>2. IsFiniteSet(SentOf(t))
    BY SentType
  <2>3. Cardinality(SentOf(t) \union {new}) = Cardinality(SentOf(t)) + 1
    BY <2>1, <2>2, FS_AddElement
  <2> QED BY <1>9, <2>3 DEF Sent
<1>11. \A s \in Tables \ {t} : Sent(s)' = Sent(s)
  BY <1>9 DEF Sent
<1>12. ASSUME NEW i \in DOMAIN uploaded'
       PROVE  uploaded'[i][2] = Cardinality({j \in 1 .. i - 1 : uploaded'[j][1] = uploaded'[i][1]}) + 1
  <2>1. CASE i \in 1 .. Len(uploaded)
    <3>1. {j \in 1 .. i - 1 : uploaded'[j][1] = uploaded'[i][1]}
            = {j \in 1 .. i - 1 : uploaded[j][1] = uploaded[i][1]}
      <4>1. \A j \in 1 .. i - 1 : j \in 1 .. Len(uploaded)
        BY <1>1, <2>1
      <4> QED BY <1>3, <2>1, <4>1
    <3>2. uploaded[i][2] = Cardinality({j \in 1 .. i - 1 : uploaded[j][1] = uploaded[i][1]}) + 1
      BY <1>1, <2>1 DEF TablesInv, TablesWhole
    <3> QED BY <1>3, <2>1, <3>1, <3>2
  <2>2. CASE i = new
    <3>1. 1 .. new - 1 = 1 .. Len(uploaded)
      BY <1>1
    <3>2. {j \in 1 .. i - 1 : uploaded'[j][1] = uploaded'[i][1]} = SentOf(t)
      BY <1>1, <1>3, <1>5, <2>2, <3>1 DEF SentOf
    <3> QED BY <1>5, <2>2, <3>2 DEF Sent
  <2> QED BY <1>4, <1>6, <2>1, <2>2
<1>13. ASSUME NEW i \in DOMAIN uploaded', NEW j \in DOMAIN uploaded', i < j
       PROVE  uploaded'[i][1] <= uploaded'[j][1]
  <2>1. i \in 1 .. Len(uploaded)
    BY <1>1, <1>4, <1>13
  <2>2. CASE j \in 1 .. Len(uploaded)
    <3>1. uploaded[i][1] <= uploaded[j][1]
      BY <1>1, <1>13, <2>1, <2>2 DEF TablesInv, TablesWhole
    <3> QED BY <1>3, <2>1, <2>2, <3>1
  <2>3. CASE j = new
    BY <1>3, <1>5, <1>7, <2>1, <2>3
  <2> QED BY <1>4, <1>6, <2>2, <2>3
<1> QED BY <1>3, <1>8, <1>10, <1>11, <1>12, <1>13

LEMMA UploadSafe ==
  ASSUME TablesInv, NEW t \in Tables, Upload(t)
  PROVE  TablesInv'
<1>1. /\ phase = "fetching" /\ t = part /\ UNCHANGED <<part, callVars>>
      /\ phase' = phase /\ scenario' = scenario
  BY DEF Upload, Uploading, callVars
<1>2. Tables' = Tables /\ Streamed' = Streamed /\ t \in Nat \ {0} /\ Streamed \subseteq Tables
  BY <1>1, TablesFacts DEF Tables, Streamed, TablesInv
<1>3. /\ Sent(t) \in Nat /\ peeked[t] \in Nat /\ peeked \in [Tables -> Nat]
      /\ Sent(t) = peeked[t] \/ (Sent(t) = 0 /\ peeked[t] = 1)
  BY SentType DEF TablesInv
<1>4. /\ uploaded' = Append(uploaded, <<t, Sent(t) + 1>>)
      /\ peeked' = [peeked EXCEPT ![t] = Sent(t) + 1]
  <2>1. CASE Sent(t) < peeked[t]
    <3>1. Sent(t) = 0 /\ peeked[t] = 1
      BY <1>3, <2>1
    <3> QED BY <1>3, <2>1, <3>1 DEF Upload
  <2>2. CASE ~(Sent(t) < peeked[t])
    <3>1. Sent(t) = peeked[t]
      BY <1>3, <2>2
    <3> QED BY <2>2, <3>1 DEF Upload
  <2> QED BY <2>1, <2>2
<1>5. /\ uploaded' \in Seq(Tables \X Nat)
      /\ \A i \in 1 .. Len(uploaded') : uploaded'[i][1] <= part'
      /\ Sent(t)' = Sent(t) + 1 /\ \A s \in Tables \ {t} : Sent(s)' = Sent(s)
      /\ \A i \in DOMAIN uploaded' :
           LET before == {j \in 1 .. i - 1 : uploaded'[j][1] = uploaded'[i][1]}
           IN uploaded'[i][2] = Cardinality(before) + 1
      /\ \A i, j \in DOMAIN uploaded' : i < j => uploaded'[i][1] <= uploaded'[j][1]
  BY <1>1, <1>4, UploadFacts
<1>6. \A s \in Tables : peeked'[s] = IF s = t THEN Sent(t) + 1 ELSE peeked[s]
  BY <1>3, <1>4
<1>7. peeked' \in [Tables -> Nat]
  BY <1>3, <1>4
<1>8. \A s \in Tables : Sent(s)' = peeked'[s] \/ (Sent(s)' = 0 /\ peeked'[s] = 1)
  BY <1>5, <1>6 DEF TablesInv
<1>9. \A s \in Tables : part' > s => Sent(s)' = peeked'[s]
  BY <1>1, <1>5, <1>6 DEF TablesInv
<1>10. TablesWhole'
  BY <1>2, <1>5, <1>9 DEF TablesWhole
<1> QED BY <1>1, <1>2, <1>5, <1>7, <1>8, <1>9, <1>10 DEF TablesInv

LEMMA PeekSafe ==
  ASSUME TablesInv, NEW t \in Tables, Peek(t)
  PROVE  TablesInv'
<1>1. /\ phase = "tables" /\ peeked[t] = 0 /\ peeked' = [peeked EXCEPT ![t] = 1]
      /\ UNCHANGED <<part, uploaded, scenario>> /\ uploaded = <<>> /\ part = 1
      /\ phase' \in {"tables", "fetching"}
  BY DEF Peek, Fetch, callVars, TablesInv
<1>2. /\ Tables' = Tables /\ Streamed' = Streamed /\ Tables \subseteq Nat \ {0} /\ Streamed \subseteq Tables
      /\ \A s \in Tables : Sent(s)' = Sent(s) /\ ~(1 > s)
  BY <1>1, TablesFacts DEF Tables, Streamed, Sent, SentOf, TablesInv
<1>3. \A s \in Tables : Sent(s) = 0
  <2>1. DOMAIN uploaded = {}
    BY <1>1
  <2>2. \A s \in Tables : SentOf(s) = {}
    BY <2>1 DEF SentOf
  <2> QED BY <2>2, FS_EmptySet DEF Sent
<1>4. peeked' \in [Tables -> Nat] /\ \A s \in Tables : peeked'[s] \in {peeked[s], 1}
  BY <1>1 DEF TablesInv
<1>5. \A s \in Tables : Sent(s)' = peeked'[s] \/ (Sent(s)' = 0 /\ peeked'[s] = 1)
  <2> TAKE s \in Tables
  <2>1. Sent(s) = peeked[s] \/ (Sent(s) = 0 /\ peeked[s] = 1)
    BY DEF TablesInv
  <2> QED BY <1>2, <1>3, <1>4, <2>1
<1>6. TablesWhole'
  BY <1>1, <1>2 DEF TablesInv, TablesWhole
<1> QED BY <1>1, <1>2, <1>4, <1>5, <1>6 DEF TablesInv

LEMMA PartEndsSafe ==
  ASSUME TablesInv, NEW t \in Tables, PartEnds(t)
  PROVE  TablesInv'
<1>1. /\ phase = "fetching" /\ t = part /\ Sent(t) > 0 /\ part' = part + 1
      /\ UNCHANGED <<peeked, uploaded, scenario, phase>>
  BY DEF PartEnds, Uploading, callVars
<1>2. /\ Tables' = Tables /\ Streamed' = Streamed /\ Tables \subseteq Nat \ {0} /\ Streamed \subseteq Tables
      /\ \A s \in Tables : Sent(s)' = Sent(s)
  BY <1>1, TablesFacts DEF Tables, Streamed, Sent, SentOf, TablesInv
<1>3. Sent(t) = peeked[t]
  <2>1. Sent(t) # 0
    BY <1>1, SentType
  <2> QED BY <2>1 DEF TablesInv
<1>4. \A s \in Tables : part' > s => Sent(s)' = peeked'[s]
  <2> TAKE s \in Tables
  <2>1. part \in Nat /\ s \in Nat
    BY <1>2 DEF TablesInv
  <2>2. CASE s = t
    BY <1>1, <1>2, <1>3, <2>2
  <2>3. CASE s # t
    <3>1. part' > s => part > s
      BY <1>1, <2>1, <2>3
    <3>2. part > s => Sent(s) = peeked[s]
      BY DEF TablesInv
    <3> QED BY <1>1, <1>2, <3>1, <3>2
  <2> QED BY <2>2, <2>3
<1>5. \A i \in 1 .. Len(uploaded') : uploaded'[i][1] <= part'
  <2> TAKE i \in 1 .. Len(uploaded')
  <2>1. uploaded' = uploaded /\ i \in 1 .. Len(uploaded)
    BY <1>1
  <2>2. uploaded[i] \in Tables \X Nat
    BY <2>1, ElementOfSeq DEF TablesInv
  <2>3. uploaded[i][1] \in Nat /\ uploaded[i][1] <= part /\ part \in Nat
    BY <1>2, <2>1, <2>2 DEF TablesInv
  <2> QED BY <1>1, <2>1, <2>3
<1>6. part' \in Nat \ {0}
  BY <1>1 DEF TablesInv
<1>7. TablesWhole'
  BY <1>1, <1>2, <1>4, ZenonT(60) DEF TablesInv, TablesWhole
<1> QED BY <1>1, <1>2, <1>4, <1>5, <1>6, <1>7 DEF TablesInv

\* Every step reads or sends a batch or goes on to the next table, or leaves the
\* tables alone; none goes back before the request.
LEMMA TableSteps ==
  ASSUME [Next]_vars
  PROVE  \/ \E t \in Tables : Peek(t) \/ Upload(t) \/ PartEnds(t)
         \/ /\ UNCHANGED <<tableVars, scenario>>
            /\ phase' \in {"idle", "init", "tables"} => phase \in {"idle", "init", "tables"}
<1>1. CASE Requesting
  <2>1. CASE Call \/ OtherCall \/ Loading \/ Initialized
    BY <2>1 DEF Call, OtherCall, Loading, Initialized, End, To, Fetch, callVars
  <2>2. CASE PullFirst \/ (\E n \in ChunkSizes : SourceChunk(n)) \/ PullOn \/ SourceEnds \/ SourceFails
    BY <2>2 DEF PullFirst, SourceChunk, PullOn, SourceEnds, SourceFails, End, callVars
  <2>3. ASSUME NEW t \in Tables, PeekFails(t)
        PROVE  UNCHANGED <<tableVars, scenario>> /\ phase' = "end"
    BY <2>3 DEF PeekFails, End
  <2> QED BY <1>1, <2>1, <2>2, <2>3 DEF Requesting
<1>2. CASE Answering
  BY <1>2 DEF Answering, Responds, FetchFails, TimerFires, ErrorRead, Reply, BodyReads, BodyEnds,
     BodyFails, BodyStep, End, To, callVars
<1>3. CASE GoingOn
  BY <1>3 DEF GoingOn, HeaderTaken, BodyOpens, BodyResumes, BodyStep, Take, Decoding, Parsing, Reading,
     LastRecord, Summarize, SummaryTaken, AllDecoded, Throws, PacketThrows, LineThrows, End, To, callVars
<1>4. CASE Abandon \/ UNCHANGED vars
  BY <1>4 DEF Abandon, vars, callVars, End
<1> QED BY <1>1, <1>2, <1>3, <1>4 DEF Next

LEMMA TablesStep ==
  ASSUME TablesInv, [Next]_vars
  PROVE  TablesInv'
<1>1. ASSUME UNCHANGED <<tableVars, scenario>>,
             phase' \in {"idle", "init", "tables"} => phase \in {"idle", "init", "tables"}
      PROVE  TablesInv'
  <2>1. UNCHANGED <<peeked, part, uploaded, scenario>>
    BY <1>1 DEF tableVars
  <2>2. Tables' = Tables /\ Streamed' = Streamed /\ \A t : Sent(t)' = Sent(t)
    BY <2>1 DEF Tables, Streamed, Sent, SentOf
  <2>3. TablesWhole'
    BY <2>1, <2>2 DEF TablesInv, TablesWhole
  <2> QED BY <1>1, <2>1, <2>2, <2>3 DEF TablesInv
<1> QED BY <1>1, TableSteps, PeekSafe, UploadSafe, PartEndsSafe

LEMMA TablesInit ==
  ASSUME Init
  PROVE  TablesInv
<1>1. /\ scenario \in Scenarios /\ phase = "idle" /\ part = 1 /\ uploaded = <<>>
      /\ peeked = [t \in Tables |-> 0]
  BY DEF Init, Tables
<1>2. <<>> \in Seq(Tables \X Nat) /\ Len(<<>>) = 0 /\ DOMAIN <<>> = {}
  BY EmptySeq
<1>3. \A t \in Tables : Sent(t) = 0
  <2>1. \A t \in Tables : SentOf(t) = {}
    BY <1>1, <1>2 DEF SentOf
  <2> QED BY <2>1, FS_EmptySet DEF Sent
<1>4. Tables \subseteq Nat \ {0} /\ Streamed \subseteq Tables
  BY <1>1, TablesFacts
<1>5. TablesWhole
  BY <1>1, <1>2, <1>3, <1>4 DEF TablesWhole
<1> QED BY <1>1, <1>2, <1>3, <1>4, <1>5 DEF TablesInv

\* What is sent is what was given, for every input, cut into any chunks, with any
\* buffer size and threshold, and any external tables: an insert's blocks hold its
\* bytes in order, none missing, none twice (compressedBlocks, client.ts 483-523),
\* and the batch of a table that was read ahead for its structure comes first, and
\* once (normalizeExternalTable, client.ts 89-102, and prepend of iter.ts).
THEOREM SentAsGiven == Spec => []RequestWhole
<1>1. BlocksInv /\ TablesInv /\ [Next]_vars => (BlocksInv /\ TablesInv)'
  BY BlocksStep, TablesStep
<1>2. BlocksInv /\ TablesInv => RequestWhole
  BY DEF BlocksInv, TablesInv, RequestWhole
<1> QED BY <1>1, <1>2, BlocksInit, TablesInit, PTL DEF Spec
=============================================================================
