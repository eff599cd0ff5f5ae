--------------------------- MODULE HttpBodyProofs ---------------------------
(***************************************************************************)
(* Theorems about the body of an HTTP response (src/client.ts): an         *)
(* exception that the server appends to it is found wherever the chunks,   *)
(* or the compressed blocks, are cut, and nothing else is reported as one; *)
(* and what createStream, streamDecodeNative and parseFramedStream make of *)
(* it is the output that the server meant, in order and once.              *)
(*                                                                         *)
(* The argument goes from the wire to the application.  Of a plain body,   *)
(* what has been yielded is what has come, but for a tail (PlainInv); of a *)
(* compressed one it ends where a block begins (BlocksFound); of a framed  *)
(* one it is what has come (FramesPass).  So what is yielded is a prefix   *)
(* of the output (OutputPassed); the decoder's buffer is what has been     *)
(* received from a block on (BlocksDecoded), and the text what has been    *)
(* received from a record on (RecordsCut).  A call that succeeds has come  *)
(* to the end of all of them (EndInv), where nothing is left (AllHeld).    *)
(* An exception stands where the output ends (Raised).                     *)
(***************************************************************************)
EXTENDS HttpClientProofs

-----------------------------------------------------------------------------
\* Windows of a sequence of bytes, or of the cells of a BlockBuffer, of which those
\* behind the bytes are blank.
Cell == Byte \union {<<"-", 0>>}

LEMMA BytesAreCells == \A s \in Seq(Byte) : s \in Seq(Cell)
<1> TAKE s \in Seq(Byte)
<1>1. Len(s) \in Nat /\ \A i \in 1 .. Len(s) : s[i] \in Cell
  BY LenProperties, ElementOfSeq DEF Cell
<1>2. [i \in 1 .. Len(s) |-> s[i]] \in Seq(Cell)
  BY <1>1, IsASeq
<1>3. s = [i \in 1 .. Len(s) |-> s[i]]
  BY LenProperties
<1> QED BY <1>2, <1>3

-----------------------------------------------------------------------------
\* Trailers in windows.

LEMMA KindsIn ==
  ASSUME NEW w \in Seq(Cell), NEW p \in Nat, NEW q \in Nat, p <= q, q <= Len(w),
         NEW i \in Nat \ {0}, NEW kinds \in Seq({"m", "n", "t", "c"}), kinds # <<>>
  PROVE  Kinds(SubSeq(w, p + 1, q), i, kinds)
           <=> Kinds(w, p + i, kinds) /\ p + i + Len(kinds) - 1 <= q
<1> DEFINE s == SubSeq(w, p + 1, q)
           n == Len(kinds)
<1>1. /\ Len(s) = q - p /\ \A j \in 1 .. q - p : s[j] = w[p + j]
      /\ Len(w) \in Nat
  BY Window, LenProperties
<1>2. n \in Nat \ {0} /\ DOMAIN kinds = 1 .. n
  BY EmptySeq, LenProperties
<1> HIDE DEF s, n
<1>3. i + n - 1 <= Len(s) <=> p + i + n - 1 <= q
  BY <1>1, <1>2
<1>4. p + i + n - 1 <= q => p + i + n - 1 <= Len(w)
  BY <1>1, <1>2
<1>5. ASSUME p + i + n - 1 <= q, NEW k \in 1 .. n
      PROVE  s[i + k - 1] = w[p + i + k - 1]
  <2>1. i + k - 1 \in 1 .. q - p /\ p + (i + k - 1) = p + i + k - 1
    BY <1>2, <1>5
  <2>2. s[i + k - 1] = w[p + (i + k - 1)]
    BY <1>1, <2>1
  <2> QED BY <2>1, <2>2
<1>6. Kinds(s, i, kinds) <=> (i + n - 1 <= Len(s) /\ \A k \in 1 .. n : s[i + k - 1][1] = kinds[k])
  BY <1>2 DEF Kinds, n
<1>7. Kinds(w, p + i, kinds)
        <=> (p + i + n - 1 <= Len(w) /\ \A k \in 1 .. n : w[p + i + k - 1][1] = kinds[k])
  BY <1>2 DEF Kinds, n
<1>8. Kinds(s, i, kinds) <=> Kinds(w, p + i, kinds) /\ p + i + n - 1 <= q
  BY <1>3, <1>4, <1>5, <1>6, <1>7
<1> QED BY <1>8 DEF s, n

\* The two forms of a trailer.
Short == <<"m", "n", "c">>
Long == <<"m", "n", "t", "n", "c">>

LEMMA Forms ==
  /\ Short \in Seq({"m", "n", "t", "c"}) /\ Short # <<>> /\ Len(Short) = 3
  /\ Long \in Seq({"m", "n", "t", "c"}) /\ Long # <<>> /\ Len(Long) = 5
  /\ \A bytes, i : IsFramedExceptionAt(bytes, i)
                     <=> Kinds(bytes, i, Short) \/ (response.tag /\ Kinds(bytes, i, Long))
<1>1. /\ Short \in Seq({"m", "n", "t", "c"}) /\ Len(Short) = 3
      /\ Long \in Seq({"m", "n", "t", "c"}) /\ Len(Long) = 5
  BY DEF Short, Long
<1>2. Short # <<>> /\ Long # <<>>
  <2>1. Len(Short) # 0 /\ Len(Long) # 0
    BY <1>1
  <2>2. Len(<<>>) = 0
    BY EmptySeq
  <2> QED BY <2>1, <2>2, Zenon
<1>3. \A bytes, i : IsFramedExceptionAt(bytes, i)
                     <=> Kinds(bytes, i, Short) \/ (response.tag /\ Kinds(bytes, i, Long))
  BY DEF IsFramedExceptionAt, TrailerAt, Short, Long
<1> QED BY <1>1, <1>2, <1>3

\* A trailer stands in the bytes, and begins with its marker.
LEMMA TrailerPlace ==
  ASSUME NEW w \in Seq(Cell), NEW i \in Nat \ {0}, IsFramedExceptionAt(w, i)
  PROVE  i \in DOMAIN w /\ w[i][1] = "m"
<1>1. Len(w) \in Nat /\ DOMAIN w = 1 .. Len(w)
  BY LenProperties
<1>2. Kinds(w, i, Short) \/ Kinds(w, i, Long)
  BY Forms
<1>3. ASSUME NEW kinds, Kinds(w, i, kinds), kinds = Short \/ kinds = Long
      PROVE  i <= Len(w) /\ w[i][1] = "m"
  <2>1. Len(kinds) \in {3, 5} /\ 1 \in DOMAIN kinds /\ kinds[1] = "m"
    BY <1>3 DEF Short, Long
  <2>2. i + Len(kinds) - 1 <= Len(w) /\ w[i + 1 - 1][1] = kinds[1]
    BY <1>3, <2>1 DEF Kinds
  <2>3. i + 1 - 1 = i
    OBVIOUS
  <2> QED BY <1>1, <2>1, <2>2, <2>3
<1> QED BY <1>1, <1>2, <1>3

\* A trailer found in a window stands in the whole.
LEMMA FoundStands ==
  ASSUME NEW w \in Seq(Cell), NEW p \in Nat, NEW q \in Nat, p <= q, q <= Len(w),
         NEW i \in Nat \ {0}, IsFramedExceptionAt(SubSeq(w, p + 1, q), i)
  PROVE  IsFramedExceptionAt(w, p + i)
<1>1. /\ Kinds(SubSeq(w, p + 1, q), i, Short) => Kinds(w, p + i, Short)
      /\ Kinds(SubSeq(w, p + 1, q), i, Long) => Kinds(w, p + i, Long)
  BY Forms, KindsIn
<1> QED BY <1>1, Forms

\* The place of a trailer that a scan may report: where a line starts in a text.
AtLineStart(bytes, i) == response.text /\ i > 1 => bytes[i - 1][1] = "n"

\* The bytes of a trailer in the first b that do not all stand in the first a stand
\* behind r, if that is at the start of the body or at least TailBytes before a.
LEMMA KindsCarry ==
  ASSUME NEW w \in Seq(Cell), NEW r \in Nat, NEW a \in Nat, NEW b \in Nat,
         r <= a, a <= b, b <= Len(w), r = 0 \/ a - r >= TailBytes,
         NEW kinds \in Seq({"m", "n", "t", "c"}), kinds # <<>>, Len(kinds) <= 5,
         NEW p \in 1 .. b, Kinds(SubSeq(w, 0 + 1, b), p, kinds)
  PROVE  \/ p <= a /\ Kinds(SubSeq(w, 0 + 1, a), p, kinds)
         \/ p > r /\ Kinds(SubSeq(w, r + 1, b), p - r, kinds)
<1> DEFINE n == Len(kinds)
<1>1. n \in Nat \ {0} /\ n <= 5 /\ Len(w) \in Nat /\ TailBytes \in Nat /\ TailBytes >= 5
  BY EmptySeq, LenProperties, TailAssumption
<1>2. p \in Nat \ {0} /\ 0 + p = p /\ 0 \in Nat /\ 0 <= a /\ 0 <= b /\ a <= Len(w) /\ r <= b
  BY <1>1
<1>3. Kinds(w, 0 + p, kinds) /\ 0 + p + n - 1 <= b
  BY <1>2, KindsIn
<1>4. CASE 0 + p + n - 1 <= a
  <2>1. Kinds(SubSeq(w, 0 + 1, a), p, kinds)
    BY <1>2, <1>3, <1>4, KindsIn
  <2> HIDE DEF n
  <2>2. p <= a
    BY <1>1, <1>2, <1>4
  <2> QED BY <2>1, <2>2
<1>5. CASE 0 + p + n - 1 > a
  <2>1. p > r /\ p - r \in Nat \ {0} /\ r + (p - r) = 0 + p
    <3> HIDE DEF n
    <3>1. p > r
      BY <1>1, <1>2, <1>5
    <3> QED BY <1>2, <3>1
  <2>2. Kinds(w, r + (p - r), kinds) /\ r + (p - r) + n - 1 <= b
    BY <1>3, <2>1
  <2>3. Kinds(SubSeq(w, r + 1, b), p - r, kinds)
    BY <1>2, <2>1, <2>2, KindsIn
  <2> QED BY <2>1, <2>3
<1>6. 0 + p + n - 1 <= a \/ 0 + p + n - 1 > a
  <2> HIDE DEF n
  <2> QED BY <1>1, <1>2
<1> QED BY <1>4, <1>5, <1>6

\* The windows a scan looks at overlap by enough: a trailer in the first b bytes
\* that is not in the first a is in those behind r, if r is at the start of the
\* body or at least TailBytes before a.
LEMMA NothingMissed ==
  ASSUME NEW w \in Seq(Cell), NEW r \in Nat, NEW a \in Nat, NEW b \in Nat,
         r <= a, a <= b, b <= Len(w), r = 0 \/ a - r >= TailBytes,
         ~HasException(SubSeq(w, 1, a)), HasException(SubSeq(w, 1, b))
  PROVE  HasException(SubSeq(w, r + 1, b))
<1> DEFINE small == SubSeq(w, 0 + 1, a)
           big   == SubSeq(w, 0 + 1, b)
           win   == SubSeq(w, r + 1, b)
<1>1. /\ small = SubSeq(w, 1, a) /\ big = SubSeq(w, 1, b)
      /\ Len(w) \in Nat /\ a <= Len(w) /\ TailBytes \in Nat /\ TailBytes >= 5
  <2>1. Len(w) \in Nat
    BY LenProperties
  <2> QED BY <2>1, TailAssumption
<1>2. /\ Len(small) = a /\ small \in Seq(Cell) /\ \A i \in 1 .. a : small[i] = w[i]
      /\ Len(big) = b /\ big \in Seq(Cell) /\ \A i \in 1 .. b : big[i] = w[i]
      /\ Len(win) = b - r /\ win \in Seq(Cell) /\ \A i \in 1 .. b - r : win[i] = w[r + i]
  <2>1. /\ Len(small) = a - 0 /\ small \in Seq(Cell) /\ \A i \in 1 .. a - 0 : small[i] = w[0 + i]
    BY <1>1, Window
  <2>2. /\ Len(big) = b - 0 /\ big \in Seq(Cell) /\ \A i \in 1 .. b - 0 : big[i] = w[0 + i]
    BY <1>1, Window
  <2>3. /\ Len(win) = b - r /\ win \in Seq(Cell) /\ \A i \in 1 .. b - r : win[i] = w[r + i]
    <3>1. r <= b
      OBVIOUS
    <3> QED BY <3>1, Window, ZenonT(60)
  <2>4. a - 0 = a /\ b - 0 = b /\ \A i \in Nat : 0 + i = i
    OBVIOUS
  <2> HIDE DEF small, big, win
  <2> QED BY <2>1, <2>2, <2>3, <2>4
<1>3. PICK p \in 1 .. b : AtLineStart(big, p) /\ IsFramedExceptionAt(big, p)
  <2>1. DOMAIN big = 1 .. b
    BY <1>2, LenProperties
  <2> QED BY <1>1, <2>1 DEF HasException, Markers, Trailers, IsFramedExceptionAt, AtLineStart
<1>4. \/ p <= a /\ IsFramedExceptionAt(small, p)
      \/ p > r /\ IsFramedExceptionAt(win, p - r)
  <2>1. CASE Kinds(big, p, Short)
    <3>0. Short \in Seq({"m", "n", "t", "c"}) /\ Short # <<>> /\ Len(Short) <= 5
      BY Forms
    <3>1. \/ p <= a /\ Kinds(small, p, Short)
          \/ p > r /\ Kinds(win, p - r, Short)
      BY <1>1, <2>1, <3>0, KindsCarry
    <3> HIDE DEF small, win
    <3> QED BY <3>1, Forms
  <2>2. CASE response.tag /\ Kinds(big, p, Long)
    <3>0. Long \in Seq({"m", "n", "t", "c"}) /\ Long # <<>> /\ Len(Long) <= 5
      BY Forms
    <3>1. \/ p <= a /\ Kinds(small, p, Long)
          \/ p > r /\ Kinds(win, p - r, Long)
      BY <1>1, <2>2, <3>0, KindsCarry
    <3> HIDE DEF small, win
    <3> QED BY <2>2, <3>1, Forms
  <2> QED BY <1>3, <2>1, <2>2, Forms
<1>5. DOMAIN small = 1 .. a /\ DOMAIN win = 1 .. b - r
  BY <1>2, LenProperties
<1> HIDE DEF small, big, win
<1>6. CASE p <= a /\ IsFramedExceptionAt(small, p)
  <2>1. AtLineStart(small, p)
    <3>1. SUFFICES ASSUME response.text, p > 1 PROVE small[p - 1][1] = "n"
      BY DEF AtLineStart
    <3>2. p - 1 \in 1 .. a /\ p - 1 \in 1 .. b
      BY <1>6, <3>1
    <3>3. big[p - 1][1] = "n"
      BY <1>3, <3>1 DEF AtLineStart
    <3> QED BY <1>2, <3>2, <3>3
  <2>2. p \in Markers(small)
    <3>1. p \in DOMAIN small
      BY <1>5, <1>6
    <3> QED BY <1>6, <2>1, <3>1 DEF Markers, Trailers, IsFramedExceptionAt, AtLineStart
  <2> QED BY <1>1, <2>2 DEF HasException
<1>7. CASE p > r /\ IsFramedExceptionAt(win, p - r)
  <2> DEFINE i == p - r
  <2>1. i \in 1 .. b - r /\ (i > 1 => p > 1 /\ i - 1 \in 1 .. b - r /\ r + (i - 1) = p - 1)
    BY <1>7
  <2>2. IsFramedExceptionAt(win, i)
    BY <1>7
  <2> HIDE DEF i
  <2>3. AtLineStart(win, i)
    <3>1. SUFFICES ASSUME response.text, i > 1 PROVE win[i - 1][1] = "n"
      BY DEF AtLineStart
    <3>2. p > 1 /\ p - 1 \in 1 .. b
      BY <2>1, <3>1
    <3>3. big[p - 1][1] = "n"
      BY <1>3, <3>1, <3>2 DEF AtLineStart
    <3>4. win[i - 1] = w[r + (i - 1)]
      BY <1>2, <2>1, <3>1
    <3> QED BY <1>2, <2>1, <3>1, <3>2, <3>3, <3>4
  <2>4. i \in Markers(win)
    BY <1>5, <2>1, <2>2, <2>3 DEF Markers, Trailers, IsFramedExceptionAt, AtLineStart
  <2> QED BY <2>4 DEF HasException, win
<1> QED BY <1>4, <1>6, <1>7

\* The marker reported is one of those there are, and what is yielded before it ends
\* right in front of it.
LEMMA MarkerFacts ==
  ASSUME NEW bytes \in Seq(Cell), HasException(bytes)
  PROVE  /\ ExceptionMarker(bytes) \in 1 .. Len(bytes)
         /\ ExceptionMarker(bytes) \in Markers(bytes)
         /\ IsFramedExceptionAt(bytes, ExceptionMarker(bytes))
         /\ \A k \in Markers(bytes) : ExceptionMarker(bytes) <= k
         /\ BeforeException(bytes) \in Seq(Cell)
         /\ Len(BeforeException(bytes)) = ExceptionMarker(bytes) - 1
<1>1. DOMAIN bytes = 1 .. Len(bytes) /\ Len(bytes) \in Nat
  BY LenProperties
<1>2. Markers(bytes) \in SUBSET Nat /\ Markers(bytes) # {}
  BY <1>1 DEF Markers, Trailers, HasException
<1>3. \E m \in Markers(bytes) : \A k \in Markers(bytes) : m <= k
  BY <1>2, LeastNatural
<1>4. ExceptionMarker(bytes) \in Markers(bytes) /\ \A k \in Markers(bytes) : ExceptionMarker(bytes) <= k
  BY <1>3 DEF ExceptionMarker
<1>5. ExceptionMarker(bytes) \in 1 .. Len(bytes) /\ IsFramedExceptionAt(bytes, ExceptionMarker(bytes))
  BY <1>1, <1>4 DEF Markers, Trailers, IsFramedExceptionAt
<1> DEFINE m == ExceptionMarker(bytes)
<1> HIDE DEF m
<1>6. m \in 1 .. Len(bytes)
  BY <1>5 DEF m
<1>7. m - 1 \in Nat /\ 0 <= m - 1 /\ m - 1 <= Len(bytes) /\ (m - 1) - 0 = m - 1
  BY <1>1, <1>6
<1>8. SubSeq(bytes, 0 + 1, m - 1) \in Seq(Cell) /\ Len(SubSeq(bytes, 0 + 1, m - 1)) = (m - 1) - 0
  BY <1>7, Window
<1>9. BeforeException(bytes) = SubSeq(bytes, 0 + 1, m - 1)
  BY DEF BeforeException, m
<1> QED BY <1>4, <1>5, <1>7, <1>8, <1>9 DEF m

-----------------------------------------------------------------------------
\* An uncompressed body that is not framed.

\* What createStream has yielded.
Passed == received \o handed

\* What it has yielded is the body from its start, with nothing left out; what it
\* holds back is what comes next, enough for any trailer that has begun; and what
\* has come does not hold a trailer until one has been found, which then stands
\* right behind what was yielded.
OnItsRun == stream \in {"idle", "reading"} \/ (stream = "yielded" /\ after = "reading")
BodyTypes ==
  /\ arrived \in Nat /\ arrived <= Len(response.wire)
  /\ received \in Seq(Cell) /\ handed \in Seq(Cell)
  /\ stream \in {"idle", "reading", "done", "exception", "error"} => handed = <<>>
PlainScan ==
  /\ Len(Passed) <= arrived /\ Passed = SubSeq(response.wire, 0 + 1, Len(Passed))
  /\ OnItsRun => /\ pending = SubSeq(response.wire, Len(Passed) + 1, arrived)
                 /\ ~HasException(SubSeq(response.wire, 1, arrived))
                 /\ Len(Passed) = 0 \/ arrived - Len(Passed) >= TailBytes
  /\ stream = "yielded" => after # "blocks"
  /\ stream = "done" \/ (stream = "yielded" /\ after = "done") =>
       Len(Passed) = Len(response.wire) /\ ~HasException(response.wire)
  /\ stream = "exception" \/ (stream = "yielded" /\ after = "exception") =>
       IsFramedExceptionAt(response.wire, Len(Passed) + 1)
IsPlain == ~response.compressed /\ ~response.framing
PlainInv == IsPlain => BodyTypes /\ PlainScan

LEMMA WireFacts ==
  ASSUME ReaderInv
  PROVE  /\ response.wire \in Seq(Cell) /\ Len(response.wire) \in Nat
         /\ Len(response.content) \in Nat
         /\ \A c \in 1 .. Len(response.content) : response.content[c] \in Seq(Cell)
         /\ DOMAIN response.content = 1 .. Len(response.content)
         /\ IsResponse(response)
<1>1. IsResponse(response)
  BY ScenariosAssumption DEF ReaderInv, ReaderTypes
<1>2. response.wire \in Seq(Byte) /\ response.content \in Seq(Seq(Byte))
  BY <1>1 DEF IsResponse
<1>3. /\ Len(response.wire) \in Nat /\ Len(response.content) \in Nat
      /\ DOMAIN response.content = 1 .. Len(response.content)
  BY <1>2, LenProperties
<1>4. \A c \in 1 .. Len(response.content) : response.content[c] \in Seq(Byte)
  BY <1>2, <1>3, ElementOfSeq
<1> QED BY <1>1, <1>2, <1>3, <1>4, BytesAreCells

\* While createStream runs and its chunk is taken, what it has yielded has been
\* received.
LEMMA PassedFacts ==
  ASSUME ReaderInv, PlainInv, IsPlain
  PROVE  /\ Len(Passed) \in Nat /\ Passed \in Seq(Cell)
         /\ handed = <<>> => Passed = received
<1>1. received \in Seq(Cell) /\ handed \in Seq(Cell)
  BY DEF PlainInv, BodyTypes
<1>2. Passed \in Seq(Cell)
  BY <1>1, ConcatProperties DEF Passed
<1>3. Len(Passed) \in Nat
  BY <1>2, LenProperties
<1>4. handed = <<>> => Passed = received
  BY <1>1, ConcatEmptySeq DEF Passed
<1> QED BY <1>2, <1>3, <1>4

\* A chunk that is the next window of the body.
LEMMA EmitPasses ==
  ASSUME NEW w \in Seq(Cell), NEW r \in Nat, NEW q \in Nat, r <= q, q <= Len(w),
         received = SubSeq(w, 0 + 1, r), NEW where,
         Emit(SubSeq(w, r + 1, q), where), received' = received
  PROVE  /\ Passed' = SubSeq(w, 0 + 1, q) /\ Len(Passed') = q
         /\ received' \in Seq(Cell) /\ handed' \in Seq(Cell)
         /\ (stream' = where /\ handed' = <<>>) \/ (stream' = "yielded" /\ after' = where)
<1> DEFINE chunk == SubSeq(w, r + 1, q)
<1>1. chunk \in Seq(Cell)
  BY Window
<1>2. 0 \in Nat /\ 0 <= r /\ 0 <= q /\ q - 0 = q /\ r <= Len(w)
  <2>1. Len(w) \in Nat
    BY LenProperties
  <2> QED BY <2>1
<1>3. received \in Seq(Cell)
  BY <1>2, Window
<1>4. received \o chunk = SubSeq(w, 0 + 1, q) /\ Len(SubSeq(w, 0 + 1, q)) = q
  BY <1>2, Adjacent, Window
<1> HIDE DEF chunk
<1>5. handed' = chunk /\ ((stream' = where /\ handed' = <<>>) \/ (stream' = "yielded" /\ after' = where))
  BY DEF Emit, Go, YieldChunk, chunk
<1> QED BY <1>1, <1>3, <1>4, <1>5 DEF Passed

\* Reporting a trailer: what stands before it in the window is yielded first.
LEMMA ScanFinds ==
  ASSUME NEW w \in Seq(Cell), NEW r \in Nat, NEW b \in Nat, r <= b, b <= Len(w),
         received = SubSeq(w, 0 + 1, r), received' = received,
         HasException(SubSeq(w, r + 1, b)), Scan(SubSeq(w, r + 1, b))
  PROVE  /\ Len(Passed') \in Nat /\ Len(Passed') <= b
         /\ Passed' = SubSeq(w, 0 + 1, Len(Passed'))
         /\ Len(Passed') + 1 = r + ExceptionMarker(SubSeq(w, r + 1, b))
         /\ received' \in Seq(Cell) /\ handed' \in Seq(Cell)
         /\ IsFramedExceptionAt(w, Len(Passed') + 1)
         /\ (stream' = "exception" /\ handed' = <<>>) \/ (stream' = "yielded" /\ after' = "exception")
<1> DEFINE win == SubSeq(w, r + 1, b)
           m == ExceptionMarker(win)
           q == r + (m - 1)
<1>1. win \in Seq(Cell) /\ Len(win) = b - r
  BY Window
<1>2. m \in 1 .. b - r /\ IsFramedExceptionAt(win, m)
  <2> HIDE DEF win
  <2> QED BY <1>1, MarkerFacts DEF win
<1>3. BeforeException(win) = SubSeq(win, 0 + 1, m - 1)
  BY DEF BeforeException
<1>4. Emit(BeforeException(win), "exception")
  BY DEF Scan
<1> HIDE DEF m
<1>5. /\ m - 1 \in Nat /\ 0 <= m - 1 /\ m - 1 <= b - r /\ q \in Nat /\ r <= q /\ q <= b /\ q <= Len(w)
      /\ r + 0 = r /\ m \in Nat \ {0} /\ q + 1 = r + m
  <2>1. Len(w) \in Nat
    BY LenProperties
  <2> QED BY <1>2, <2>1
<1>6. SubSeq(win, 0 + 1, m - 1) = SubSeq(w, r + 1, q)
  <2>1. SubSeq(win, 0 + 1, m - 1) = SubSeq(w, r + 0 + 1, r + (m - 1))
    BY <1>5, Windows
  <2> QED BY <1>5, <2>1
<1>7. IsFramedExceptionAt(w, r + m)
  BY <1>2, <1>5, FoundStands
<1> HIDE DEF q, win
<1>8. Emit(SubSeq(w, r + 1, q), "exception")
  BY <1>3, <1>4, <1>6
<1>9. /\ Passed' = SubSeq(w, 0 + 1, q) /\ Len(Passed') = q
      /\ received' \in Seq(Cell) /\ handed' \in Seq(Cell)
      /\ (stream' = "exception" /\ handed' = <<>>) \/ (stream' = "yielded" /\ after' = "exception")
  BY <1>5, <1>8, EmitPasses
<1>10. Len(Passed') + 1 = r + ExceptionMarker(SubSeq(w, r + 1, b))
  BY <1>5, <1>9 DEF m, win
<1> QED BY <1>5, <1>7, <1>9, <1>10

LEMMA ScanSafe ==
  ASSUME ReaderInv, NEW r \in Nat, NEW b \in Nat, r <= b, b <= Len(response.wire),
         received = SubSeq(response.wire, 0 + 1, r), received' = received, response' = response,
         arrived' = b,
         HasException(SubSeq(response.wire, r + 1, b)), Scan(SubSeq(response.wire, r + 1, b))
  PROVE  PlainInv'
<1> DEFINE w == response.wire
<1>1. w \in Seq(Cell) /\ response'.wire = w
  BY WireFacts
<1> HIDE DEF w
<1>2. /\ Len(Passed') \in Nat /\ Len(Passed') <= b
      /\ Passed' = SubSeq(w, 0 + 1, Len(Passed'))
      /\ received' \in Seq(Cell) /\ handed' \in Seq(Cell)
      /\ IsFramedExceptionAt(w, Len(Passed') + 1)
      /\ (stream' = "exception" /\ handed' = <<>>) \/ (stream' = "yielded" /\ after' = "exception")
  BY <1>1, ScanFinds DEF w
<1> QED BY <1>1, <1>2 DEF PlainInv, BodyTypes, PlainScan, OnItsRun, IsFramedExceptionAt, TrailerAt, Kinds

\* The same response, the same trailers.
LEMMA SameTrailers ==
  ASSUME response' = response
  PROVE  /\ \A bytes, i : IsFramedExceptionAt(bytes, i)' <=> IsFramedExceptionAt(bytes, i)
         /\ \A bytes : Markers(bytes)' = Markers(bytes)
         /\ \A bytes : HasException(bytes)' <=> HasException(bytes)
<1>1. \A bytes, i : IsFramedExceptionAt(bytes, i)' <=> IsFramedExceptionAt(bytes, i)
  BY DEF IsFramedExceptionAt, TrailerAt, Kinds
<1>2. ASSUME NEW bytes
      PROVE  Markers(bytes)' = Markers(bytes)
  BY <1>1 DEF Markers, Trailers
<1> QED BY <1>1, <1>2 DEF HasException

\* Nothing that the invariant speaks of has changed.
LEMMA PlainStays ==
  ASSUME PlainInv, UNCHANGED <<response, arrived, stream, after, handed, pending, received>>
  PROVE  PlainInv'
<1>1. Passed' = Passed /\ IsPlain' = IsPlain /\ OnItsRun' = OnItsRun
  BY DEF Passed, IsPlain, OnItsRun
<1>2. /\ HasException(SubSeq(response.wire, 1, arrived))' <=> HasException(SubSeq(response.wire, 1, arrived))
      /\ HasException(response.wire)' <=> HasException(response.wire)
      /\ IsFramedExceptionAt(response.wire, Len(Passed) + 1)' <=> IsFramedExceptionAt(response.wire, Len(Passed) + 1)
  BY <1>1, SameTrailers
<1> QED BY <1>1, <1>2 DEF PlainInv, BodyTypes, PlainScan

\* The generator is asked for its first chunk.
LEMMA PlainOpens ==
  ASSUME ReaderInv, PlainInv, IsPlain, Open, received' = received
  PROVE  PlainInv'
<1>1. /\ stream = "idle" /\ stream' = "reading" /\ handed' = <<>> /\ handed = <<>>
      /\ UNCHANGED <<response, arrived, after, pending, received>>
  BY DEF Open, Go, PlainInv, BodyTypes
<1>2. Passed' = Passed /\ IsPlain'
  BY <1>1 DEF Passed, IsPlain
<1>3. BodyTypes'
  BY <1>1 DEF PlainInv, BodyTypes
<1>4. HasException(SubSeq(response.wire, 1, arrived))' <=> HasException(SubSeq(response.wire, 1, arrived))
  BY <1>1, SameTrailers
<1>5. PlainScan'
  BY <1>1, <1>2, <1>4 DEF PlainInv, PlainScan, OnItsRun
<1> QED BY <1>3, <1>5 DEF PlainInv

\* A chunk is read: what was held back and the chunk are the window behind what has
\* been yielded; if no trailer is in it, none is in what has come.
LEMMA PlainReads ==
  ASSUME ReaderInv, PlainInv, IsPlain, NEW n \in Nat, ReadChunk(n), received' = received
  PROVE  PlainInv'
<1> DEFINE w == response.wire
           r == Len(Passed)
           b == arrived + n
           combined == pending \o SubSeq(w, arrived + 1, b)
           emitLen == IF Len(combined) > TailBytes THEN Len(combined) - TailBytes ELSE 0
<1>1. w \in Seq(Cell) /\ Len(w) \in Nat
  BY WireFacts
<1>2. /\ stream = "reading" /\ b <= Len(w) /\ arrived' = b /\ HoldBack(SubSeq(w, arrived + 1, b))
      /\ response' = response
  BY DEF ReadChunk, IsPlain
<1>3. /\ handed = <<>> /\ r \in Nat /\ Passed = received /\ arrived \in Nat /\ r <= arrived
      /\ received = SubSeq(w, 0 + 1, r) /\ pending = SubSeq(w, r + 1, arrived)
      /\ ~HasException(SubSeq(w, 1, arrived)) /\ (r = 0 \/ arrived - r >= TailBytes)
  BY <1>2, PassedFacts DEF PlainInv, BodyTypes, PlainScan, OnItsRun
<1> HIDE DEF w, r
<1>4. b \in Nat /\ r <= b /\ arrived <= b /\ TailBytes \in Nat
  BY <1>3, TailAssumption
<1>5. combined = SubSeq(w, r + 1, b)
  BY <1>1, <1>2, <1>3, <1>4, Adjacent, ZenonT(60)
<1>6. CASE HasException(combined)
  <2>1. HasException(SubSeq(w, r + 1, b)) /\ Scan(SubSeq(w, r + 1, b))
    BY <1>2, <1>5, <1>6 DEF HoldBack
  <2> QED BY <1>2, <1>3, <1>4, <2>1, ScanSafe DEF w
<1>7. CASE ~HasException(combined)
  <2> DEFINE q == r + emitLen
  <2>1. Len(combined) = b - r /\ Len(combined) \in Nat
    BY <1>1, <1>2, <1>3, <1>4, <1>5, Window
  <2>2. Emit(SubSeq(combined, 1, emitLen), "reading") /\ pending' = SubSeq(combined, emitLen + 1, Len(combined))
    BY <1>2, <1>7 DEF HoldBack
  <2>3. emitLen \in Nat /\ emitLen <= b - r /\ (emitLen = 0 \/ (b - r) - emitLen = TailBytes)
    <3> HIDE DEF combined
    <3> QED BY <1>3, <1>4, <2>1
  <2> HIDE DEF emitLen
  <2>4. /\ 0 \in Nat /\ 0 <= emitLen /\ b - r \in Nat /\ b - r <= b - r
        /\ q \in Nat /\ r <= q /\ q <= b /\ q <= Len(w) /\ r + 0 = r /\ r + (b - r) = b /\ 0 + 1 = 1
        /\ emitLen = 0 => q = r
        /\ emitLen # 0 => b - q = TailBytes
    BY <1>1, <1>2, <1>3, <1>4, <2>3
  <2>5. SubSeq(combined, 1, emitLen) = SubSeq(w, r + 1, q)
    <3>1. SubSeq(SubSeq(w, r + 1, b), 0 + 1, emitLen) = SubSeq(w, r + 0 + 1, r + emitLen)
      BY <1>1, <1>2, <1>3, <1>4, <2>3, <2>4, Windows
    <3> QED BY <1>5, <2>4, <3>1
  <2>6. pending' = SubSeq(w, q + 1, b)
    <3>1. SubSeq(SubSeq(w, r + 1, b), emitLen + 1, b - r) = SubSeq(w, r + emitLen + 1, r + (b - r))
      BY <1>1, <1>2, <1>3, <1>4, <2>3, <2>4, Windows
    <3> QED BY <1>5, <2>1, <2>2, <2>4, <3>1
  <2> HIDE DEF q, combined
  <2>7. /\ Passed' = SubSeq(w, 0 + 1, q) /\ Len(Passed') = q
        /\ received' \in Seq(Cell) /\ handed' \in Seq(Cell)
        /\ (stream' = "reading" /\ handed' = <<>>) \/ (stream' = "yielded" /\ after' = "reading")
    <3>1. Emit(SubSeq(w, r + 1, q), "reading")
      BY <2>2, <2>5
    <3> QED BY <1>1, <1>3, <2>4, <3>1, EmitPasses
  <2>8. ~HasException(SubSeq(w, 1, b))
    <3>1. ~HasException(SubSeq(w, r + 1, b))
      BY <1>5, <1>7
    <3> HIDE DEF b
    <3> QED BY <1>1, <1>2, <1>3, <1>4, <3>1, NothingMissed
  <2>9. q = 0 \/ b - q >= TailBytes
    BY <1>3, <1>4, <2>4
  <2> HIDE DEF b
  <2>10. response'.wire = w /\ IsPlain'
    BY <1>2 DEF w, IsPlain
  <2>11. BodyTypes'
    BY <1>2, <1>4, <2>7, <2>10 DEF BodyTypes
  <2>12. ~HasException(SubSeq(response.wire, 1, arrived))'
    BY <1>2, <2>8, <2>10, SameTrailers
  <2>13. PlainScan'
    BY <1>2, <2>4, <2>6, <2>7, <2>9, <2>10, <2>12 DEF PlainScan, OnItsRun
  <2> QED BY <2>11, <2>13 DEF PlainInv
<1> QED BY <1>6, <1>7

\* The body ends: what was held back is its last window, and goes out.
LEMMA PlainEnds ==
  ASSUME ReaderInv, PlainInv, IsPlain, ReadEnd, received' = received
  PROVE  PlainInv'
<1> DEFINE w == response.wire
           r == Len(Passed)
<1>1. w \in Seq(Cell) /\ Len(w) \in Nat
  BY WireFacts
<1>2. stream = "reading" /\ arrived = Len(w) /\ LetGo /\ response' = response /\ arrived' = arrived
  BY DEF ReadEnd, IsPlain
<1>3. /\ handed = <<>> /\ r \in Nat /\ Passed = received /\ r <= Len(w)
      /\ received = SubSeq(w, 0 + 1, r) /\ pending = SubSeq(w, r + 1, Len(w))
      /\ ~HasException(SubSeq(w, 1, Len(w)))
  BY <1>2, PassedFacts DEF PlainInv, BodyTypes, PlainScan, OnItsRun
<1> HIDE DEF w, r
<1>4. CASE HasException(pending)
  <2>1. HasException(SubSeq(w, r + 1, Len(w))) /\ Scan(SubSeq(w, r + 1, Len(w)))
    BY <1>2, <1>3, <1>4 DEF LetGo
  <2>2. arrived' = Len(w) /\ Len(w) <= Len(w)
    BY <1>1, <1>2
  <2> QED BY <1>1, <1>2, <1>3, <2>1, <2>2, ScanSafe DEF w
<1>5. CASE ~HasException(pending)
  <2>1. Emit(SubSeq(w, r + 1, Len(w)), "done")
    BY <1>2, <1>3, <1>5 DEF LetGo
  <2>2. Len(w) <= Len(w)
    BY <1>1
  <2>3. /\ Passed' = SubSeq(w, 0 + 1, Len(w)) /\ Len(Passed') = Len(w)
        /\ received' \in Seq(Cell) /\ handed' \in Seq(Cell)
        /\ (stream' = "done" /\ handed' = <<>>) \/ (stream' = "yielded" /\ after' = "done")
    BY <1>1, <1>3, <2>1, <2>2, EmitPasses
  <2>4. SubSeq(w, 1, Len(w)) = w
    <3>1. w \in Seq(Cell) => SubSeq(w, 1, Len(w)) = w
      BY SubSeqFull
    <3> QED BY <1>1, <3>1
  <2>5. response'.wire = w /\ IsPlain'
    BY <1>2 DEF w, IsPlain
  <2>6. ~HasException(response.wire)'
    BY <1>2, <1>3, <2>4, <2>5, SameTrailers
  <2>7. BodyTypes'
    BY <1>1, <1>2, <2>3, <2>5 DEF BodyTypes
  <2>8. /\ Len(Passed') <= arrived' /\ Passed' = SubSeq(w, 0 + 1, Len(Passed'))
        /\ stream' = "done" \/ (stream' = "yielded" /\ after' = "done")
    BY <1>1, <1>2, <2>3
  <2>9. PlainScan'
    BY <2>3, <2>5, <2>6, <2>8 DEF PlainScan, OnItsRun
  <2> QED BY <2>7, <2>9 DEF PlainInv
<1> QED BY <1>4, <1>5

\* The reader rejects, or the consumer has taken the chunk and asks for more.
LEMMA PlainGoesOn ==
  ASSUME ReaderInv, PlainInv, IsPlain, ReadFails \/ (handed = <<>> /\ Resume), received' = received
  PROVE  PlainInv'
<1>1. /\ handed = <<>> /\ handed' = <<>> /\ UNCHANGED <<response, arrived, pending, received>>
      /\ \/ stream' = "error"
         \/ stream = "yielded" /\ after \in {"reading", "done", "exception"} /\ stream' = after
  <2>1. CASE ReadFails
    BY <2>1 DEF ReadFails, Go, PlainInv, BodyTypes
  <2>2. CASE handed = <<>> /\ Resume
    BY <2>2 DEF Resume, Go, PlainInv, PlainScan, ReaderInv, ReaderTypes
  <2> QED BY <2>1, <2>2
<1>2. Passed' = Passed /\ IsPlain'
  BY <1>1 DEF Passed, IsPlain
<1>3. BodyTypes'
  BY <1>1 DEF PlainInv, BodyTypes
<1>4. /\ HasException(SubSeq(response.wire, 1, arrived))' <=> HasException(SubSeq(response.wire, 1, arrived))
      /\ HasException(response.wire)' <=> HasException(response.wire)
      /\ IsFramedExceptionAt(response.wire, Len(Passed) + 1)' <=> IsFramedExceptionAt(response.wire, Len(Passed) + 1)
  BY <1>1, <1>2, SameTrailers
<1>5. PlainScan'
  <2>1. CASE stream' = "error"
    BY <1>1, <1>2, <2>1 DEF PlainInv, PlainScan, OnItsRun
  <2>2. CASE stream = "yielded" /\ after \in {"reading", "done", "exception"} /\ stream' = after
    BY <1>1, <1>2, <1>4, <2>2 DEF PlainInv, PlainScan, OnItsRun
  <2> QED BY <1>1, <2>1, <2>2
<1> QED BY <1>3, <1>5 DEF PlainInv

\* The chunk reaches the consumer, or its generator is given up.
LEMMA PlainTaken ==
  ASSUME ReaderInv, PlainInv, IsPlain,
         Take \/ (Leave /\ received' = received)
  PROVE  PlainInv'
<1>1. received \in Seq(Cell) /\ handed \in Seq(Cell)
  BY DEF PlainInv, BodyTypes
<1>2. CASE Take
  <2>1. /\ stream = "yielded" /\ handed' = <<>> /\ received' = received \o handed
        /\ UNCHANGED <<response, arrived, stream, after, pending>>
    BY <1>2 DEF Take, Taken
  <2>2. received \o handed \in Seq(Cell) /\ (received \o handed) \o <<>> = received \o handed
    BY <1>1, ConcatProperties, ConcatEmptySeq
  <2>3. Passed' = Passed /\ IsPlain' /\ OnItsRun' = OnItsRun
    BY <2>1, <2>2 DEF Passed, IsPlain, OnItsRun
  <2>4. BodyTypes'
    BY <2>1, <2>2, EmptySeq DEF PlainInv, BodyTypes
  <2>5. /\ HasException(SubSeq(response.wire, 1, arrived))' <=> HasException(SubSeq(response.wire, 1, arrived))
        /\ HasException(response.wire)' <=> HasException(response.wire)
        /\ IsFramedExceptionAt(response.wire, Len(Passed) + 1)' <=> IsFramedExceptionAt(response.wire, Len(Passed) + 1)
    BY <2>1, <2>3, SameTrailers
  <2>6. PlainScan'
    BY <2>1, <2>3, <2>5 DEF PlainInv, PlainScan
  <2> QED BY <2>4, <2>6 DEF PlainInv
<1>3. CASE Leave /\ received' = received
  <2>1. CASE stream = "yielded" /\ Return
    <3>1. stream' = "returned" /\ UNCHANGED <<response, arrived, after, handed, pending, received>>
      BY <1>3, <2>1 DEF Return
    <3>2. Passed' = Passed /\ IsPlain'
      BY <3>1 DEF Passed, IsPlain
    <3> QED BY <3>1, <3>2 DEF PlainInv, BodyTypes, PlainScan, OnItsRun
  <2>2. CASE UNCHANGED bodyVars
    BY <1>3, <2>2, PlainStays DEF bodyVars
  <2> QED BY <1>3, <2>1, <2>2 DEF Leave
<1> QED BY <1>2, <1>3

LEMMA ScenarioStands ==
  ASSUME [Next]_vars
  PROVE  UNCHANGED scenario
<1>1. CASE Requesting
  BY <1>1 DEF Requesting, Call, OtherCall, Loading, Initialized, Peek, PeekFails, Upload, PartEnds,
     PullFirst, SourceChunk, PullOn, SourceEnds, SourceFails, End, To, Fetch, callVars
<1>2. CASE Answering
  BY <1>2 DEF Answering, Responds, FetchFails, TimerFires, ErrorRead, Reply, BodyReads, BodyEnds,
     BodyFails, BodyStep, End, To, callVars
<1>3. CASE GoingOn \/ Abandon
  BY <1>3 DEF GoingOn, HeaderTaken, BodyOpens, BodyResumes, BodyStep, Take, Decoding, Parsing, Reading,
     LastRecord, Summarize, SummaryTaken, AllDecoded, Throws, PacketThrows, LineThrows, Abandon,
     End, To, callVars
<1>4. CASE UNCHANGED vars
  BY <1>4 DEF vars, callVars
<1> QED BY <1>1, <1>2, <1>3, <1>4 DEF Next

\* What is not a step of createStream, the handing over of its chunk, or a leaving
\* leaves it, and what the application has, alone.
LEMMA OtherSteps ==
  ASSUME [Next]_vars
  PROVE  \/ BodyOpens \/ BodyReads \/ BodyEnds \/ BodyFails \/ BodyResumes \/ Take
         \/ PacketThrows \/ LineThrows \/ Abandon
         \/ UNCHANGED <<bodyVars, received>>
<1>1. CASE Requesting
  <2>1. UNCHANGED <<bodyVars, resultVars>>
    BY <1>1 DEF Requesting, Call, OtherCall, Loading, Initialized, Peek, PeekFails, Upload, PartEnds,
       PullFirst, SourceChunk, PullOn, SourceEnds, SourceFails
  <2> QED BY <2>1 DEF resultVars
<1>2. CASE Responds \/ FetchFails \/ TimerFires \/ ErrorRead \/ Reply \/ HeaderTaken
  BY <1>2 DEF Responds, FetchFails, TimerFires, ErrorRead, Reply, HeaderTaken, resultVars
<1>3. CASE Decoding \/ Parsing \/ Reading \/ LastRecord \/ Summarize \/ SummaryTaken \/ AllDecoded \/ Throws
  BY <1>3 DEF Decoding, Parsing, Reading, LastRecord, Summarize, SummaryTaken, AllDecoded, Throws,
     resultVars
<1>4. CASE UNCHANGED vars
  BY <1>4 DEF vars, resultVars
<1> QED BY <1>1, <1>2, <1>3, <1>4 DEF Next, Answering, GoingOn

LEMMA PlainStep ==
  ASSUME ReaderInv, PlainInv, [Next]_vars
  PROVE  PlainInv'
<1>1. SUFFICES ASSUME IsPlain' PROVE PlainInv'
  BY DEF PlainInv
<1>2. response' = response /\ IsPlain
  <2>1. ReaderInv' /\ UNCHANGED scenario
    BY ReaderStep, ScenarioStands
  <2>2. response' = response
    BY <2>1 DEF ReaderInv, ReaderTypes
  <2> QED BY <1>1, <2>2 DEF IsPlain
<1>3. CASE BodyOpens \/ BodyReads \/ BodyEnds \/ BodyFails \/ BodyResumes
  <2>1. received' = received
    BY <1>3 DEF BodyOpens, BodyReads, BodyEnds, BodyFails, BodyResumes, BodyStep, resultVars
  <2>2. CASE BodyReads
    <3>1. PICK n \in ChunkSizes : ReadChunk(n)
      BY <2>2 DEF BodyReads, BodyStep
    <3>2. n \in Nat
      BY <3>1, InsertAssumption
    <3> QED BY <1>2, <2>1, <3>1, <3>2, PlainReads
  <2>3. CASE BodyOpens
    BY <1>2, <2>1, <2>3, PlainOpens DEF BodyOpens, BodyStep
  <2>4. CASE BodyEnds
    BY <1>2, <2>1, <2>4, PlainEnds DEF BodyEnds, BodyStep
  <2>5. CASE BodyFails \/ BodyResumes
    BY <1>2, <2>1, <2>5, PlainGoesOn DEF BodyFails, BodyResumes, BodyStep
  <2> QED BY <1>3, <2>2, <2>3, <2>4, <2>5
<1>4. CASE Take
  BY <1>2, <1>4, PlainTaken
<1>5. CASE PacketThrows \/ LineThrows \/ Abandon
  <2>1. Leave /\ received' = received
    BY <1>5 DEF PacketThrows, LineThrows, Abandon, resultVars
  <2> QED BY <1>2, <2>1, PlainTaken
<1>6. CASE UNCHANGED <<bodyVars, received>>
  BY <1>6, PlainStays DEF bodyVars
<1> QED BY <1>3, <1>4, <1>5, <1>6, OtherSteps

LEMMA PlainInit ==
  ASSUME Init
  PROVE  PlainInv
<1> DEFINE w == response.wire
<1>1. ReaderInv
  BY ReaderInit
<1>2. w \in Seq(Cell) /\ Len(w) \in Nat
  BY <1>1, WireFacts
<1>3. /\ arrived = 0 /\ stream = "idle" /\ after = "reading" /\ handed = <<>> /\ pending = <<>>
      /\ received = <<>>
  BY DEF Init, BodyInit
<1>4. Passed = <<>> /\ Len(Passed) = 0 /\ <<>> \in Seq(Cell)
  BY <1>3, EmptySeq, ConcatEmptySeq DEF Passed
<1>5. SubSeq(w, 0 + 1, 0) = <<>> /\ SubSeq(w, 1, 0) = <<>>
  BY SubSeqEmpty
<1>6. ~HasException(<<>>)
  BY DEF HasException, Markers, Trailers
<1> HIDE DEF w
<1>7. BodyTypes
  BY <1>2, <1>3, <1>4 DEF BodyTypes, w
<1>8. /\ Len(Passed) <= arrived /\ Passed = SubSeq(w, 0 + 1, Len(Passed))
      /\ pending = SubSeq(w, Len(Passed) + 1, arrived) /\ ~HasException(SubSeq(w, 1, arrived))
  <2>1. 0 <= 0
    OBVIOUS
  <2> QED BY <1>3, <1>4, <1>5, <1>6, <2>1, Zenon
<1>9. PlainScan
  BY <1>3, <1>4, <1>8 DEF PlainScan, OnItsRun, w
<1> QED BY <1>7, <1>9 DEF PlainInv

\* However its chunks are cut, the application gets an uncompressed body in order and
\* without a gap or a repetition, and when createStream ends, all of it: no tail held
\* back for the scan is lost (createStream, client.ts 882-994).
BodyPassed ==
  IsPlain =>
    /\ received = SubSeq(response.wire, 1, Len(received))
    /\ stream = "done" => received = response.wire
THEOREM BodyPassesThrough == Spec => []BodyPassed
<1>1. ReaderInv /\ PlainInv /\ [Next]_vars => PlainInv'
  BY PlainStep
<1>2. ReaderInv /\ PlainInv => BodyPassed
  <2>1. SUFFICES ASSUME ReaderInv, PlainInv, IsPlain
                 PROVE  BodyPassed
    BY DEF BodyPassed
  <2> DEFINE w == response.wire
             r == Len(received)
             q == Len(Passed)
  <2>2. w \in Seq(Cell) /\ Len(w) \in Nat
    BY <2>1, WireFacts
  <2>3. received \in Seq(Cell) /\ handed \in Seq(Cell) /\ q \in Nat /\ q <= arrived
        /\ Passed = SubSeq(w, 0 + 1, q) /\ arrived \in Nat /\ arrived <= Len(w)
    BY <2>1, PassedFacts DEF PlainInv, BodyTypes, PlainScan
  <2>4. r \in Nat /\ Len(handed) \in Nat /\ q = r + Len(handed)
    BY <2>3, LenProperties, ConcatProperties DEF Passed
  <2>5. received = SubSeq(Passed, 1, r)
    BY <2>3, Parts DEF Passed
  <2> HIDE DEF w, q
  <2>6. /\ 0 \in Nat /\ 0 <= q /\ q <= Len(w) /\ 0 <= r /\ r <= q - 0 /\ 0 + 0 + 1 = 1 /\ 0 + r = r
        /\ 0 + 1 = 1
    BY <2>2, <2>3, <2>4
  <2>7. SubSeq(SubSeq(w, 0 + 1, q), 0 + 1, r) = SubSeq(w, 0 + 0 + 1, 0 + r)
    BY <2>2, <2>3, <2>4, <2>6, Windows
  <2>8. received = SubSeq(w, 1, r)
    BY <2>3, <2>5, <2>6, <2>7
  <2>9. ASSUME stream = "done"
        PROVE  received = w
    <3>1. handed = <<>> /\ q = Len(w) /\ Passed = received
      BY <2>1, <2>9, PassedFacts DEF PlainInv, BodyTypes, PlainScan, q, w
    <3>2. SubSeq(w, 1, Len(w)) = w
      <4>1. w \in Seq(Cell) => SubSeq(w, 1, Len(w)) = w
        BY SubSeqFull
      <4> QED BY <2>2, <4>1
    <3>3. r = Len(w)
      BY <3>1 DEF q
    <3> QED BY <2>8, <3>2, <3>3
  <2> QED BY <2>8, <2>9 DEF BodyPassed, w
<1> QED BY <1>1, <1>2, ReaderInit, PlainInit, ReaderInvariant, PTL DEF Spec
-----------------------------------------------------------------------------
\* The BlockBuffer, as what it lets one see.

BufferOK(b) ==
  /\ b \in [cells : Seq(Cell), from : Nat, to : Nat, size : Nat, generation : Nat]
  /\ b.from <= b.to /\ b.to <= Len(b.cells)

LEMMA ViewFacts ==
  ASSUME NEW b, BufferOK(b)
  PROVE  /\ b.cells \in Seq(Cell) /\ Len(b.cells) \in Nat /\ DOMAIN b.cells = 1 .. Len(b.cells)
         /\ b.from \in Nat /\ b.to \in Nat /\ Available(b) \in Nat /\ Available(b) = b.to - b.from
         /\ View(b) \in Seq(Cell) /\ Len(View(b)) = Available(b)
         /\ \A i \in 1 .. Available(b) : View(b)[i] = b.cells[b.from + i]
<1>1. b.cells \in Seq(Cell) /\ b.from \in Nat /\ b.to \in Nat /\ b.from <= b.to /\ b.to <= Len(b.cells)
  BY DEF BufferOK
<1>2. Len(b.cells) \in Nat /\ DOMAIN b.cells = 1 .. Len(b.cells)
  BY <1>1, LenProperties
<1>3. /\ SubSeq(b.cells, b.from + 1, b.to) \in Seq(Cell)
      /\ Len(SubSeq(b.cells, b.from + 1, b.to)) = b.to - b.from
      /\ \A i \in 1 .. b.to - b.from : SubSeq(b.cells, b.from + 1, b.to)[i] = b.cells[b.from + i]
  BY <1>1, Window
<1>4. b.to - b.from \in Nat
  BY <1>1
<1> QED BY <1>1, <1>2, <1>3, <1>4 DEF View, Available

\* Cells written one by one.
LEMMA Written ==
  ASSUME NEW cells \in Seq(Cell), NEW new, \A i \in 1 .. Len(cells) : new[i] \in Cell,
         new = [i \in 1 .. Len(cells) |-> new[i]]
  PROVE  new \in Seq(Cell) /\ Len(new) = Len(cells)
<1>1. Len(cells) \in Nat
  BY LenProperties
<1>2. [i \in 1 .. Len(cells) |-> new[i]] \in Seq(Cell)
  BY <1>1, IsASeq
<1>3. new \in Seq(Cell) /\ DOMAIN new = 1 .. Len(cells)
  BY <1>2
<1>4. Len(new) \in Nat /\ DOMAIN new = 1 .. Len(new)
  BY <1>3, LenProperties
<1>5. Len(new) = Len(cells)
  <2> DEFINE m == Len(cells)
             k == Len(new)
  <2>1. m \in Nat /\ k \in Nat /\ 1 .. k = 1 .. m
    BY <1>1, <1>3, <1>4
  <2> HIDE DEF m, k
  <2>2. k = m
    BY <2>1
  <2> QED BY <2>2 DEF m, k
<1> QED BY <1>3, <1>5

\* A blank stretch behind some bytes.
LEMMA BlankCells ==
  ASSUME NEW n \in Nat
  PROVE  Blank(n) \in Seq(Cell) /\ Len(Blank(n)) = n
<1>1. \A i \in 1 .. n : <<"-", 0>> \in Cell
  BY DEF Cell
<1>2. [i \in 1 .. n |-> <<"-", 0>>] \in Seq(Cell)
  BY <1>1, IsASeq
<1> QED BY <1>2 DEF Blank

\* Bytes moved to fresh memory that holds them.
LEMMA MovedView ==
  ASSUME NEW b, BufferOK(b), NEW bytes \in Seq(Cell), NEW capacity \in Nat, Len(bytes) <= capacity
  PROVE  /\ BufferOK(Moved(b, bytes, capacity)) /\ View(Moved(b, bytes, capacity)) = bytes
         /\ Moved(b, bytes, capacity).generation # b.generation
<1> DEFINE a == Moved(b, bytes, capacity)
           blank == Blank(capacity - Len(bytes))
           all == bytes \o blank
           last == Len(bytes)
           next == b.generation + 1
<1>1. last \in Nat /\ capacity - last \in Nat
  BY LenProperties
<1>2. blank \in Seq(Cell) /\ Len(blank) \in Nat
  BY <1>1, BlankCells, LenProperties
<1> HIDE DEF blank
<1>3. SubSeq(all, 1, last) = bytes /\ all \in Seq(Cell) /\ Len(all) = last + Len(blank)
  BY <1>2, Parts
<1>4. b \in [cells : Seq(Cell), from : Nat, to : Nat, size : Nat, generation : Nat]
  BY DEF BufferOK
<1>5. next \in Nat /\ next # b.generation
  BY <1>4
<1>6. a = [b EXCEPT !.cells = all, !.from = 0, !.to = last, !.generation = next]
  BY DEF Moved, blank
<1> HIDE DEF a, all, last, next
<1>7. a.cells = all /\ a.from = 0 /\ a.to = last /\ a.generation = next
  BY <1>4, <1>6
<1>8. a \in [cells : Seq(Cell), from : Nat, to : Nat, size : Nat, generation : Nat]
  BY <1>1, <1>3, <1>4, <1>5, <1>6
<1>9. a.from <= a.to /\ a.to <= Len(a.cells)
  BY <1>1, <1>2, <1>3, <1>7
<1>10. View(a) = bytes
  BY <1>3, <1>7 DEF View
<1> QED BY <1>5, <1>7, <1>8, <1>9, <1>10 DEF BufferOK, a

\* append() puts the chunk behind what there is, in the same memory or in larger.
LEMMA AppendedView ==
  ASSUME NEW b, BufferOK(b), NEW chunk \in Seq(Cell)
  PROVE  BufferOK(Appended(b, chunk)) /\ View(Appended(b, chunk)) = View(b) \o chunk
<1> DEFINE m == Len(chunk)
           n == Len(b.cells)
           a == Appended(b, chunk)
           bytes == View(b) \o chunk
<1>1. /\ b.cells \in Seq(Cell) /\ n \in Nat /\ b.from \in Nat /\ b.to \in Nat /\ m \in Nat
      /\ b.from <= b.to /\ b.to <= n /\ DOMAIN b.cells = 1 .. n
      /\ Available(b) \in Nat /\ Available(b) = b.to - b.from
      /\ View(b) \in Seq(Cell) /\ Len(View(b)) = Available(b)
      /\ \A i \in 1 .. Available(b) : View(b)[i] = b.cells[b.from + i]
  BY ViewFacts, LenProperties DEF BufferOK
<1>2. bytes \in Seq(Cell) /\ Len(bytes) = (b.to - b.from) + m
  BY <1>1, Parts
<1>3. CASE b.to + m > n
  <2> DEFINE size == Larger(2 * n, b.to + m)
  <2>1. a = Moved(b, bytes, size)
    BY <1>3 DEF Appended
  <2>2. size \in Nat /\ Len(bytes) <= size
    <3>1. size \in Nat /\ size >= b.to + m
      BY <1>1 DEF Larger
    <3> HIDE DEF size, bytes, m
    <3> QED BY <1>1, <1>2, <3>1, SMTT(60)
  <2> HIDE DEF size, bytes
  <2>3. BufferOK(Moved(b, bytes, size)) /\ View(Moved(b, bytes, size)) = bytes
    BY <1>2, <2>2, MovedView
  <2> QED BY <2>1, <2>3 DEF bytes
<1>4. CASE b.to + m <= n
  <2> DEFINE new == [i \in DOMAIN b.cells |-> IF i \in b.to + 1 .. b.to + m THEN chunk[i - b.to] ELSE b.cells[i]]
  <2>1. a = [b EXCEPT !.cells = new, !.to = b.to + m]
    <3>1. ~(b.to + m > n)
      BY <1>1, <1>4
    <3> QED BY <3>1 DEF Appended
  <2>2. \A i \in 1 .. n : new[i] = IF i \in b.to + 1 .. b.to + m THEN chunk[i - b.to] ELSE b.cells[i]
    BY <1>1
  <2>3. new = [i \in 1 .. n |-> new[i]]
    BY <1>1
  <2> HIDE DEF new
  <2>4. \A i \in 1 .. n : new[i] \in Cell
    <3> TAKE i \in 1 .. n
    <3>1. CASE i \in b.to + 1 .. b.to + m
      <4>1. i - b.to \in 1 .. m
        BY <1>1, <3>1
      <4> QED BY <2>2, <3>1, <4>1, ElementOfSeq
    <3>2. CASE i \notin b.to + 1 .. b.to + m
      BY <1>1, <2>2, <3>2, ElementOfSeq
    <3> QED BY <3>1, <3>2
  <2>5. new \in Seq(Cell) /\ Len(new) = n
    BY <1>1, <2>3, <2>4, Written
  <2>6. /\ a.cells = new /\ a.from = b.from /\ a.to = b.to + m /\ b.to + m \in Nat
        /\ a \in [cells : Seq(Cell), from : Nat, to : Nat, size : Nat, generation : Nat]
    <3> HIDE DEF a
    <3>1. b.to + m \in Nat
      BY <1>1
    <3> QED BY <2>1, <2>5, <3>1 DEF BufferOK
  <2> HIDE DEF a, m
  <2>7. a.from <= a.to /\ a.to <= Len(a.cells)
    BY <1>1, <1>4, <2>5, <2>6 DEF m
  <2>8. BufferOK(a)
    BY <2>6, <2>7 DEF BufferOK
  <2>9. /\ View(a) \in Seq(Cell) /\ Len(View(a)) = (b.to - b.from) + m
        /\ \A i \in 1 .. (b.to - b.from) + m : View(a)[i] = new[b.from + i]
    <3>1. (b.to + m) - b.from = (b.to - b.from) + m
      BY <1>1
    <3>2. /\ View(a) \in Seq(Cell) /\ Len(View(a)) = Available(a) /\ Available(a) = a.to - a.from
          /\ \A i \in 1 .. Available(a) : View(a)[i] = a.cells[a.from + i]
      BY <2>8, ViewFacts
    <3> QED BY <2>6, <3>1, <3>2
  <2>10. \A i \in 1 .. (b.to - b.from) + m : View(a)[i] = bytes[i]
    <3> TAKE i \in 1 .. (b.to - b.from) + m
    <3>1. b.from + i \in 1 .. n
      BY <1>1, <1>4, SMTT(60)
    <3>2. bytes[i] = IF i <= b.to - b.from THEN View(b)[i] ELSE chunk[i - (b.to - b.from)]
      <4>1. \A j \in 1 .. Len(View(b)) + Len(chunk) :
              (View(b) \o chunk)[j] = IF j <= Len(View(b)) THEN View(b)[j] ELSE chunk[j - Len(View(b))]
        BY <1>1, ConcatProperties
      <4> QED BY <1>1, <4>1 DEF m
    <3> HIDE DEF bytes
    <3>3. CASE i <= b.to - b.from
      <4>1. b.from + i \notin b.to + 1 .. b.to + m /\ i \in 1 .. b.to - b.from
        BY <1>1, <3>3, SMTT(60)
      <4>2. new[b.from + i] = b.cells[b.from + i]
        BY <2>2, <3>1, <4>1
      <4> QED BY <1>1, <2>9, <3>2, <3>3, <4>1, <4>2
    <3>4. CASE i > b.to - b.from
      <4> DEFINE f == b.from
                 t == b.to
      <4>0. f \in Nat /\ t \in Nat /\ m \in Nat /\ f <= t
            /\ i \in Nat /\ 1 <= i /\ i <= (t - f) + m /\ i > t - f
        BY <1>1, <3>4
      <4> HIDE DEF f, t
      <4>1. f + i \in t + 1 .. t + m /\ (f + i) - t = i - (t - f) /\ ~(i <= t - f)
        BY <4>0
      <4> USE DEF f, t
      <4>2. new[b.from + i] = chunk[(b.from + i) - b.to]
        BY <2>2, <3>1, <4>1
      <4> QED BY <2>9, <3>2, <4>1, <4>2
    <3>5. i <= b.to - b.from \/ i > b.to - b.from
      BY <1>1
    <3> QED BY <3>3, <3>4, <3>5
  <2>11. View(a) = bytes
    <3> HIDE DEF bytes
    <3> QED BY <1>2, <2>9, <2>10, SeqEqual DEF m
  <2> QED BY <2>8, <2>11 DEF a, bytes
<1>5. b.to + m > n \/ b.to + m <= n
  BY <1>1
<1> QED BY <1>3, <1>4, <1>5

\* consume() drops the first bytes, and may move the rest to the front.
LEMMA ConsumedView ==
  ASSUME NEW b, BufferOK(b), NEW n \in Nat, n <= Available(b)
  PROVE  /\ BufferOK(Consumed(b, n))
         /\ View(Consumed(b, n)) = SubSeq(View(b), n + 1, Available(b))
<1> DEFINE f == b.from
           t == b.to
           k == Len(b.cells)
           c == Consumed(b, n)
           behind == SubSeq(b.cells, (f + n) + 1, t)
<1>1. /\ b.cells \in Seq(Cell) /\ k \in Nat /\ f \in Nat /\ t \in Nat
      /\ f <= t /\ t <= k /\ DOMAIN b.cells = 1 .. k
      /\ Available(b) \in Nat /\ Available(b) = t - f
  BY ViewFacts DEF BufferOK
<1>2. f + n \in Nat /\ f + n <= t /\ n <= t - f /\ t - f \in Nat /\ t - f <= t - f /\ f + (t - f) = t
  <2> HIDE DEF f, t, k
  <2> QED BY <1>1
<1>3. /\ behind \in Seq(Cell) /\ Len(behind) = t - (f + n)
      /\ \A i \in 1 .. t - (f + n) : behind[i] = b.cells[(f + n) + i]
  <2> DEFINE cells == b.cells
             start == f + n
  <2>1. cells \in Seq(Cell) /\ start \in Nat /\ t \in Nat /\ start <= t /\ t <= Len(cells)
    BY <1>1, <1>2
  <2> HIDE DEF cells, start, t
  <2>2. /\ SubSeq(cells, start + 1, t) \in Seq(Cell)
        /\ Len(SubSeq(cells, start + 1, t)) = t - start
        /\ \A i \in 1 .. t - start : SubSeq(cells, start + 1, t)[i] = cells[start + i]
    BY <2>1, Window
  <2> QED BY <2>2 DEF cells, start
<1>4. SubSeq(View(b), n + 1, Available(b)) = behind
  <2>1. SubSeq(SubSeq(b.cells, f + 1, t), n + 1, t - f) = SubSeq(b.cells, f + n + 1, f + (t - f))
    <3> DEFINE cells == b.cells
               l == t - f
    <3>1. /\ cells \in Seq(Cell) /\ f \in Nat /\ t \in Nat /\ f <= t /\ t <= Len(cells)
          /\ l \in Nat /\ n <= l /\ l <= t - f
      BY <1>1, <1>2
    <3> HIDE DEF cells, f, t, l
    <3>2. SubSeq(SubSeq(cells, f + 1, t), n + 1, l) = SubSeq(cells, f + n + 1, f + l)
      BY <3>1, Windows
    <3> QED BY <3>2 DEF cells, l
  <2> QED BY <1>1, <1>2, <2>1 DEF View
<1>5. CASE 2 * (f + n) > k
  <2> DEFINE new == [i \in DOMAIN b.cells |-> IF i <= Len(behind) THEN behind[i] ELSE b.cells[i]]
             last == Len(behind)
  <2>1. c = [b EXCEPT !.cells = new, !.from = 0, !.to = last]
    BY <1>5 DEF Consumed
  <2>2. \A i \in 1 .. k : new[i] = IF i <= last THEN behind[i] ELSE b.cells[i]
    BY <1>1
  <2>3. new = [i \in 1 .. k |-> new[i]]
    BY <1>1
  <2>4. last \in Nat /\ last <= k
    <3> HIDE DEF f, t, k, behind
    <3> QED BY <1>1, <1>2, <1>3
  <2>5. \A i \in 1 .. last : behind[i] \in Cell
    BY <1>3, ElementOfSeq
  <2> HIDE DEF new, last
  <2>6. \A i \in 1 .. k : new[i] \in Cell
    <3> TAKE i \in 1 .. k
    <3>1. CASE i <= last
      <4>1. i \in 1 .. last
        BY <2>4, <3>1
      <4> QED BY <2>5, <2>2, <3>1, <4>1
    <3>2. CASE ~(i <= last)
      BY <1>1, <2>2, <3>2, ElementOfSeq
    <3> QED BY <3>1, <3>2
  <2>7. new \in Seq(Cell) /\ Len(new) = k
    BY <1>1, <2>3, <2>6, Written
  <2> HIDE DEF c, behind
  <2>8. /\ c.cells = new /\ c.from = 0 /\ c.to = last
        /\ c \in [cells : Seq(Cell), from : Nat, to : Nat, size : Nat, generation : Nat]
    <3>1. b \in [cells : Seq(Cell), from : Nat, to : Nat, size : Nat, generation : Nat]
      BY DEF BufferOK
    <3> QED BY <2>1, <2>4, <2>7, <3>1
  <2>9. BufferOK(c)
    <3>1. 0 <= last
      BY <2>4
    <3> QED BY <2>4, <2>7, <2>8, <3>1 DEF BufferOK
  <2>10. /\ View(c) \in Seq(Cell) /\ Len(View(c)) = last
        /\ \A i \in 1 .. last : View(c)[i] = new[i]
    <3>1. /\ View(c) \in Seq(Cell) /\ Len(View(c)) = Available(c) /\ Available(c) = c.to - c.from
          /\ \A i \in 1 .. Available(c) : View(c)[i] = c.cells[c.from + i]
      BY <2>9, ViewFacts
    <3>2. last - 0 = last /\ \A i \in 1 .. last : 0 + i = i
      BY <2>4
    <3> QED BY <2>8, <3>1, <3>2
  <2>11. \A i \in 1 .. last : View(c)[i] = behind[i]
    <3> TAKE i \in 1 .. last
    <3>1. i \in 1 .. k /\ i <= last
      BY <1>1, <2>4
    <3> QED BY <2>2, <2>10, <3>1
  <2>12. View(c) = behind
    BY <1>3, <2>10, <2>11, SeqEqual DEF last
  <2> QED BY <1>4, <2>9, <2>12 DEF c
<1>6. CASE ~(2 * (f + n) > k)
  <2> DEFINE start == f + n
  <2>1. c = [b EXCEPT !.from = start]
    BY <1>6 DEF Consumed
  <2> HIDE DEF c, start
  <2>2. /\ c.cells = b.cells /\ c.from = start /\ c.to = t
        /\ c \in [cells : Seq(Cell), from : Nat, to : Nat, size : Nat, generation : Nat]
    <3>1. b \in [cells : Seq(Cell), from : Nat, to : Nat, size : Nat, generation : Nat]
      BY DEF BufferOK
    <3>2. start \in Nat
      BY <1>2 DEF start
    <3> QED BY <2>1, <3>1, <3>2
  <2>3. BufferOK(c)
    BY <1>1, <1>2, <2>2 DEF BufferOK, start
  <2>4. View(c) = behind
    BY <2>2 DEF View, start
  <2> QED BY <1>4, <2>3, <2>4 DEF c
<1> QED BY <1>5, <1>6
-----------------------------------------------------------------------------
\* A compressed body.

\* A query that the server answers is the only call whose body is consumed.
GoodCall == Query /\ scenario.ok

\* What has been yielded ends where the c-th block begins in the output; no trailer is
\* in those before it, and the buffer holds what has come from its start on.
AllScanned == \A d \in 1 .. Len(response.content) : ~HasException(response.content[d])
AtBlock(buf, have, q, c, p) ==
  /\ p <= have /\ Follows(response, p + 1, c) /\ (GoodCall => q = scenario.places[c])
  /\ BufferOK(buf) /\ View(buf) = SubSeq(response.wire, p + 1, have)
  /\ \A d \in 1 .. c - 1 : ~HasException(response.content[d])
Scanned(buf, have, q) ==
  \E c \in 1 .. Len(response.content) + 1, p \in Nat : AtBlock(buf, have, q, c, p)

\* After q bytes comes a trailer, in a block, or beside the blocks when all are decoded.
Raised(q) ==
  \/ \E c \in 1 .. Len(response.content) : \E i \in Markers(response.content[c]) :
       GoodCall => q + 1 = scenario.places[c] + i
  \/ /\ \E i \in DOMAIN response.wire : IsFramedExceptionAt(response.wire, i)
     /\ GoodCall => q = scenario.places[Len(response.content) + 1]

OnItsBlocks == stream \in {"idle", "reading"} \/ (stream = "yielded" /\ after = "blocks")
Raising == stream = "exception" \/ (stream = "yielded" /\ after = "exception")
BlocksFound == response.compressed =>
  /\ BodyTypes
  /\ OnItsBlocks => Scanned(streamBuffer, arrived, Len(Passed))
  /\ stream = "yielded" => after \in {"blocks", "exception"}
  /\ stream = "done" => AllScanned
  /\ Raising => Raised(Len(Passed))
  /\ stream = "done" /\ GoodCall => Len(Passed) = scenario.places[Len(response.content) + 1]

LEMMA SameBlocks ==
  ASSUME response' = response, scenario' = scenario
  PROVE  /\ AllScanned' <=> AllScanned
         /\ \A buf, have, q : Scanned(buf, have, q)' <=> Scanned(buf, have, q)
         /\ GoodCall' <=> GoodCall
         /\ \A q : Raised(q)' <=> Raised(q)
<1>1. (AllScanned' <=> AllScanned) /\ (GoodCall' <=> GoodCall)
  BY SameTrailers DEF AllScanned, GoodCall, Query
<1>2. \A buf, have, q, c, p : AtBlock(buf, have, q, c, p)' <=> AtBlock(buf, have, q, c, p)
  BY SameTrailers DEF AtBlock, GoodCall, Query
<1>3. \A q : Raised(q)' <=> Raised(q)
  BY <1>1, SameTrailers DEF Raised
<1> QED BY <1>1, <1>2, <1>3 DEF Scanned

\* The bytes of the blocks are known by their beginnings.
LEMMA NextBegins ==
  ASSUME ReaderInv, response.compressed, NEW p \in Nat, NEW c \in 1 .. Len(response.content),
         Follows(response, p + 1, c)
  PROVE  /\ p + 1 <= Len(response.wire) /\ response.wire[p + 1] = <<"h", c>>
         /\ Len(response.content[c]) \in Nat
         /\ Follows(response, (p + (HeadBytes + Len(response.content[c]))) + 1, c + 1)
<1> DEFINE l == Len(response.content[c])
           k == Len(response.content)
<1>1. /\ IsResponse(response) /\ DOMAIN response.wire = 1 .. Len(response.wire)
      /\ DOMAIN response.content = 1 .. k
      /\ k \in Nat /\ response.content[c] \in Seq(Cell) /\ Len(response.wire) \in Nat
  BY WireFacts, LenProperties
<1>2. l \in Nat /\ HeadBytes \in Nat
  BY <1>1, LenProperties, TailAssumption
<1>3. Begins(response, p + 1, c)
  <2> HIDE DEF k
  <2>1. c <= k
    BY <1>1 DEF k
  <2> QED BY <2>1 DEF Follows, k
<1>4. p + 1 \in DOMAIN response.wire /\ response.wire[p + 1] = <<"h", c>>
  BY <1>3 DEF Begins
<1>5. Follows(response, p + 1 + HeadBytes + l, c + 1)
  BY <1>1, <1>3, <1>4 DEF IsResponse
<1> HIDE DEF l, k
<1>6. p + 1 + HeadBytes + l = (p + (HeadBytes + l)) + 1
  BY <1>2
<1>7. Follows(response, (p + (HeadBytes + l)) + 1, c + 1)
  BY <1>5, <1>6
<1>8. p + 1 <= Len(response.wire)
  BY <1>1, <1>4
<1> QED BY <1>2, <1>4, <1>7, <1>8 DEF l, k

\* A trailer at the head of the buffer stands on the wire, behind the last block.
LEMMA TrailerBeside ==
  ASSUME ReaderInv, response.compressed, NEW buf, NEW have \in Nat, have <= Len(response.wire),
         NEW q, Scanned(buf, have, q), IsFramedExceptionAt(View(buf), 1)
  PROVE  Raised(q)
<1> DEFINE w == response.wire
<1>1. PICK c \in 1 .. Len(response.content) + 1, p \in Nat : AtBlock(buf, have, q, c, p)
  BY DEF Scanned
<1>2. p <= have /\ Follows(response, p + 1, c) /\ View(buf) = SubSeq(w, p + 1, have)
      /\ (GoodCall => q = scenario.places[c])
  BY <1>1 DEF AtBlock
<1>3. w \in Seq(Cell) /\ Len(w) \in Nat /\ DOMAIN w = 1 .. Len(w) /\ Len(response.content) \in Nat
  BY WireFacts, LenProperties
<1> HIDE DEF w
<1>4. IsFramedExceptionAt(w, p + 1)
  <2>1. IsFramedExceptionAt(SubSeq(w, p + 1, have), 1) /\ have <= Len(w)
    BY <1>2 DEF w
  <2> QED BY <1>2, <1>3, <2>1, FoundStands
<1>5. p + 1 \in DOMAIN w /\ w[p + 1][1] = "m"
  BY <1>3, <1>4, TrailerPlace
<1>6. c = Len(response.content) + 1
  <2>1. SUFFICES ASSUME c \in 1 .. Len(response.content) PROVE FALSE
    BY <1>3
  <2>2. w[p + 1] = <<"h", c>>
    BY <1>2, <2>1, NextBegins DEF w
  <2> QED BY <1>5, <2>2
<1> QED BY <1>2, <1>4, <1>5, <1>6 DEF Raised, w

\* The loop over the blocks waits, ends, or decodes the block at hand.
BlockDecoded(buf, c) ==
  LET content == response.content[c]
  IN /\ ~(Available(buf) < HeadBytes + Len(content))
     /\ streamBuffer' = Consumed(buf, HeadBytes + Len(content))
     /\ \/ HasException(content) /\ Emit(BeforeException(content), "exception")
        \/ ~HasException(content) /\ YieldChunk(content, "blocks")

LEMMA BlockAtHand ==
  ASSUME ReaderInv, response.compressed, NEW buf, NEW have \in Nat, have <= Len(response.wire),
         NEW q, Scanned(buf, have, q), NextBlockOf(buf)
  PROVE  \/ /\ streamBuffer' = buf /\ handed' = <<>> /\ stream' \in {"reading", "exception", "error"}
            /\ stream' = "exception" => IsFramedExceptionAt(View(buf), 1)
         \/ \E c \in 1 .. Len(response.content), p \in Nat :
              AtBlock(buf, have, q, c, p) /\ BlockDecoded(buf, c)
<1> DEFINE w == response.wire
           bytes == View(buf)
           content == response.content[bytes[1][2]]
           n == BlockBytes(bytes)
<1> DEFINE Ends == Go("reading") \/ (Go("exception") /\ IsFramedExceptionAt(bytes, 1)) \/ Go("error")
<1>1. \/ streamBuffer' = buf /\ Ends
      \/ /\ ~(Available(buf) < HeadBytes) /\ IsHead(bytes) /\ ~(Available(buf) < n)
         /\ streamBuffer' = Consumed(buf, n)
         /\ \/ HasException(content) /\ Emit(BeforeException(content), "exception")
            \/ ~HasException(content) /\ YieldChunk(content, "blocks")
  BY DEF NextBlockOf
<1>2. CASE streamBuffer' = buf /\ Ends
  BY <1>2 DEF Go
<1>3. CASE /\ ~(Available(buf) < HeadBytes) /\ IsHead(bytes) /\ ~(Available(buf) < n)
           /\ streamBuffer' = Consumed(buf, n)
           /\ \/ HasException(content) /\ Emit(BeforeException(content), "exception")
              \/ ~HasException(content) /\ YieldChunk(content, "blocks")
  <2>1. PICK c \in 1 .. Len(response.content) + 1, p \in Nat : AtBlock(buf, have, q, c, p)
    BY DEF Scanned
  <2>2. p <= have /\ Follows(response, p + 1, c) /\ BufferOK(buf) /\ bytes = SubSeq(w, p + 1, have)
    BY <2>1 DEF AtBlock
  <2>3. w \in Seq(Cell) /\ Len(w) \in Nat /\ DOMAIN w = 1 .. Len(w) /\ Len(response.content) \in Nat
    BY WireFacts, LenProperties
  <2>4. Available(buf) = have - p /\ \A i \in 1 .. have - p : bytes[i] = w[p + i]
    BY <2>2, <2>3, Window, ViewFacts
  <2>5. 1 \in 1 .. have - p /\ p + 1 \in 1 .. Len(w)
    <3>1. HeadBytes \in Nat \ {0}
      BY TailAssumption
    <3> QED BY <1>3, <2>2, <2>3, <2>4, <3>1
  <2>6. bytes[1] = w[p + 1]
    BY <2>4, <2>5
  <2>7. c \in 1 .. Len(response.content)
    <3>1. SUFFICES ASSUME c > Len(response.content) PROVE FALSE
      BY <2>3
    <3>2. w[p + 1][1] # "h"
      BY <2>2, <2>3, <2>5, <3>1 DEF Follows
    <3> QED BY <1>3, <2>6, <3>2 DEF IsHead
  <2>8. bytes[1] = <<"h", c>>
    BY <2>2, <2>6, <2>7, NextBegins
  <2>9. content = response.content[c] /\ n = HeadBytes + Len(response.content[c])
    BY <2>8 DEF BlockBytes
  <2> HIDE DEF content, n
  <2>10. BlockDecoded(buf, c)
    BY <1>3, <2>9 DEF BlockDecoded
  <2> QED BY <2>1, <2>7, <2>10
<1> QED BY <1>1, <1>2, <1>3

\* Behind a block that is decoded stands the next.
LEMMA BlockBehind ==
  ASSUME ReaderInv, response.compressed, NEW buf, NEW have \in Nat, have <= Len(response.wire),
         NEW q \in Nat, NEW c \in 1 .. Len(response.content), NEW p \in Nat,
         AtBlock(buf, have, q, c, p), BlockDecoded(buf, c), ~HasException(response.content[c])
  PROVE  Scanned(streamBuffer', have, q + Len(response.content[c]))
<1> DEFINE w == response.wire
           bytes == View(buf)
           k == Len(response.content[c])
           n == HeadBytes + k
           next == p + n
<1>1. /\ p <= have /\ Follows(response, p + 1, c) /\ (GoodCall => q = scenario.places[c])
      /\ BufferOK(buf) /\ bytes = SubSeq(w, p + 1, have)
      /\ \A d \in 1 .. c - 1 : ~HasException(response.content[d])
  BY DEF AtBlock
<1>2. /\ w \in Seq(Cell) /\ Len(w) \in Nat /\ Len(response.content) \in Nat
      /\ DOMAIN response.content = 1 .. Len(response.content)
  BY WireFacts
<1>3. k \in Nat /\ HeadBytes \in Nat /\ Follows(response, next + 1, c + 1)
  BY <1>1, NextBegins, TailAssumption
<1>4. Len(bytes) = have - p /\ Available(buf) = have - p
  BY <1>1, <1>2, Window, ViewFacts
<1>5. ~(have - p < n) /\ streamBuffer' = Consumed(buf, n)
  BY <1>4 DEF BlockDecoded
<1> HIDE DEF k
<1>6. n \in Nat /\ n <= have - p /\ have - p \in Nat /\ have - p <= have - p /\ p + (have - p) = have
      /\ next \in Nat /\ next <= have
  BY <1>1, <1>3, <1>5
<1> HIDE DEF n
<1>7. BufferOK(streamBuffer') /\ View(streamBuffer') = SubSeq(bytes, n + 1, have - p)
  BY <1>1, <1>4, <1>5, <1>6, ConsumedView DEF bytes
<1>8. SubSeq(bytes, n + 1, have - p) = SubSeq(w, next + 1, have)
  <2> DEFINE l == have - p
  <2>1. n <= l /\ l \in Nat /\ l <= have - p /\ p + l = have
    BY <1>6
  <2> HIDE DEF l, w
  <2>2. SubSeq(SubSeq(w, p + 1, have), n + 1, l) = SubSeq(w, p + n + 1, p + l)
    BY <1>1, <1>2, <1>6, <2>1, Windows DEF w
  <2> QED BY <1>1, <2>1, <2>2 DEF l
<1>9. \A d \in 1 .. c : ~HasException(response.content[d])
  <2>1. \A d \in 1 .. c : d = c \/ d \in 1 .. c - 1
    OBVIOUS
  <2> QED BY <1>1, <2>1
<1>10. c + 1 \in 1 .. Len(response.content) + 1 /\ (c + 1) - 1 = c
  BY <1>2
<1>11. GoodCall => q + k = scenario.places[c + 1]
  <2>1. SUFFICES ASSUME GoodCall PROVE q + k = scenario.places[c + 1]
    OBVIOUS
  <2>2. IsOutput(scenario, response)
    BY <2>1, OutputAssumption DEF GoodCall, Query, ReaderInv, ReaderTypes
  <2>3. scenario.places[c + 1] = scenario.places[c] + k
    BY <1>2, <2>2 DEF IsOutput, k
  <2> QED BY <1>1, <2>1, <2>3
<1> HIDE DEF next
<1>12. AtBlock(streamBuffer', have, q + k, c + 1, next)
  BY <1>3, <1>6, <1>7, <1>8, <1>9, <1>10, <1>11 DEF AtBlock, w
<1> QED BY <1>6, <1>10, <1>12 DEF Scanned, k

LEMMA BlocksLookedAt ==
  ASSUME ReaderInv, response.compressed, response' = response, scenario' = scenario,
         received' = received, received \in Seq(Cell), handed = <<>>,
         NEW buf, NEW have \in Nat, have <= Len(response.wire), arrived' = have,
         Scanned(buf, have, Len(received)), NextBlockOf(buf)
  PROVE  BlocksFound'
<1>1. /\ AllScanned' <=> AllScanned
      /\ \A b, h, q : Scanned(b, h, q)' <=> Scanned(b, h, q)
      /\ \A q : Raised(q)' <=> Raised(q)
  BY SameBlocks
<1>2. /\ have <= Len(response'.wire) /\ received' \in Seq(Cell) /\ <<>> \in Seq(Cell)
      /\ Len(received) \in Nat
  BY EmptySeq, LenProperties
<1>3. CASE /\ streamBuffer' = buf /\ handed' = <<>> /\ stream' \in {"reading", "exception", "error"}
           /\ stream' = "exception" => IsFramedExceptionAt(View(buf), 1)
  <2>1. Passed' = received
    BY <1>3, ConcatEmptySeq DEF Passed
  <2>2. Scanned(streamBuffer', arrived', Len(Passed'))
    BY <1>3, <2>1
  <2>3. Scanned(streamBuffer, arrived, Len(Passed))'
    BY <1>1, <2>2
  <2>4. BodyTypes'
    BY <1>2, <1>3 DEF BodyTypes
  <2>5. stream' = "exception" => Raised(Len(Passed'))
    BY <1>3, <2>1, TrailerBeside
  <2>6. (Raising => Raised(Len(Passed)))'
    BY <1>1, <1>3, <2>5 DEF Raising
  <2> QED BY <1>3, <2>3, <2>4, <2>6 DEF BlocksFound
<1>4. ASSUME NEW c \in 1 .. Len(response.content), NEW p \in Nat,
             AtBlock(buf, have, Len(received), c, p), BlockDecoded(buf, c)
      PROVE  BlocksFound'
  <2> DEFINE content == response.content[c]
  <2>1. content \in Seq(Cell)
    BY WireFacts
  <2>2. CASE HasException(content) /\ Emit(BeforeException(content), "exception")
    <3>1. BeforeException(content) \in Seq(Cell)
      BY <2>1, <2>2, MarkerFacts
    <3>2. /\ handed' \in Seq(Cell)
          /\ (stream' = "exception" /\ handed' = <<>>) \/ (stream' = "yielded" /\ after' = "exception")
      BY <1>2, <2>2, <3>1 DEF Emit, Go, YieldChunk
    <3>3. BodyTypes'
      BY <1>2, <3>2 DEF BodyTypes
    <3>4. handed' = BeforeException(content)
      BY <2>2 DEF Emit, Go, YieldChunk
    <3> DEFINE m == ExceptionMarker(content)
    <3>5. m \in 1 .. Len(content) /\ m \in Markers(content) /\ Len(BeforeException(content)) = m - 1
      BY <2>1, <2>2, MarkerFacts
    <3>6. Len(Passed') = Len(received) + (m - 1)
      <4> HIDE DEF content, m
      <4> QED BY <1>2, <3>1, <3>4, <3>5, Parts DEF Passed
    <3>7. GoodCall => Len(received) = scenario.places[c]
      BY <1>4 DEF AtBlock
    <3>8. (Len(received) + (m - 1)) + 1 = Len(received) + m
      <4>1. Len(content) \in Nat
        BY <2>1, LenProperties
      <4> HIDE DEF content, m
      <4> QED BY <1>2, <3>5, <4>1
    <3> HIDE DEF m
    <3>9. GoodCall => Len(Passed') + 1 = scenario.places[c] + m
      BY <3>6, <3>7, <3>8
    <3>10. Raised(Len(Passed'))
      BY <3>5, <3>9 DEF Raised
    <3>11. Raised(Len(Passed))'
      BY <1>1, <3>10
    <3> QED BY <3>2, <3>3, <3>11 DEF BlocksFound, OnItsBlocks
  <2>3. CASE ~HasException(content) /\ YieldChunk(content, "blocks")
    <3>1. stream' = "yielded" /\ after' = "blocks" /\ handed' = content
      BY <2>3 DEF YieldChunk
    <3>2. Len(Passed') = Len(received) + Len(content)
      <4> HIDE DEF content
      <4> QED BY <2>1, <3>1, Parts DEF Passed
    <3>3. Scanned(streamBuffer', have, Len(received) + Len(content))
      BY <1>2, <1>4, <2>3, BlockBehind
    <3>4. Scanned(streamBuffer, arrived, Len(Passed))'
      BY <1>1, <3>2, <3>3
    <3> HIDE DEF content
    <3>5. BodyTypes'
      BY <1>2, <2>1, <3>1 DEF BodyTypes
    <3> QED BY <3>1, <3>4, <3>5 DEF BlocksFound, Raising
  <2> QED BY <1>4, <2>2, <2>3 DEF BlockDecoded
<1> QED BY <1>3, <1>4, BlockAtHand

\* While createStream does not wait for its chunk to be taken, the application has
\* what it has yielded.
LEMMA TakenSoFar ==
  ASSUME ReaderInv, BodyTypes
  PROVE  /\ Passed \in Seq(Cell) /\ Len(Passed) \in Nat
         /\ handed = <<>> => Passed = received /\ Len(Passed) = Len(received)
<1>1. received \in Seq(Cell) /\ handed \in Seq(Cell)
  BY DEF BodyTypes
<1>2. Passed \in Seq(Cell)
  BY <1>1, ConcatProperties DEF Passed
<1>3. handed = <<>> => Passed = received
  BY <1>1, ConcatEmptySeq DEF Passed
<1> QED BY <1>2, <1>3, LenProperties

\* What has been read is put behind what the buffer holds.
LEMMA BlocksRead ==
  ASSUME ReaderInv, BlocksFound, response.compressed, NEW n \in Nat, ReadChunk(n)
  PROVE  /\ arrived + n \in Nat /\ arrived + n <= Len(response.wire) /\ arrived' = arrived + n
         /\ handed = <<>> /\ received \in Seq(Cell)
         /\ \E buf : NextBlockOf(buf) /\ Scanned(buf, arrived + n, Len(received))
<1> DEFINE w == response.wire
           b == arrived + n
           chunk == SubSeq(w, arrived + 1, b)
           buf == Appended(streamBuffer, chunk)
<1>1. /\ stream = "reading" /\ b <= Len(w) /\ arrived' = b /\ response' = response
      /\ NextBlockOf(buf)
  BY DEF ReadChunk
<1>2. /\ arrived \in Nat /\ arrived <= b /\ b \in Nat /\ handed = <<>> /\ received \in Seq(Cell)
      /\ Scanned(streamBuffer, arrived, Len(Passed))
  BY <1>1 DEF BlocksFound, OnItsBlocks, BodyTypes
<1>3. w \in Seq(Cell) /\ Len(w) \in Nat
  BY WireFacts
<1>4. PICK c \in 1 .. Len(response.content) + 1, p \in Nat :
        AtBlock(streamBuffer, arrived, Len(Passed), c, p)
  BY <1>2 DEF Scanned
<1>5. AtBlock(buf, b, Len(Passed), c, p)
  <2>1. /\ p <= arrived /\ Follows(response, p + 1, c) /\ (GoodCall => Len(Passed) = scenario.places[c])
        /\ BufferOK(streamBuffer) /\ View(streamBuffer) = SubSeq(w, p + 1, arrived)
        /\ \A d \in 1 .. c - 1 : ~HasException(response.content[d])
    BY <1>4 DEF AtBlock
  <2> HIDE DEF w, b
  <2>2. chunk \in Seq(Cell)
    BY <1>1, <1>2, <1>3, Window
  <2> HIDE DEF chunk
  <2>3. BufferOK(buf) /\ View(buf) = View(streamBuffer) \o chunk
    BY <2>1, <2>2, AppendedView
  <2>4. SubSeq(w, p + 1, arrived) \o chunk = SubSeq(w, p + 1, b)
    BY <1>1, <1>2, <1>3, <2>1, Adjacent, ZenonT(60) DEF chunk
  <2>5. p <= b
    BY <1>2, <2>1
  <2> HIDE DEF buf
  <2> QED BY <2>1, <2>3, <2>4, <2>5 DEF AtBlock, w
<1>6. Len(Passed) = Len(received)
  BY <1>2, TakenSoFar DEF BlocksFound
<1> HIDE DEF buf
<1>7. Scanned(buf, b, Len(received))
  BY <1>5, <1>6 DEF Scanned
<1> QED BY <1>1, <1>2, <1>7

\* At the end, bytes that are left over are never a whole body.
LEMMA BlocksEnd ==
  ASSUME ReaderInv, BlocksFound, response.compressed, ReadEnd, scenario' = scenario,
         received' = received
  PROVE  BlocksFound'
<1> DEFINE w == response.wire
<1>1. /\ stream = "reading" /\ arrived = Len(w) /\ arrived' = arrived /\ response' = response
      /\ Leftover
  BY DEF ReadEnd
<1>2. /\ Scanned(streamBuffer, arrived, Len(Passed)) /\ BodyTypes
      /\ \E c \in 1 .. Len(response.content) + 1, p \in Nat :
           AtBlock(streamBuffer, arrived, Len(Passed), c, p)
  BY <1>1 DEF BlocksFound, OnItsBlocks, Scanned
<1>3. w \in Seq(Cell) /\ Len(w) \in Nat /\ Len(response.content) \in Nat
  BY WireFacts
<1>4. BodyTypes'
  <2>1. handed' = <<>>
    BY <1>1 DEF Leftover, Go
  <2> QED BY <1>1, <1>2, <2>1, EmptySeq DEF BodyTypes
<1>5. CASE stream' \in {"exception", "error"}
  <2>1. stream' = "exception" => IsFramedExceptionAt(View(streamBuffer), 1)
    BY <1>1 DEF Leftover, Go
  <2>2. Passed' = Passed
    BY <1>1, <1>2, <1>4, <1>5 DEF BodyTypes, Passed
  <2>3. arrived \in Nat /\ arrived <= Len(response.wire)
    BY <1>2 DEF BodyTypes
  <2>4. stream' = "exception" => Raised(Len(Passed'))
    BY <1>2, <2>1, <2>2, <2>3, TrailerBeside
  <2>5. (Raising => Raised(Len(Passed)))'
    BY <1>1, <1>5, <2>4, SameBlocks DEF Raising
  <2> QED BY <1>4, <1>5, <2>5 DEF BlocksFound, OnItsBlocks
<1>6. CASE Available(streamBuffer) = 0 /\ stream' = "done"
  <2>1. PICK c \in 1 .. Len(response.content) + 1, p \in Nat :
          AtBlock(streamBuffer, arrived, Len(Passed), c, p)
    BY <1>2
  <2>2. /\ p <= Len(w) /\ BufferOK(streamBuffer) /\ View(streamBuffer) = SubSeq(w, p + 1, Len(w))
        /\ Follows(response, p + 1, c) /\ (GoodCall => Len(Passed) = scenario.places[c])
        /\ \A d \in 1 .. c - 1 : ~HasException(response.content[d])
    BY <1>1, <2>1 DEF AtBlock
  <2>3. ~(c \in 1 .. Len(response.content))
    <3>1. SUFFICES ASSUME c \in 1 .. Len(response.content) PROVE FALSE
      OBVIOUS
    <3>2. p + 1 <= Len(w)
      BY <2>2, <3>1, NextBegins
    <3> HIDE DEF w
    <3>3. Len(View(streamBuffer)) = Len(w) - p
      <4>1. Len(w) <= Len(w)
        BY <1>3
      <4> QED BY <1>3, <2>2, <4>1, Window
    <3>4. Len(View(streamBuffer)) = 0
      BY <1>6, <2>2, ViewFacts
    <3> QED BY <1>3, <3>2, <3>3, <3>4
  <2>4. c - 1 = Len(response.content) /\ c = Len(response.content) + 1
    BY <1>3, <2>3
  <2>5. AllScanned
    BY <2>2, <2>4 DEF AllScanned
  <2>6. AllScanned' /\ (GoodCall' <=> GoodCall)
    BY <1>1, <2>5, SameBlocks
  <2>7. handed = <<>> /\ handed' = <<>>
    BY <1>1, <1>2, <1>6, <1>4 DEF BodyTypes
  <2>8. Passed' = Passed
    BY <2>7 DEF Passed
  <2>9. GoodCall' => Len(Passed') = scenario'.places[Len(response'.content) + 1]
    BY <1>1, <2>2, <2>4, <2>6, <2>8
  <2> QED BY <1>4, <1>6, <2>6, <2>9 DEF BlocksFound, OnItsBlocks, Raising
<1>7. stream' \in {"exception", "error"} \/ (Available(streamBuffer) = 0 /\ stream' = "done")
  BY <1>1 DEF Leftover, Go
<1> QED BY <1>5, <1>6, <1>7

\* What is yielded is received as it is.
LEMMA TakePasses ==
  ASSUME BodyTypes, Take
  PROVE  /\ Passed' = Passed /\ received' \in Seq(Cell) /\ handed' \in Seq(Cell) /\ handed' = <<>>
         /\ stream = "yielded" /\ UNCHANGED <<response, arrived, stream, after, pending, streamBuffer>>
<1>1. /\ stream = "yielded" /\ handed' = <<>> /\ received' = received \o handed
      /\ UNCHANGED <<response, arrived, stream, after, pending, streamBuffer>>
  BY DEF Take, Taken
<1>2. received \o handed \in Seq(Cell) /\ (received \o handed) \o <<>> = received \o handed
  BY ConcatProperties, ConcatEmptySeq DEF BodyTypes
<1> QED BY <1>1, <1>2, EmptySeq DEF Passed

LEMMA BlocksFoundStep ==
  ASSUME ReaderInv, BlocksFound, [Next]_vars
  PROVE  BlocksFound'
<1>1. SUFFICES ASSUME response.compressed' PROVE BlocksFound'
  BY DEF BlocksFound
<1>2. response' = response /\ response.compressed /\ scenario' = scenario /\ BodyTypes
  <2>1. ReaderInv' /\ UNCHANGED scenario
    BY ReaderStep, ScenarioStands
  <2>2. response' = response
    BY <2>1 DEF ReaderInv, ReaderTypes
  <2> QED BY <1>1, <2>1, <2>2 DEF BlocksFound
<1>3. /\ AllScanned' <=> AllScanned
      /\ \A buf, have, q : Scanned(buf, have, q)' <=> Scanned(buf, have, q)
      /\ GoodCall' <=> GoodCall
      /\ \A q : Raised(q)' <=> Raised(q)
  BY <1>2, SameBlocks
<1>4. CASE BodyReads
  <2>1. PICK n \in ChunkSizes : ReadChunk(n) /\ received' = received
    BY <1>4 DEF BodyReads, BodyStep, resultVars
  <2>2. n \in Nat
    BY <2>1, InsertAssumption
  <2> DEFINE b == arrived + n
  <2>3. /\ b \in Nat /\ b <= Len(response.wire) /\ arrived' = b /\ handed = <<>> /\ received \in Seq(Cell)
        /\ \E buf : NextBlockOf(buf) /\ Scanned(buf, b, Len(received))
    BY <1>2, <2>1, <2>2, BlocksRead
  <2> HIDE DEF b
  <2> QED BY <1>2, <2>1, <2>3, BlocksLookedAt
<1>5. CASE BodyEnds
  BY <1>2, <1>5, BlocksEnd DEF BodyEnds, BodyStep, resultVars
<1>6. CASE BodyOpens \/ BodyFails
  <2>1. /\ UNCHANGED <<arrived, after, streamBuffer, received>> /\ handed' = <<>>
        /\ \/ stream' = "error" /\ stream = "reading"
           \/ stream' = "reading" /\ stream = "idle"
    BY <1>6 DEF BodyOpens, BodyFails, BodyStep, Open, ReadFails, Go, resultVars
  <2>2. handed = <<>> /\ BodyTypes'
    BY <1>2, <2>1 DEF BodyTypes
  <2>3. Passed' = Passed
    BY <2>1, <2>2 DEF Passed
  <2>4. Scanned(streamBuffer, arrived, Len(Passed))' <=> Scanned(streamBuffer, arrived, Len(Passed))
    BY <1>3, <2>1, <2>3
  <2> QED BY <1>2, <2>1, <2>2, <2>4 DEF BlocksFound, OnItsBlocks, Raising
<1>7. CASE BodyResumes
  <2>1. /\ stream = "yielded" /\ arrived' = arrived /\ arrived \in Nat /\ arrived <= Len(response.wire)
        /\ after \in {"blocks", "exception"} /\ handed = <<>> /\ received' = received
        /\ received \in Seq(Cell)
    BY <1>2, <1>7 DEF BodyResumes, BodyStep, Resume, BlocksFound, BodyTypes, resultVars
  <2>2. CASE after = "blocks"
    <3>1. Scanned(streamBuffer, arrived, Len(Passed)) /\ NextBlockOf(streamBuffer)
      BY <1>2, <1>7, <2>1, <2>2 DEF BodyResumes, BodyStep, Resume, BlocksFound, OnItsBlocks
    <3>2. Len(Passed) = Len(received)
      BY <1>2, <2>1, TakenSoFar
    <3> QED BY <1>2, <2>1, <3>1, <3>2, BlocksLookedAt
  <2>3. CASE after = "exception"
    <3>1. stream' = "exception" /\ handed' = <<>>
      BY <1>7, <2>3 DEF BodyResumes, BodyStep, Resume, Go
    <3>2. BodyTypes'
      BY <1>2, <2>1, <3>1, EmptySeq DEF BodyTypes
    <3>3. Passed' = Passed
      BY <2>1, <3>1 DEF Passed
    <3>4. Raised(Len(Passed'))
      BY <1>2, <2>1, <2>3, <3>3 DEF BlocksFound, Raising
    <3>5. Raised(Len(Passed))'
      BY <1>3, <3>4
    <3> QED BY <3>1, <3>2, <3>5 DEF BlocksFound, OnItsBlocks
  <2> QED BY <2>1, <2>2, <2>3
<1>8. CASE Take \/ UNCHANGED <<bodyVars, received>>
  <2>1. UNCHANGED <<response, arrived, stream, after, streamBuffer>> /\ Passed' = Passed /\ BodyTypes'
    <3>1. CASE Take
      BY <1>2, <3>1, TakePasses DEF BodyTypes
    <3>2. CASE UNCHANGED <<bodyVars, received>>
      BY <1>2, <3>2 DEF bodyVars, BodyTypes, Passed
    <3> QED BY <1>8, <3>1, <3>2
  <2>2. Scanned(streamBuffer, arrived, Len(Passed))' <=> Scanned(streamBuffer, arrived, Len(Passed))
    BY <1>3, <2>1
  <2>3. (Raising => Raised(Len(Passed)))' <=> (Raising => Raised(Len(Passed)))
    BY <1>3, <2>1 DEF Raising
  <2> QED BY <1>2, <1>3, <2>1, <2>2, <2>3 DEF BlocksFound, OnItsBlocks
<1>9. CASE PacketThrows \/ LineThrows \/ Abandon
  <2>1. \/ stream' = "returned" /\ UNCHANGED <<arrived, handed, received>>
        \/ UNCHANGED <<bodyVars, received>>
    BY <1>9 DEF PacketThrows, LineThrows, Abandon, Leave, Return, resultVars
  <2>2. CASE stream' = "returned" /\ UNCHANGED <<arrived, handed, received>>
    BY <1>2, <2>2 DEF BlocksFound, OnItsBlocks, BodyTypes, Raising
  <2> QED BY <1>8, <2>1, <2>2
<1> QED BY <1>4, <1>5, <1>6, <1>7, <1>8, <1>9, OtherSteps

LEMMA FreshBuffer ==
  ASSUME NEW n \in Nat
  PROVE  BufferOK(Fresh(n)) /\ View(Fresh(n)) = <<>>
<1>1. Blank(n) \in Seq(Cell) /\ Len(Blank(n)) = n
  BY BlankCells
<1>2. SubSeq(Blank(n), 0 + 1, 0) = <<>>
  BY SubSeqEmpty
<1>3. 0 <= 0 /\ 0 <= n
  OBVIOUS
<1> QED BY <1>1, <1>2, <1>3 DEF Fresh, BufferOK, View

LEMMA BlocksFoundInit ==
  ASSUME Init
  PROVE  BlocksFound
<1>1. ReaderInv
  BY ReaderInit
<1>2. /\ IsResponse(response) /\ Len(response.wire) \in Nat /\ Len(response.content) \in Nat
  BY <1>1, WireFacts
<1>3. /\ arrived = 0 /\ stream = "idle" /\ streamBuffer = Fresh(BufferBytes)
      /\ received = <<>> /\ handed = <<>>
  BY DEF Init, BodyInit
<1>4. BodyTypes
  BY <1>2, <1>3, EmptySeq DEF BodyTypes
<1>5. Len(Passed) = 0
  BY <1>1, <1>3, <1>4, TakenSoFar, EmptySeq
<1>6. ASSUME response.compressed
      PROVE  Scanned(streamBuffer, arrived, Len(Passed))
  <2>1. 1 \in 1 .. Len(response.content) + 1 /\ 0 + 1 = 1 /\ 0 <= 0
        /\ \A d \in 1 .. 1 - 1 : ~HasException(response.content[d])
    BY <1>2
  <2>2. Follows(response, 0 + 1, 1)
    BY <1>2, <1>6, <2>1 DEF IsResponse
  <2>3. SubSeq(response.wire, 0 + 1, 0) = <<>>
    BY SubSeqEmpty
  <2>4. BufferOK(streamBuffer) /\ View(streamBuffer) = <<>>
    BY <1>3, FreshBuffer, TailAssumption
  <2>5. GoodCall => Len(Passed) = scenario.places[1]
    <3>1. SUFFICES ASSUME GoodCall PROVE scenario.places[1] = 0
      BY <1>5
    <3>2. IsOutput(scenario, response)
      BY <1>1, <3>1, OutputAssumption DEF GoodCall, Query, ReaderInv, ReaderTypes
    <3> QED BY <1>6, <3>2 DEF IsOutput
  <2>6. AtBlock(streamBuffer, arrived, Len(Passed), 1, 0)
    BY <1>3, <2>1, <2>2, <2>3, <2>4, <2>5 DEF AtBlock
  <2> QED BY <2>1, <2>6 DEF Scanned
<1> QED BY <1>3, <1>4, <1>6 DEF BlocksFound, Raising
-----------------------------------------------------------------------------
\* A framed body that is not compressed is passed on unseen.
FramesPass == ~response.compressed /\ response.framing =>
  /\ BodyTypes /\ Passed = SubSeq(response.wire, 0 + 1, arrived)
  /\ stream # "exception"
  /\ stream = "yielded" => after = "reading"
  /\ stream = "done" => arrived = Len(response.wire)

LEMMA FramesRead ==
  ASSUME ReaderInv, FramesPass, ~response.compressed, response.framing, NEW n \in Nat, ReadChunk(n),
         received' = received
  PROVE  FramesPass'
<1> DEFINE w == response.wire
           b == arrived + n
<1>1. /\ stream = "reading" /\ b <= Len(w) /\ arrived' = b /\ response' = response
      /\ Emit(SubSeq(w, arrived + 1, b), "reading")
  BY DEF ReadChunk
<1>2. w \in Seq(Cell) /\ Len(w) \in Nat
  BY WireFacts
<1>3. arrived \in Nat /\ b \in Nat /\ arrived <= b /\ handed = <<>> /\ BodyTypes
  BY <1>1 DEF FramesPass, BodyTypes
<1>4. received = SubSeq(w, 0 + 1, arrived)
  BY <1>3, TakenSoFar DEF FramesPass
<1> HIDE DEF w, b
<1>5. /\ Passed' = SubSeq(w, 0 + 1, b)
      /\ received' \in Seq(Cell) /\ handed' \in Seq(Cell)
      /\ (stream' = "reading" /\ handed' = <<>>) \/ (stream' = "yielded" /\ after' = "reading")
  BY <1>1, <1>2, <1>3, <1>4, EmitPasses
<1> QED BY <1>1, <1>3, <1>5 DEF FramesPass, BodyTypes, w

LEMMA FramesStep ==
  ASSUME ReaderInv, FramesPass, [Next]_vars
  PROVE  FramesPass'
<1>1. SUFFICES ASSUME ~response.compressed', response.framing' PROVE FramesPass'
  BY DEF FramesPass
<1>2. response' = response /\ ~response.compressed /\ response.framing /\ BodyTypes
  <2>1. ReaderInv' /\ UNCHANGED scenario
    BY ReaderStep, ScenarioStands
  <2>2. response' = response
    BY <2>1 DEF ReaderInv, ReaderTypes
  <2> QED BY <1>1, <2>2 DEF FramesPass
<1>3. CASE BodyReads
  <2>1. PICK n \in ChunkSizes : ReadChunk(n) /\ received' = received
    BY <1>3 DEF BodyReads, BodyStep, resultVars
  <2>2. n \in Nat
    BY <2>1, InsertAssumption
  <2> QED BY <1>2, <2>1, <2>2, FramesRead
<1>4. CASE BodyOpens \/ BodyEnds \/ BodyFails \/ BodyResumes
  <2>1. /\ UNCHANGED <<arrived, received>> /\ handed' = <<>> /\ handed = <<>>
        /\ stream' \in {"reading", "error"} \/ (stream' = "done" /\ arrived = Len(response.wire))
    BY <1>2, <1>4 DEF FramesPass, BodyTypes, BodyOpens, BodyEnds, BodyFails, BodyResumes, BodyStep,
       Open, ReadEnd, ReadFails, Resume, Go, resultVars
  <2>2. Passed' = Passed
    BY <2>1 DEF Passed
  <2>3. BodyTypes'
    BY <1>2, <2>1, EmptySeq DEF BodyTypes
  <2> QED BY <1>2, <2>1, <2>2, <2>3 DEF FramesPass
<1>5. CASE Take
  <2>1. BodyTypes'
    BY <1>2, <1>5, TakePasses DEF BodyTypes
  <2> QED BY <1>2, <1>5, <2>1, TakePasses DEF FramesPass
<1>6. CASE UNCHANGED <<bodyVars, received>>
  BY <1>6 DEF FramesPass, BodyTypes, Passed, bodyVars
<1>7. CASE PacketThrows \/ LineThrows \/ Abandon
  <2>1. \/ stream' = "returned" /\ UNCHANGED <<arrived, handed, received>>
        \/ UNCHANGED <<bodyVars, received>>
    BY <1>7 DEF PacketThrows, LineThrows, Abandon, Leave, Return, resultVars
  <2>2. CASE stream' = "returned" /\ UNCHANGED <<arrived, handed, received>>
    BY <1>2, <2>2 DEF FramesPass, BodyTypes, Passed
  <2> QED BY <1>6, <2>1, <2>2
<1> QED BY <1>3, <1>4, <1>5, <1>6, <1>7, OtherSteps

LEMMA FramesInit ==
  ASSUME Init
  PROVE  FramesPass
<1>1. ReaderInv
  BY ReaderInit
<1>2. Len(response.wire) \in Nat
  BY <1>1, WireFacts
<1>3. arrived = 0 /\ stream = "idle" /\ received = <<>> /\ handed = <<>>
  BY DEF Init, BodyInit
<1>4. BodyTypes
  BY <1>2, <1>3, EmptySeq DEF BodyTypes
<1>5. Passed = <<>> /\ SubSeq(response.wire, 0 + 1, 0) = <<>>
  BY <1>1, <1>3, <1>4, TakenSoFar, SubSeqEmpty
<1> QED BY <1>3, <1>4, <1>5 DEF FramesPass

\* The three ways of a body, and what it has in common.
BodyInv == ReaderInv /\ PlainInv /\ BlocksFound /\ FramesPass

LEMMA BodyInvariant == Spec => []BodyInv
<1>1. Init => PlainInv /\ BlocksFound /\ FramesPass
  BY PlainInit, BlocksFoundInit, FramesInit
<1>2. ReaderInv /\ PlainInv /\ BlocksFound /\ FramesPass /\ [Next]_vars
        => (PlainInv /\ BlocksFound /\ FramesPass)'
  BY PlainStep, BlocksFoundStep, FramesStep
<1> QED BY <1>1, <1>2, ReaderInvariant, PTL DEF Spec, BodyInv

\* However chunks split it, an exception trailer is found: createStream ends as if the
\* body were whole only when no trailer stands in it, in none of its blocks when it is
\* compressed; and it reports one only where a whole preamble follows what has been
\* received, or stands in a block of a compressed body or beside the blocks
\* (findExceptionMarker, client.ts 368-387, and createStream, 882-994).
THEOREM TrailerFound == Spec => []TrailerRule
<1>1. BodyInv => TrailerRule
  <2>1. SUFFICES ASSUME ReaderInv, PlainInv, BlocksFound, FramesPass
                 PROVE  TrailerRule
    BY DEF BodyInv
  <2>2. response.compressed \in BOOLEAN /\ response.framing \in BOOLEAN
        /\ DOMAIN response.content = 1 .. Len(response.content)
    BY <2>1, WireFacts DEF IsResponse
  <2>3. stream = "done" /\ ~response.framing /\ ~response.compressed => ~HasException(response.wire)
    BY <2>1 DEF PlainInv, PlainScan, IsPlain
  <2>4. stream = "done" /\ response.compressed =>
          \A c \in DOMAIN response.content : ~HasException(response.content[c])
    BY <2>1, <2>2 DEF BlocksFound, AllScanned
  <2>5. ASSUME stream = "exception", ~response.compressed
        PROVE  IsFramedExceptionAt(response.wire, Len(received) + 1)
    <3>1. IsPlain
      BY <2>1, <2>5 DEF FramesPass, IsPlain
    <3>2. handed = <<>> /\ IsFramedExceptionAt(response.wire, Len(Passed) + 1)
      BY <2>1, <2>5, <3>1 DEF PlainInv, BodyTypes, PlainScan
    <3>3. Passed = received
      BY <2>1, <3>1, <3>2, PassedFacts
    <3> QED BY <3>2, <3>3
  <2>6. ASSUME stream = "exception", response.compressed
        PROVE  \/ \E c \in DOMAIN response.content : HasException(response.content[c])
               \/ \E i \in DOMAIN response.wire : IsFramedExceptionAt(response.wire, i)
    <3>1. Raised(Len(Passed))
      BY <2>1, <2>6 DEF BlocksFound, Raising
    <3> QED BY <2>2, <3>1 DEF Raised, HasException
  <2> QED BY <2>3, <2>4, <2>5, <2>6 DEF TrailerRule
<1> QED BY <1>1, BodyInvariant, PTL
-----------------------------------------------------------------------------
\* What the application gets is the output the server meant.

LEMMA BodyFacts ==
  ASSUME BodyInv
  PROVE  /\ BodyTypes
         /\ Passed \in Seq(Cell) /\ Len(Passed) \in Nat
         /\ handed = <<>> => Passed = received
<1>1. response.compressed \in BOOLEAN /\ response.framing \in BOOLEAN
  BY WireFacts DEF BodyInv, IsResponse
<1>2. BodyTypes
  BY <1>1 DEF BodyInv, PlainInv, IsPlain, BlocksFound, FramesPass
<1>3. received \in Seq(Cell) /\ handed \in Seq(Cell)
  BY <1>2 DEF BodyTypes
<1>4. Passed \in Seq(Cell)
  BY <1>3, ConcatProperties DEF Passed
<1>5. handed = <<>> => Passed = received
  BY <1>3, ConcatEmptySeq DEF Passed
<1> QED BY <1>2, <1>4, <1>5, LenProperties

\* A body is only read of a query that has been answered, and what has been yielded is
\* only of that.
Consuming == {"header", "body", "summary", "finished"}
CallInv ==
  /\ phase \in Consuming \/ stream # "idle" => GoodCall
  /\ stream = "idle" => received = <<>> /\ handed = <<>>

LEMMA CallInvStep ==
  ASSUME ReaderInv, CallInv, [Next]_vars
  PROVE  CallInv'
<1>1. (GoodCall' <=> GoodCall) /\ scenario' = scenario
  BY ScenarioStands DEF GoodCall, Query
<1>2. CASE BodyOpens \/ BodyReads \/ BodyEnds \/ BodyFails \/ BodyResumes
  <2>1. phase = "body"
    BY <1>2 DEF BodyOpens, BodyReads, BodyEnds, BodyFails, BodyResumes, BodyStep
  <2>2. /\ Open \/ (\E n \in ChunkSizes : ReadChunk(n)) \/ ReadEnd \/ ReadFails \/ Resume
    BY <1>2 DEF BodyOpens, BodyReads, BodyEnds, BodyFails, BodyResumes, BodyStep
  <2>3. stream' # "idle"
    BY <2>2, BodyOnWay DEF OnItsWay, Terminal
  <2> QED BY <1>1, <2>1, <2>3 DEF CallInv, Consuming
<1>3. CASE Take \/ PacketThrows \/ LineThrows \/ Abandon
  <2>1. phase \in Consuming
    BY <1>3 DEF Take, PacketThrows, LineThrows, Abandon, HasItem, Consuming
  <2>2. stream' # "idle" \/ UNCHANGED <<bodyVars, received>>
    BY <1>3 DEF Take, Taken, PacketThrows, LineThrows, Abandon, Leave, Return, resultVars
  <2> QED BY <1>1, <2>1, <2>2 DEF CallInv, bodyVars
<1>4. CASE UNCHANGED <<bodyVars, received>>
  <2>1. phase' \in Consuming => phase \in Consuming \/ GoodCall
    <3>1. CASE Requesting
      BY <3>1 DEF Requesting, Call, OtherCall, Loading, Initialized, Peek, PeekFails, Upload, PartEnds,
         PullFirst, SourceChunk, PullOn, SourceEnds, SourceFails, End, To, Fetch, callVars, Consuming
    <3>2. CASE Responds
      BY <3>2 DEF Responds, To, Consuming, GoodCall
    <3>3. CASE Answering /\ ~Responds
      BY <3>3 DEF Answering, FetchFails, TimerFires, ErrorRead, Reply, BodyReads, BodyEnds,
         BodyFails, BodyStep, End, To, callVars, Consuming
    <3>4. CASE GoingOn \/ Abandon
      BY <3>4 DEF GoingOn, HeaderTaken, BodyOpens, BodyResumes, BodyStep, Take, Decoding, Parsing, Reading,
         LastRecord, Summarize, SummaryTaken, AllDecoded, Throws, PacketThrows, LineThrows, Abandon,
         End, To, callVars, Consuming
    <3>5. CASE UNCHANGED vars
      BY <3>5 DEF vars, callVars
    <3> QED BY <3>1, <3>2, <3>3, <3>4, <3>5 DEF Next
  <2> QED BY <1>1, <1>4, <2>1 DEF CallInv, bodyVars
<1> QED BY <1>2, <1>3, <1>4, OtherSteps

\* Only reading, the end of the body, and going on to the next block yield anything.
LEMMA PassedStands ==
  ASSUME BodyInv, [Next]_vars
  PROVE  \/ Passed' = Passed
         \/ /\ handed = <<>> /\ received' = received /\ Passed = received
            /\ \/ \E n \in ChunkSizes : ReadChunk(n)
               \/ ReadEnd
               \/ after = "blocks" /\ stream = "yielded" /\ Resume
<1>1. BodyTypes /\ (handed = <<>> => Passed = received)
  BY BodyFacts
<1>2. CASE BodyReads \/ BodyEnds
  <2>1. /\ (\E n \in ChunkSizes : ReadChunk(n)) \/ ReadEnd
        /\ received' = received
    BY <1>2 DEF BodyReads, BodyEnds, BodyStep, resultVars
  <2>2. handed = <<>>
    BY <1>1, <2>1 DEF ReadChunk, ReadEnd, BodyTypes
  <2> QED BY <1>1, <2>1, <2>2
<1>3. CASE BodyResumes
  <2>1. handed = <<>> /\ stream = "yielded" /\ Resume /\ received' = received
    BY <1>3 DEF BodyResumes, BodyStep, Resume, resultVars
  <2>2. after # "blocks" => handed' = <<>>
    BY <2>1 DEF Resume, Go
  <2> QED BY <1>1, <2>1, <2>2 DEF Passed
<1>4. CASE BodyOpens \/ BodyFails
  <2>1. handed = <<>> /\ handed' = <<>> /\ received' = received
    BY <1>1, <1>4 DEF BodyOpens, BodyFails, BodyStep, Open, ReadFails, Go, BodyTypes, resultVars
  <2> QED BY <2>1 DEF Passed
<1>5. CASE Take
  BY <1>1, <1>5, TakePasses
<1>6. CASE PacketThrows \/ LineThrows \/ Abandon
  <2>1. UNCHANGED <<handed, received>>
    BY <1>6 DEF PacketThrows, LineThrows, Abandon, Leave, Return, bodyVars, resultVars
  <2> QED BY <2>1 DEF Passed
<1>7. CASE UNCHANGED <<bodyVars, received>>
  BY <1>7 DEF bodyVars, Passed
<1> QED BY <1>2, <1>3, <1>4, <1>5, <1>6, <1>7, OtherSteps

LEMMA TrailerBegins ==
  ASSUME NEW bytes, NEW m \in Nat \ {0}, IsFramedExceptionAt(bytes, m)
  PROVE  bytes[m][1] = "m"
<1>1. ASSUME NEW kinds \in {Short, Long}, Kinds(bytes, m, kinds)
      PROVE  bytes[m][1] = "m"
  <2>1. 1 \in DOMAIN kinds /\ kinds[1] = "m"
    BY <1>1 DEF Short, Long
  <2>2. bytes[m + 1 - 1][1] = "m"
    BY <1>1, <2>1 DEF Kinds
  <2>3. m + 1 - 1 = m
    OBVIOUS
  <2> QED BY <2>2, <2>3
<1> QED BY <1>1, Forms

\* A trailer that begins in front of another ends there.
LEMMA TrailersApart ==
  ASSUME NEW w \in Seq(Cell), NEW k \in Nat \ {0}, NEW m \in Nat, k < m,
         IsFramedExceptionAt(w, k), w[m][1] = "m"
  PROVE  \/ Kinds(w, k, Short) /\ k + 3 <= m
         \/ response.tag /\ Kinds(w, k, Long) /\ k + 5 <= m
<1>1. CASE Kinds(w, k, Short)
  <2>1. w[k + 2 - 1][1] = "n" /\ w[k + 3 - 1][1] = "c"
    BY <1>1 DEF Kinds, Short
  <2>2. k + 2 - 1 = k + 1 /\ k + 3 - 1 = k + 2
    OBVIOUS
  <2>3. m # k + 1 /\ m # k + 2
    BY <2>1, <2>2
  <2> QED BY <1>1, <2>3
<1>2. CASE response.tag /\ Kinds(w, k, Long)
  <2>1. w[k + 2 - 1][1] = "n" /\ w[k + 3 - 1][1] = "t" /\ w[k + 4 - 1][1] = "n" /\ w[k + 5 - 1][1] = "c"
    BY <1>2 DEF Kinds, Long
  <2>2. k + 2 - 1 = k + 1 /\ k + 3 - 1 = k + 2 /\ k + 4 - 1 = k + 3 /\ k + 5 - 1 = k + 4
    OBVIOUS
  <2>3. m # k + 1 /\ m # k + 2 /\ m # k + 3 /\ m # k + 4
    BY <2>1, <2>2
  <2> QED BY <1>2, <2>3
<1> QED BY <1>1, <1>2, Forms

\* A trailer of the whole that a window holds is one of the window's.
LEMMA WindowMarker ==
  ASSUME NEW w \in Seq(Cell), NEW p \in Nat, NEW q \in Nat, p <= q, q <= Len(w),
         NEW k \in Markers(w), p < k,
         \/ Kinds(w, k, Short) /\ k + 2 <= q
         \/ response.tag /\ Kinds(w, k, Long) /\ k + 4 <= q
  PROVE  k - p \in Markers(SubSeq(w, p + 1, q))
<1> DEFINE s == SubSeq(w, p + 1, q)
           i == k - p
<1>1. /\ s \in Seq(Cell) /\ Len(s) = q - p /\ \A j \in 1 .. q - p : s[j] = w[p + j]
      /\ DOMAIN s = 1 .. q - p
  <2>1. /\ s \in Seq(Cell) /\ Len(s) = q - p /\ \A j \in 1 .. q - p : s[j] = w[p + j]
    BY Window
  <2> HIDE DEF s
  <2> QED BY <2>1, LenProperties
<1>2. k \in Nat \ {0} /\ (response.text /\ k > 1 => w[k - 1][1] = "n") /\ Len(w) \in Nat
  <2>1. DOMAIN w = 1 .. Len(w) /\ Len(w) \in Nat
    BY LenProperties
  <2> QED BY <2>1 DEF Markers, Trailers
<1>3. i \in Nat \ {0} /\ p + i = k /\ i \in 1 .. q - p
  BY <1>2
<1>4. IsFramedExceptionAt(s, i)
  <2>1. CASE Kinds(w, k, Short) /\ k + 2 <= q
    <3>1. p + i + Len(Short) - 1 <= q /\ Kinds(w, p + i, Short)
      BY <1>2, <1>3, <2>1, Forms
    <3> HIDE DEF i
    <3>2. Kinds(s, i, Short)
      BY <1>3, <3>1, Forms, KindsIn
    <3> QED BY <3>2, Forms
  <2>2. CASE response.tag /\ Kinds(w, k, Long) /\ k + 4 <= q
    <3>1. p + i + Len(Long) - 1 <= q /\ Kinds(w, p + i, Long)
      BY <1>2, <1>3, <2>2, Forms
    <3> HIDE DEF i
    <3>2. Kinds(s, i, Long)
      BY <1>3, <3>1, Forms, KindsIn
    <3> QED BY <2>2, <3>2, Forms
  <2> QED BY <2>1, <2>2
<1>5. ASSUME response.text, i > 1
      PROVE  s[i - 1][1] = "n"
  <2>1. i - 1 \in 1 .. q - p /\ p + (i - 1) = k - 1 /\ k > 1
    BY <1>2, <1>3, <1>5
  <2>2. s[i - 1] = w[k - 1]
    BY <1>1, <2>1
  <2> QED BY <1>2, <1>5, <2>1, <2>2
<1> HIDE DEF s, i
<1>6. i \in Markers(s)
  BY <1>1, <1>3, <1>4, <1>5 DEF Markers, Trailers, IsFramedExceptionAt
<1> QED BY <1>6 DEF s, i

\* No trailer stands in what has been yielded.
PlainClean == IsPlain => \A k \in 1 .. Len(Passed) : k \notin Markers(response.wire)

\* As long as none has been found in what has come, for what is held back leaves room
\* for any; nor when one has, for it is the first.
LEMMA CleanPrefix ==
  ASSUME NEW w \in Seq(Cell), NEW n \in Nat, NEW a \in Nat, a <= Len(w),
         ~HasException(SubSeq(w, 1, a)), n = 0 \/ a - n >= TailBytes
  PROVE  \A k \in 1 .. n : k \notin Markers(w)
<1>1. SUFFICES ASSUME NEW k \in 1 .. n, k \in Markers(w) PROVE FALSE
  OBVIOUS
<1>2. TailBytes \in Nat /\ TailBytes >= 5 /\ n # 0
  BY <1>1, TailAssumption
<1>3. k + 4 <= a /\ k + 2 <= a /\ 0 < k /\ k - 0 = k /\ 0 <= a /\ 0 + 1 = 1
  BY <1>2
<1>4. IsFramedExceptionAt(w, k)
  BY <1>1 DEF Markers, Trailers, IsFramedExceptionAt
<1>5. k - 0 \in Markers(SubSeq(w, 0 + 1, a))
  BY <1>1, <1>3, <1>4, Forms, WindowMarker
<1> QED BY <1>3, <1>5 DEF HasException

LEMMA CleanScan ==
  ASSUME NEW w \in Seq(Cell), NEW r \in Nat, NEW b \in Nat, r <= b, b <= Len(w),
         HasException(SubSeq(w, r + 1, b)),
         NEW k \in Markers(w), k > r, k < r + ExceptionMarker(SubSeq(w, r + 1, b))
  PROVE  FALSE
<1> DEFINE win == SubSeq(w, r + 1, b)
           m == ExceptionMarker(win)
<1>1. win \in Seq(Cell) /\ Len(win) = b - r /\ \A j \in 1 .. b - r : win[j] = w[r + j]
  BY Window
<1>2. m \in 1 .. b - r /\ IsFramedExceptionAt(win, m) /\ \A j \in Markers(win) : m <= j
  <2> HIDE DEF win
  <2> QED BY <1>1, MarkerFacts DEF win
<1> HIDE DEF m
<1>3. w[r + m][1] = "m"
  <2>1. m \in Nat \ {0}
    BY <1>2
  <2> HIDE DEF win
  <2>2. win[m][1] = "m"
    BY <1>2, <2>1, TrailerBegins
  <2> QED BY <1>1, <1>2, <2>2
<1>4. k \in Nat \ {0} /\ IsFramedExceptionAt(w, k)
  <2>1. DOMAIN w = 1 .. Len(w) /\ Len(w) \in Nat
    BY LenProperties
  <2> QED BY <2>1 DEF Markers, Trailers, IsFramedExceptionAt
<1>5. r + m \in Nat /\ k < r + m /\ r + m <= b
  BY <1>2 DEF m
<1>6. \/ Kinds(w, k, Short) /\ k + 3 <= r + m
      \/ response.tag /\ Kinds(w, k, Long) /\ k + 5 <= r + m
  BY <1>3, <1>4, <1>5, TrailersApart
<1>7. \/ Kinds(w, k, Short) /\ k + 2 <= b
      \/ response.tag /\ Kinds(w, k, Long) /\ k + 4 <= b
  BY <1>4, <1>5, <1>6
<1>8. k - r \in Markers(win)
  BY <1>7, WindowMarker
<1>9. m <= k - r
  BY <1>2, <1>8
<1> QED BY <1>2, <1>4, <1>5, <1>9

\* The window that a scan looks at begins behind what has been yielded.
LEMMA PlainWindow ==
  ASSUME BodyInv, IsPlain, stream = "reading", NEW b \in Nat, arrived <= b, b <= Len(response.wire)
  PROVE  /\ Len(received) \in Nat /\ Len(received) <= b
         /\ received = SubSeq(response.wire, 0 + 1, Len(received))
         /\ pending \o SubSeq(response.wire, arrived + 1, b) = SubSeq(response.wire, Len(received) + 1, b)
         /\ pending = SubSeq(response.wire, Len(received) + 1, arrived)
<1>1. response.wire \in Seq(Cell) /\ Len(response.wire) \in Nat
  BY WireFacts DEF BodyInv
<1>2. /\ Passed = received /\ Len(Passed) \in Nat /\ PlainScan
      /\ arrived \in Nat
  BY BodyFacts DEF BodyInv, PlainInv, BodyTypes
<1>3. /\ pending = SubSeq(response.wire, Len(received) + 1, arrived) /\ Len(received) <= arrived
      /\ received = SubSeq(response.wire, 0 + 1, Len(received))
  BY <1>2 DEF PlainScan, OnItsRun
<1>4. Len(received) <= b
  BY <1>2, <1>3
<1> QED BY <1>1, <1>2, <1>3, <1>4, Adjacent, ZenonT(60)

LEMMA PlainCleanScan ==
  ASSUME BodyInv, PlainClean, IsPlain, handed = <<>>, received' = received, response' = response,
         NEW b \in Nat, b <= Len(response.wire), Len(received) <= b,
         received = SubSeq(response.wire, 0 + 1, Len(received)),
         HasException(SubSeq(response.wire, Len(received) + 1, b)),
         Scan(SubSeq(response.wire, Len(received) + 1, b))
  PROVE  \A k \in 1 .. Len(Passed') : k \notin Markers(response.wire)
<1> DEFINE w == response.wire
           r == Len(received)
           m == ExceptionMarker(SubSeq(w, r + 1, b))
<1>1. w \in Seq(Cell) /\ Passed = received /\ r \in Nat
  BY WireFacts, BodyFacts DEF BodyInv
<1>2. \A k \in 1 .. r : k \notin Markers(w)
  BY <1>1 DEF PlainClean
<1> HIDE DEF w, r
<1>3. Len(Passed') \in Nat /\ Len(Passed') + 1 = r + m
  BY <1>1, ScanFinds DEF w, r
<1>4. ASSUME NEW k \in 1 .. Len(Passed'), k \in Markers(w)
      PROVE  FALSE
  <2>1. k \in Nat /\ k < r + m
    <3> HIDE DEF m
    <3> QED BY <1>3, <1>4
  <2>2. CASE k <= r
    BY <1>1, <1>2, <1>4, <2>1, <2>2
  <2>3. CASE k > r
    BY <1>1, <1>4, <2>1, <2>3, CleanScan DEF w, r
  <2> QED BY <1>1, <2>1, <2>2, <2>3
<1> QED BY <1>4 DEF w

LEMMA PlainCleanStep ==
  ASSUME BodyInv, BodyInv', PlainClean, [Next]_vars
  PROVE  PlainClean'
<1>1. SUFFICES ASSUME IsPlain' PROVE \A k \in 1 .. Len(Passed') : k \notin Markers(response.wire)'
  BY DEF PlainClean
<1>2. response' = response /\ IsPlain
  <2>1. UNCHANGED scenario
    BY ScenarioStands
  <2>2. response' = response
    BY <2>1 DEF BodyInv, ReaderInv, ReaderTypes
  <2> QED BY <1>1, <2>2 DEF IsPlain
<1>3. \A bytes : Markers(bytes)' = Markers(bytes)
  BY <1>2, SameTrailers
<1>4. SUFFICES \A k \in 1 .. Len(Passed') : k \notin Markers(response.wire)
  BY <1>2, <1>3
<1>5. CASE Passed' = Passed
  BY <1>2, <1>5 DEF PlainClean
<1>6. response.wire \in Seq(Cell) /\ Len(response.wire) \in Nat /\ arrived \in Nat
      /\ BodyTypes' /\ Len(Passed') \in Nat /\ PlainScan'
  <2>1. BodyTypes' /\ PlainScan'
    BY <1>1 DEF BodyInv, PlainInv
  <2>2. Passed' \in Seq(Cell)
    BY <2>1, ConcatProperties DEF BodyTypes, Passed
  <2>3. Len(Passed') \in Nat
    BY <2>2, LenProperties
  <2>4. arrived \in Nat
    BY BodyFacts DEF BodyTypes
  <2> QED BY <2>1, <2>3, <2>4, WireFacts DEF BodyInv
<1>7. ASSUME OnItsRun' \/ stream' = "done" \/ (stream' = "yielded" /\ after' = "done")
      PROVE  \A k \in 1 .. Len(Passed') : k \notin Markers(response.wire)
  <2>1. CASE stream' = "done" \/ (stream' = "yielded" /\ after' = "done")
    <3>1. ~HasException(response.wire)'
      BY <1>6, <2>1 DEF PlainScan
    <3> QED BY <1>2, <3>1, SameTrailers DEF HasException
  <2>2. CASE OnItsRun'
    <3>1. /\ ~HasException(SubSeq(response.wire, 1, arrived))'
          /\ Len(Passed') = 0 \/ arrived' - Len(Passed') >= TailBytes
          /\ arrived' \in Nat /\ arrived' <= Len(response.wire)
      BY <1>2, <1>6, <2>2 DEF PlainScan, BodyTypes
    <3>2. ~HasException(SubSeq(response.wire, 1, arrived'))
      BY <1>2, <3>1, SameTrailers
    <3> QED BY <1>6, <3>1, <3>2, CleanPrefix
  <2> QED BY <1>7, <2>1, <2>2
<1>8. ASSUME handed = <<>>, received' = received, NEW n \in ChunkSizes, ReadChunk(n)
      PROVE  \A k \in 1 .. Len(Passed') : k \notin Markers(response.wire)
  <2> DEFINE b == arrived + n
             window == pending \o SubSeq(response.wire, arrived + 1, b)
  <2>1. /\ stream = "reading" /\ b <= Len(response.wire) /\ HoldBack(SubSeq(response.wire, arrived + 1, b))
    BY <1>2, <1>8 DEF ReadChunk, IsPlain
  <2>2. b \in Nat /\ arrived <= b
    BY <1>6, <1>8, InsertAssumption
  <2>3. /\ Len(received) \in Nat /\ Len(received) <= b
        /\ received = SubSeq(response.wire, 0 + 1, Len(received))
        /\ window = SubSeq(response.wire, Len(received) + 1, b)
    BY <1>2, <2>1, <2>2, PlainWindow
  <2>4. CASE HasException(window)
    <3>1. Scan(window)
      BY <2>1, <2>4 DEF HoldBack
    <3> HIDE DEF window, b
    <3> QED BY <1>2, <1>8, <2>1, <2>2, <2>3, <2>4, <3>1, PlainCleanScan
  <2>5. CASE ~HasException(window)
    <3>1. stream' = "reading" \/ (stream' = "yielded" /\ after' = "reading")
      BY <2>1, <2>5 DEF HoldBack, Emit, Go, YieldChunk
    <3> QED BY <1>7, <3>1 DEF OnItsRun
  <2> QED BY <2>4, <2>5
<1>9. ASSUME handed = <<>>, received' = received, ReadEnd
      PROVE  \A k \in 1 .. Len(Passed') : k \notin Markers(response.wire)
  <2> DEFINE b == Len(response.wire)
  <2>1. stream = "reading" /\ arrived = b /\ LetGo
    BY <1>2, <1>9 DEF ReadEnd, IsPlain
  <2>2. b \in Nat /\ arrived <= b /\ b <= Len(response.wire)
    BY <1>6, <2>1
  <2>3. /\ Len(received) \in Nat /\ Len(received) <= b
        /\ received = SubSeq(response.wire, 0 + 1, Len(received))
        /\ pending = SubSeq(response.wire, Len(received) + 1, b)
    BY <1>2, <2>1, <2>2, PlainWindow
  <2>4. CASE HasException(pending)
    <3>1. Scan(pending)
      BY <2>1, <2>4 DEF LetGo
    <3> HIDE DEF b
    <3> QED BY <1>2, <1>9, <2>2, <2>3, <2>4, <3>1, PlainCleanScan
  <2>5. CASE ~HasException(pending)
    <3>1. stream' = "done" \/ (stream' = "yielded" /\ after' = "done")
      BY <2>1, <2>5 DEF LetGo, Emit, Go, YieldChunk
    <3> QED BY <1>7, <3>1
  <2> QED BY <2>4, <2>5
<1>10. ~(after = "blocks" /\ stream = "yielded")
  BY <1>2 DEF BodyInv, PlainInv, PlainScan
<1> QED BY <1>5, <1>8, <1>9, <1>10, PassedStands

OutputPassed == GoodCall =>
  Len(Passed) <= Len(scenario.output) /\ Passed = SubSeq(scenario.output, 0 + 1, Len(Passed))

LEMMA OutputFacts ==
  ASSUME ReaderInv, GoodCall
  PROVE  /\ scenario.output \in Seq(Cell) /\ Len(scenario.output) \in Nat
         /\ IsOutput(scenario, response)
<1>1. scenario \in Scenarios /\ scenario.output \in Seq(Byte) /\ response = scenario.response
  BY ScenariosAssumption DEF ReaderInv, ReaderTypes
<1>2. IsOutput(scenario, response)
  BY <1>1, OutputAssumption DEF GoodCall, Query
<1> QED BY <1>1, <1>2, BytesAreCells, LenProperties

\* Of a body that is not compressed, because the output is what it holds in front of
\* the first trailer.
LEMMA PlainOutput ==
  ASSUME BodyInv, PlainClean, ~response.compressed
  PROVE  OutputPassed
<1> DEFINE w == response.wire
           n == Len(Passed)
           output == scenario.output
<1>1. SUFFICES ASSUME GoodCall
               PROVE  n <= Len(output) /\ Passed = SubSeq(output, 0 + 1, n)
  BY DEF OutputPassed
<1>2. /\ w \in Seq(Cell) /\ Len(w) \in Nat /\ n \in Nat
      /\ arrived \in Nat /\ arrived <= Len(w)
      /\ output \in Seq(Cell) /\ Len(output) \in Nat /\ IsOutput(scenario, response)
  BY <1>1, WireFacts, BodyFacts, OutputFacts DEF BodyInv, BodyTypes
<1>3. n <= arrived /\ Passed = SubSeq(w, 0 + 1, n)
      /\ (response.framing \/ Clean(response, w, n))
  <2>1. CASE response.framing
    <3>1. Passed = SubSeq(w, 0 + 1, arrived)
      BY <2>1 DEF BodyInv, FramesPass
    <3> HIDE DEF w
    <3>2. n = arrived
      <4>1. 0 <= arrived /\ arrived - 0 = arrived
        BY <1>2
      <4> QED BY <1>2, <3>1, <4>1, Window
    <3> QED BY <1>2, <2>1, <3>1, <3>2
  <2>2. CASE ~response.framing
    <3>1. n <= arrived /\ Passed = SubSeq(w, 0 + 1, n)
      BY <2>2 DEF BodyInv, PlainInv, PlainScan, IsPlain
    <3>2. Clean(response, w, n)
      BY <2>2 DEF PlainClean, IsPlain, Clean, Markers
    <3> QED BY <3>1, <3>2
  <2> QED BY <2>1, <2>2
<1> HIDE DEF n
<1>4. n \in 0 .. Len(w)
  BY <1>2, <1>3
<1>5. Stands(w, n, output, 0)
  BY <1>2, <1>3, <1>4 DEF IsOutput
<1>6. 0 + n <= Len(output) /\ SubSeq(w, 1, n) = SubSeq(output, 0 + 1, 0 + n)
  BY <1>5 DEF Stands
<1>7. 0 + n = n /\ 0 + 1 = 1
  BY <1>2
<1> QED BY <1>3, <1>6, <1>7

\* What comes of a block: the next bytes of the output.
LEMMA BlockOutput ==
  ASSUME ReaderInv, GoodCall, response.compressed,
         NEW have, NEW buf, NEW c \in 1 .. Len(response.content), NEW p,
         AtBlock(buf, have, Len(received), c, p), BlockDecoded(buf, c),
         received \in Seq(Cell), Len(received) <= Len(scenario.output),
         received = SubSeq(scenario.output, 0 + 1, Len(received)), received' = received
  PROVE  /\ Len(Passed') \in Nat /\ Len(Passed') <= Len(scenario.output)
         /\ Passed' = SubSeq(scenario.output, 0 + 1, Len(Passed'))
<1> DEFINE content == response.content[c]
           output == scenario.output
           r == Len(received)
<1>1. /\ content \in Seq(Cell) /\ Len(content) \in Nat /\ r \in Nat
      /\ output \in Seq(Cell) /\ Len(output) \in Nat /\ IsOutput(scenario, response)
      /\ DOMAIN response.content = 1 .. Len(response.content)
  BY WireFacts, OutputFacts, LenProperties
<1>2. r = scenario.places[c] /\ \A d \in 1 .. c - 1 : Trailers(response, response.content[d]) = {}
  BY DEF AtBlock, HasException, Markers
<1>3. \A n \in 0 .. Len(content) : Clean(response, content, n) => Stands(content, n, output, r)
  BY <1>1, <1>2 DEF IsOutput
<1>4. PICK n \in 0 .. Len(content) : handed' = SubSeq(content, 0 + 1, n) /\ Clean(response, content, n)
  <2>1. CASE HasException(content) /\ Emit(BeforeException(content), "exception")
    <3> DEFINE m == ExceptionMarker(content)
    <3>1. m \in 1 .. Len(content) /\ \A k \in Markers(content) : m <= k
      <4> HIDE DEF content
      <4> QED BY <1>1, <2>1, MarkerFacts
    <3>2. handed' = SubSeq(content, 1, m - 1)
      BY <2>1 DEF Emit, Go, YieldChunk, BeforeException
    <3> HIDE DEF m, content
    <3>3. m - 1 \in 0 .. Len(content) /\ 0 + 1 = 1
      BY <1>1, <3>1
    <3>4. Clean(response, content, m - 1)
      <4>1. SUFFICES ASSUME NEW k \in 1 .. m - 1, k \in Trailers(response, content) PROVE FALSE
        BY DEF Clean
      <4>2. m <= k
        BY <3>1, <4>1 DEF Markers
      <4> QED BY <3>1, <4>1, <4>2
    <3> QED BY <3>2, <3>3, <3>4
  <2>2. CASE ~HasException(content) /\ YieldChunk(content, "blocks")
    <3>1. handed' = content
      BY <2>2 DEF YieldChunk
    <3>2. Clean(response, content, Len(content))
      BY <2>2 DEF HasException, Markers, Clean
    <3> HIDE DEF content
    <3>3. content \in Seq(Cell) => SubSeq(content, 1, Len(content)) = content
      BY SubSeqFull
    <3>4. Len(content) \in 0 .. Len(content) /\ 0 + 1 = 1
      BY <1>1
    <3> QED BY <1>1, <3>1, <3>2, <3>3, <3>4
  <2> QED BY <2>1, <2>2 DEF BlockDecoded
<1>5. Stands(content, n, output, r)
  BY <1>3, <1>4
<1> HIDE DEF content, output, r
<1>6. r + n <= Len(output) /\ handed' = SubSeq(output, r + 1, r + n) /\ n \in Nat
  <2>1. 0 + 1 = 1 /\ n \in Nat
    BY <1>1
  <2> QED BY <1>4, <1>5, <2>1 DEF Stands
<1>7. /\ 0 <= r /\ r <= r + n /\ 0 <= r + n /\ (r + n) - 0 = r + n /\ r + n \in Nat
  BY <1>1, <1>6
<1>8. SubSeq(output, 0 + 1, r) \o SubSeq(output, r + 1, r + n) = SubSeq(output, 0 + 1, r + n)
  BY <1>1, <1>6, <1>7, Adjacent
<1>9. Len(SubSeq(output, 0 + 1, r + n)) = r + n
  BY <1>1, <1>6, <1>7, Window
<1>10. Passed' = SubSeq(output, 0 + 1, r + n)
  BY <1>6, <1>8 DEF Passed, output, r
<1> QED BY <1>6, <1>7, <1>9, <1>10 DEF output

LEMMA BlocksOutputStep ==
  ASSUME BodyInv, CallInv, response.compressed => OutputPassed, [Next]_vars
  PROVE  (response.compressed => OutputPassed)'
<1>1. response' = response /\ scenario' = scenario /\ (GoodCall' <=> GoodCall)
  <2>1. ReaderInv' /\ UNCHANGED scenario
    BY ReaderStep, ScenarioStands DEF BodyInv
  <2> QED BY <2>1 DEF BodyInv, ReaderInv, ReaderTypes, GoodCall, Query
<1>2. SUFFICES ASSUME response.compressed, GoodCall
               PROVE  Len(Passed') <= Len(scenario.output) /\ Passed' = SubSeq(scenario.output, 0 + 1, Len(Passed'))
  BY <1>1 DEF OutputPassed
<1>3. Len(Passed) <= Len(scenario.output) /\ Passed = SubSeq(scenario.output, 0 + 1, Len(Passed))
  BY <1>2 DEF OutputPassed
<1>4. CASE Passed' = Passed
  BY <1>3, <1>4
<1>5. ASSUME NEW buf, NEW have \in Nat, have <= Len(response.wire), handed = <<>>,
             received' = received, Passed = received,
             Scanned(buf, have, Len(received)), NextBlockOf(buf)
      PROVE  Len(Passed') <= Len(scenario.output) /\ Passed' = SubSeq(scenario.output, 0 + 1, Len(Passed'))
  <2>1. CASE handed' = <<>>
    <3>1. Passed' = Passed
      BY <1>5, <2>1 DEF Passed
    <3> QED BY <1>3, <3>1
  <2>2. ASSUME NEW c \in 1 .. Len(response.content), NEW p \in Nat,
               AtBlock(buf, have, Len(received), c, p), BlockDecoded(buf, c)
        PROVE  Len(Passed') <= Len(scenario.output) /\ Passed' = SubSeq(scenario.output, 0 + 1, Len(Passed'))
    <3>1. received \in Seq(Cell) /\ ReaderInv
      BY BodyFacts DEF BodyTypes, BodyInv
    <3> QED BY <1>2, <1>3, <1>5, <2>2, <3>1, BlockOutput
  <2> QED BY <1>2, <1>5, <2>1, <2>2, BlockAtHand DEF BodyInv
<1>6. ASSUME handed = <<>>, received' = received, Passed = received, NEW n \in ChunkSizes, ReadChunk(n)
      PROVE  Len(Passed') <= Len(scenario.output) /\ Passed' = SubSeq(scenario.output, 0 + 1, Len(Passed'))
  <2>1. n \in Nat
    BY InsertAssumption
  <2>2. /\ arrived + n \in Nat /\ arrived + n <= Len(response.wire)
        /\ \E buf : NextBlockOf(buf) /\ Scanned(buf, arrived + n, Len(received))
    BY <1>2, <1>6, <2>1, BlocksRead DEF BodyInv
  <2> QED BY <1>5, <1>6, <2>2
<1>7. CASE ReadEnd /\ Passed = received /\ received' = received
  <2>1. handed' = <<>>
    BY <1>2, <1>7 DEF ReadEnd, Leftover, Go
  <2>2. Passed' = Passed
    <3>1. received \in Seq(Cell)
      BY BodyFacts DEF BodyTypes
    <3> QED BY <1>7, <2>1, <3>1, ConcatEmptySeq DEF Passed
  <2> QED BY <1>4, <2>2
<1>8. CASE /\ handed = <<>> /\ received' = received /\ Passed = received
           /\ after = "blocks" /\ stream = "yielded" /\ Resume
  <2>1. Scanned(streamBuffer, arrived, Len(received)) /\ NextBlockOf(streamBuffer)
    BY <1>2, <1>8 DEF Resume, BodyInv, BlocksFound, OnItsBlocks
  <2>2. arrived \in Nat /\ arrived <= Len(response.wire)
    BY BodyFacts DEF BodyTypes
  <2> QED BY <1>5, <1>8, <2>1, <2>2
<1> QED BY <1>4, <1>6, <1>7, <1>8, PassedStands

\* Whatever the response and its chunks, what createStream yields is a prefix of the
\* output.
LEMMA OutputInvariant == Spec => [](BodyInv /\ CallInv /\ OutputPassed)
<1> DEFINE Inv == CallInv /\ PlainClean /\ (response.compressed => OutputPassed)
<1>1. BodyInv /\ Init => Inv
  <2>1. SUFFICES ASSUME BodyInv, Init PROVE Inv
    OBVIOUS
  <2>2. phase = "idle" /\ stream = "idle" /\ received = <<>> /\ handed = <<>>
    BY <2>1 DEF Init, BodyInit
  <2>3. Passed = <<>> /\ Len(Passed) = 0
    BY <2>1, <2>2, BodyFacts, EmptySeq
  <2>4. CallInv /\ PlainClean
    BY <2>2, <2>3 DEF CallInv, Consuming, PlainClean
  <2>5. GoodCall => 0 <= Len(scenario.output)
    BY <2>1, OutputFacts DEF BodyInv
  <2>6. SubSeq(scenario.output, 0 + 1, 0) = <<>>
    BY SubSeqEmpty
  <2> QED BY <2>3, <2>4, <2>5, <2>6 DEF OutputPassed
<1>2. BodyInv /\ BodyInv' /\ Inv /\ [Next]_vars => Inv'
  BY CallInvStep, PlainCleanStep, BlocksOutputStep DEF BodyInv
<1>3. BodyInv /\ Inv => BodyInv /\ CallInv /\ OutputPassed
  BY PlainOutput
<1> QED BY <1>1, <1>2, <1>3, BodyInvariant, PTL DEF Spec

\* The chunk that is handed over is the next of the output.
LEMMA HandedIs ==
  ASSUME BodyInv, OutputPassed, GoodCall
  PROVE  /\ Len(received) \in Nat /\ Len(received) <= Len(Passed)
         /\ received = SubSeq(scenario.output, 0 + 1, Len(received))
         /\ handed = SubSeq(scenario.output, Len(received) + 1, Len(Passed))
<1> DEFINE output == scenario.output
           r == Len(received)
           n == Len(Passed)
<1>1. /\ received \in Seq(Cell) /\ handed \in Seq(Cell) /\ output \in Seq(Cell) /\ Len(output) \in Nat
      /\ r \in Nat /\ Len(handed) \in Nat /\ n = r + Len(handed) /\ n <= Len(output)
      /\ Passed = SubSeq(output, 0 + 1, n)
  <2>1. received \in Seq(Cell) /\ handed \in Seq(Cell) /\ n <= Len(output) /\ Passed = SubSeq(output, 0 + 1, n)
    BY BodyFacts DEF BodyTypes, OutputPassed
  <2>2. output \in Seq(Cell) /\ Len(output) \in Nat
    BY OutputFacts DEF BodyInv
  <2> QED BY <2>1, <2>2, ConcatProperties, LenProperties DEF Passed
<1>2. received = SubSeq(Passed, 1, r)
  BY <1>1, Parts DEF Passed
<1> DEFINE first == SubSeq(output, 0 + 1, r)
           behind == SubSeq(output, r + 1, n)
<1> HIDE DEF output, n, r
<1>3. /\ 0 <= n /\ 0 <= r /\ r <= n /\ r <= n - 0 /\ r <= Len(output) /\ n - 0 = n /\ n \in Nat
      /\ 0 + 0 + 1 = 0 + 1 /\ 0 + r = r /\ 0 + 1 = 1
  BY <1>1
<1>4. SubSeq(SubSeq(output, 0 + 1, n), 0 + 1, r) = SubSeq(output, 0 + 0 + 1, 0 + r)
  BY <1>1, <1>3, Windows
<1>5. received = first
  BY <1>1, <1>2, <1>3, <1>4
<1>6. first \o behind = SubSeq(output, 0 + 1, n)
  <2>1. 0 \in Nat /\ r \in Nat /\ n \in Nat /\ 0 <= r /\ r <= n /\ n <= Len(output)
    BY <1>1, <1>3
  <2>2. output \in Seq(Cell)
    BY <1>1
  <2> QED BY <2>1, <2>2, Adjacent, ZenonT(60)
<1>7. behind \in Seq(Cell) /\ Len(behind) = n - r /\ Len(first) = r
  <2>1. first = received
    BY <1>5
  <2> QED BY <1>1, <1>3, <2>1, Window DEF r
<1>8. received \o handed = received \o behind
  BY <1>1, <1>5, <1>6 DEF Passed
<1> HIDE DEF first, behind
<1>9. \A i \in 1 .. Len(handed) : handed[i] = behind[i]
  <2> TAKE i \in 1 .. Len(handed)
  <2>1. Len(handed) = Len(behind) /\ Len(received) = r
    BY <1>1, <1>7 DEF r
  <2>2. r + i \in 1 .. Len(received) + Len(handed) /\ ~(r + i <= r) /\ (r + i) - r = i
    BY <1>1, <2>1
  <2>3. (received \o handed)[r + i] = handed[i]
    BY <1>1, <2>1, <2>2, ConcatProperties
  <2>4. (received \o behind)[r + i] = behind[i]
    BY <1>1, <1>7, <2>1, <2>2, ConcatProperties
  <2> QED BY <1>8, <2>3, <2>4
<1>10. handed = behind
  BY <1>1, <1>7, <1>9, SeqEqual
<1> QED BY <1>1, <1>3, <1>5, <1>10 DEF first, behind, output, n, r

\* A prefix with the next element is the next prefix.
LEMMA PrefixGrows ==
  ASSUME NEW S, NEW t \in Seq(S), NEW k \in Nat, k + 1 <= Len(t)
  PROVE  Append(SubSeq(t, 1, k), t[k + 1]) = SubSeq(t, 1, k + 1)
<1>1. 1 \in 1 .. Len(t) /\ k + 1 \in 1 .. Len(t) /\ k \in 0 .. Len(t) /\ (k + 1) - 1 = k /\ Len(t) \in Nat
  BY LenProperties
<1>2. SubSeq(t, 1, k + 1) = SubSeq(t, 1, (k + 1) - 1) \o <<t[k + 1]>>
  BY <1>1, SubSeqRecursiveSecond
<1>3. \A i \in 1 .. k : t[i] \in S
  BY <1>1, ElementOfSeq
<1>4. SubSeq(t, 1, k) \in Seq(S) /\ t[k + 1] \in S
  BY <1>1, <1>3, SubSeqProperties, ElementOfSeq
<1> QED BY <1>1, <1>2, <1>4, AppendIsConcat

LEMMA PrefixLen ==
  ASSUME NEW S, NEW t \in Seq(S), NEW k \in Nat, k <= Len(t)
  PROVE  SubSeq(t, 1, k) \in Seq(S) /\ Len(SubSeq(t, 1, k)) = k
<1>1. Len(t) \in Nat
  BY LenProperties
<1>2. \A i \in 1 .. k : t[i] \in S
  BY <1>1, ElementOfSeq
<1>3. (IF 1 <= k THEN k - 1 + 1 ELSE 0) = k
  OBVIOUS
<1> QED BY <1>2, <1>3, SubSeqProperties

LEMMA PrefixIs ==
  ASSUME NEW S, NEW t \in Seq(S), NEW s, Len(s) \in Nat, Len(s) <= Len(t), s = SubSeq(t, 1, Len(s))
  PROVE  IsPrefix(s, t)
<1>1. s \in Seq(S)
  BY PrefixLen
<1>2. SubSeq(s, 1, Len(s)) = s
  BY <1>1, SubSeqFull
<1> QED BY <1>2 DEF IsPrefix

-----------------------------------------------------------------------------
\* The batches of streamDecodeNative.

\* append() writes behind what there is, or into fresh memory.
LEMMA AppendedStays ==
  ASSUME NEW b, BufferOK(b), NEW chunk \in Seq(Cell),
         Appended(b, chunk).generation = b.generation
  PROVE  \A i \in 1 .. b.to : Appended(b, chunk).cells[i] = b.cells[i]
<1>1. b.to \in Nat /\ Len(b.cells) \in Nat /\ b.to <= Len(b.cells) /\ DOMAIN b.cells = 1 .. Len(b.cells)
      /\ Len(chunk) \in Nat /\ b.from \in Nat /\ b.from <= b.to
  BY ViewFacts, LenProperties DEF BufferOK
<1>2. CASE b.to + Len(chunk) > Len(b.cells)
  <2> DEFINE bytes == View(b) \o chunk
             size == Larger(2 * Len(b.cells), b.to + Len(chunk))
  <2>1. Appended(b, chunk) = Moved(b, bytes, size)
    BY <1>2 DEF Appended
  <2>2. bytes \in Seq(Cell) /\ Len(bytes) = (b.to - b.from) + Len(chunk)
    BY ViewFacts, Parts
  <2>3. size \in Nat /\ Len(bytes) <= size
    <3>1. size \in Nat /\ size >= b.to + Len(chunk)
      BY <1>1 DEF Larger
    <3> HIDE DEF size, bytes
    <3> QED BY <1>1, <2>2, <3>1, SMTT(60)
  <2> HIDE DEF size, bytes
  <2> QED BY <2>1, <2>2, <2>3, MovedView
<1>3. CASE ~(b.to + Len(chunk) > Len(b.cells))
  <2> DEFINE new == [i \in DOMAIN b.cells |->
                       IF i \in b.to + 1 .. b.to + Len(chunk) THEN chunk[i - b.to] ELSE b.cells[i]]
  <2>1. Appended(b, chunk) = [b EXCEPT !.cells = new, !.to = b.to + Len(chunk)]
    BY <1>3 DEF Appended
  <2>2. \A i \in 1 .. b.to : new[i] = b.cells[i]
    BY <1>1
  <2> HIDE DEF new
  <2>3. Appended(b, chunk).cells = new
    BY <2>1 DEF BufferOK
  <2> QED BY <2>2, <2>3
<1> QED BY <1>2, <1>3

\* startNextBlock() leaves the block behind and moves the rest to fresh memory.
LEMMA NextBlockView ==
  ASSUME NEW b, BufferOK(b), NEW n \in Nat, n <= Available(b)
  PROVE  /\ BufferOK(NextBlock(b, n)) /\ View(NextBlock(b, n)) = SubSeq(View(b), n + 1, Available(b))
         /\ NextBlock(b, n).generation # b.generation
<1> DEFINE cells == b.cells
           f == b.from
           t == b.to
           behind == SubSeq(cells, f + n + 1, t)
<1>1. /\ cells \in Seq(Cell) /\ f \in Nat /\ t \in Nat /\ f <= t /\ t <= Len(cells) /\ b.size \in Nat
      /\ Available(b) = t - f /\ Len(cells) \in Nat
  BY ViewFacts DEF BufferOK
<1>2. View(b) = SubSeq(cells, f + 1, t)
  BY DEF View
<1>3. NextBlock(b, n) = Moved(b, behind, Larger(b.size, Len(behind)))
  BY DEF NextBlock
<1> HIDE DEF cells, f, t
<1> DEFINE l == t - f
<1>4. f + n \in Nat /\ f + n <= t /\ l \in Nat /\ n <= l /\ l <= t - f /\ f + l = t
  BY <1>1
<1>5. behind \in Seq(Cell) /\ Len(behind) = t - (f + n)
  BY <1>1, <1>4, Window, ZenonT(60)
<1>6. SubSeq(SubSeq(cells, f + 1, t), n + 1, l) = SubSeq(cells, f + n + 1, f + l)
  <2> HIDE DEF l
  <2> QED BY <1>1, <1>4, Windows
<1>7. behind = SubSeq(View(b), n + 1, Available(b))
  BY <1>1, <1>2, <1>4, <1>6
<1> HIDE DEF behind
<1>8. Len(behind) \in Nat /\ Larger(b.size, Len(behind)) \in Nat /\ Len(behind) <= Larger(b.size, Len(behind))
  BY <1>1, <1>4, <1>5 DEF Larger
<1> DEFINE moved == Moved(b, behind, Larger(b.size, Len(behind)))
<1>9. BufferOK(moved) /\ View(moved) = behind /\ moved.generation # b.generation
  BY <1>5, <1>8, MovedView
<1> QED BY <1>3, <1>7, <1>9

\* The buffer holds what has been received from the start of the block at hand on, and
\* the batches are those of the blocks before it.
BlocksDecoded ==
  /\ layout = scenario.layout /\ block \in Nat /\ block <= Len(layout)
  /\ BufferOK(blockBuffer) /\ scenario.starts[block + 1] <= Len(received)
  /\ View(blockBuffer) = SubSeq(scenario.output, scenario.starts[block + 1] + 1, Len(received))
  /\ block < Len(layout) => IsPartial(Cell, partial, View(blockBuffer), Cuts)
  /\ Len(batches) = scenario.counts[block + 1] /\ Len(batches) <= Len(scenario.batches)
  /\ batches = SubSeq(scenario.batches, 1, Len(batches))
NativeInv == IF GoodCall /\ Native THEN BlocksDecoded ELSE batches = <<>>

LEMMA LayoutFacts ==
  ASSUME ReaderInv, GoodCall, Native
  PROVE  /\ IsBlocks(scenario) /\ Len(scenario.layout) \in Nat
         /\ \A b \in 1 .. Len(scenario.layout) : IsCuts(scenario.layout[b])
         /\ \A b \in 1 .. Len(scenario.layout) + 1 : scenario.starts[b] \in Nat /\ scenario.counts[b] \in Nat
         /\ scenario.batches \in Seq(Seq(Seq(Byte)))
<1>1. scenario \in Scenarios /\ scenario.consumer = "native" /\ scenario.call = "query" /\ scenario.ok
  BY DEF ReaderInv, ReaderTypes, GoodCall, Query, Native
<1>2. IsBlocks(scenario)
  BY <1>1, OutputAssumption
<1>3. scenario.batches \in Seq(Seq(Seq(Byte)))
  BY <1>1, ScenariosAssumption
<1>4. scenario.layout \in Seq(Seq(Nat)) /\ Laid(scenario, Len(scenario.layout) + 1)
  BY <1>2 DEF IsBlocks
<1>5. Len(scenario.layout) \in Nat /\ DOMAIN scenario.layout = 1 .. Len(scenario.layout)
  BY <1>4, LenProperties
<1>6. \A b \in 1 .. Len(scenario.layout) + 1 : scenario.starts[b] \in Nat /\ scenario.counts[b] \in Nat
  BY <1>4, <1>5, ElementOfSeq DEF Laid
<1> QED BY <1>2, <1>3, <1>5, <1>6 DEF IsBlocks

\* A chunk is taken: the columns decoded so far stay what they are.
LEMMA NativeTakes ==
  ASSUME BodyInv, OutputPassed, GoodCall, Native, BlocksDecoded, Take, UNCHANGED scenario
  PROVE  BlocksDecoded'
<1> DEFINE output == scenario.output
           s == scenario.starts[block + 1]
           r == Len(received)
           n == Len(Passed)
<1>1. /\ handed = SubSeq(output, r + 1, n) /\ r \in Nat /\ r <= n /\ n \in Nat /\ n <= Len(output)
      /\ output \in Seq(Cell) /\ handed \in Seq(Cell)
  BY HandedIs, BodyFacts, OutputFacts DEF BodyInv, OutputPassed, BodyTypes
<1>2. /\ blockBuffer' = Appended(blockBuffer, handed) /\ UNCHANGED <<layout, partial, block, batches>>
      /\ received' = received \o handed
  BY DEF Take, TakeChunk
<1>3. Len(received') = n
  BY <1>2 DEF Passed
<1>4. s \in Nat /\ s <= r /\ View(blockBuffer) = SubSeq(output, s + 1, r) /\ BufferOK(blockBuffer)
  <2>1. block + 1 \in 1 .. Len(scenario.layout) + 1
    BY LayoutFacts DEF BlocksDecoded, BodyInv
  <2> QED BY <2>1, LayoutFacts DEF BlocksDecoded, BodyInv
<1> HIDE DEF output, s, r, n
<1>5. BufferOK(blockBuffer') /\ View(blockBuffer') = View(blockBuffer) \o handed
  BY <1>1, <1>2, <1>4, AppendedView
<1>6. View(blockBuffer') = SubSeq(output, s + 1, n)
  <2>1. SubSeq(output, s + 1, r) \o SubSeq(output, r + 1, n) = SubSeq(output, s + 1, n)
    BY <1>1, <1>4, Adjacent
  <2> QED BY <1>1, <1>4, <1>5, <2>1
<1>7. s <= n
  BY <1>1, <1>4
<1>8. block < Len(layout) => IsPartial(Cell, partial, View(blockBuffer'), Cuts)
  <2>1. SUFFICES ASSUME block < Len(layout) PROVE IsPartial(Cell, partial, View(blockBuffer'), Cuts)
    OBVIOUS
  <2>2. IsCuts(Cuts)
    <3>1. layout = scenario.layout /\ block + 1 \in 1 .. Len(scenario.layout)
      BY <2>1, LayoutFacts DEF BlocksDecoded, BodyInv
    <3> QED BY <3>1, LayoutFacts DEF BodyInv, Cuts
  <2>3. View(blockBuffer) \in Seq(Cell)
    BY <1>4, ViewFacts
  <2>4. IsPartial(Cell, partial, View(blockBuffer), Cuts)
    BY <2>1 DEF BlocksDecoded
  <2>5. IsPartial(Cell, partial, View(blockBuffer) \o handed, Cuts)
    BY <1>1, <2>2, <2>3, <2>4, PartialExtends
  <2> QED BY <1>5, <2>5
<1>9. Cuts' = Cuts /\ partial' = partial
  BY <1>2 DEF Cuts
<1>10. (block < Len(layout) => IsPartial(Cell, partial, View(blockBuffer), Cuts))'
  BY <1>2, <1>8, <1>9
<1> QED BY <1>2, <1>3, <1>5, <1>6, <1>7, <1>10 DEF BlocksDecoded, output, s

\* The columns of a whole block are the batch that the server sent.
BatchOf(output, s, cuts) ==
  [k \in 1 .. Len(cuts) - 1 |-> SubSeq(output, s + cuts[k] + 1, s + cuts[k + 1])]

LEMMA BatchIs ==
  ASSUME NEW cuts, IsCuts(cuts), NEW output \in Seq(Cell), NEW s \in Nat, NEW r \in Nat, s <= r,
         r <= Len(output), NEW bytes, bytes = SubSeq(output, s + 1, r),
         NEW p, IsPartial(Cell, p, bytes, cuts), IsWhole(cuts, p), cuts[Len(cuts)] <= Len(bytes)
  PROVE  p.columns = BatchOf(output, s, cuts)
<1> DEFINE n == Len(cuts) - 1
<1>1. Len(cuts) \in Nat \ {0} /\ n \in Nat /\ Len(bytes) = r - s
  BY CutsFacts, Window
<1>2. /\ p.columns \in Seq(Seq(Cell)) /\ Len(p.columns) = n
      /\ \A k \in 1 .. n : p.columns[k] = SubSeq(bytes, cuts[k] + 1, cuts[k + 1])
  <2>1. p # NoPartial /\ Len(p.columns) = n
    BY DEF IsWhole, NoPartial
  <2> QED BY <2>1 DEF IsPartial
<1>3. ASSUME NEW k \in 1 .. n
      PROVE  p.columns[k] = SubSeq(output, s + cuts[k] + 1, s + cuts[k + 1])
  <2> DEFINE a == cuts[k]
             b == cuts[k + 1]
  <2>1. k \in 1 .. Len(cuts) /\ k + 1 \in 1 .. Len(cuts) /\ Len(cuts) \in 1 .. Len(cuts) /\ k < k + 1
    BY <1>1
  <2>2. a \in Nat /\ b \in Nat /\ a < b /\ b <= cuts[Len(cuts)] /\ cuts[Len(cuts)] \in Nat
    BY <2>1, CutsFacts
  <2> HIDE DEF a, b
  <2>3. a <= b /\ b <= r - s
    BY <1>1, <2>2
  <2>4. SubSeq(SubSeq(output, s + 1, r), a + 1, b) = SubSeq(output, s + a + 1, s + b)
    BY <2>2, <2>3, Windows
  <2> QED BY <1>2, <2>4 DEF a, b
<1>4. p.columns = [k \in 1 .. n |-> p.columns[k]]
  BY <1>2, LenProperties
<1> QED BY <1>3, <1>4 DEF BatchOf

\* A whole block is decoded.
LEMMA NativeDecodes ==
  ASSUME BodyInv, OutputPassed, GoodCall, Native, BlocksDecoded, NEW loop, Decoded(loop),
         UNCHANGED <<scenario, layout, received>>
  PROVE  BlocksDecoded' /\ blockBuffer'.generation # blockBuffer.generation
<1> DEFINE output == scenario.output
           s == scenario.starts[block + 1]
           next == scenario.starts[block + 2]
           r == Len(received)
           cuts == Cuts
           bytes == View(blockBuffer)
           t == Tried
           n == cuts[Len(cuts)]
           l == Available(blockBuffer)
           k == Len(batches)
<1>1. /\ layout = scenario.layout /\ block \in Nat /\ block + 1 \in 1 .. Len(layout)
      /\ block + 2 \in 1 .. Len(layout) + 1 /\ block + 1 \in 1 .. Len(layout) + 1
      /\ (block + 1) + 1 = block + 2 /\ block + 1 <= Len(layout) /\ Len(layout) \in Nat
      /\ DOMAIN layout = 1 .. Len(layout)
  <2>1. layout = scenario.layout /\ block \in Nat /\ block < Len(layout)
    BY DEF Decoded, BlocksDecoded
  <2>2. Len(layout) \in Nat /\ layout \in Seq(Seq(Nat))
    BY <2>1, LayoutFacts DEF BodyInv, IsBlocks
  <2> QED BY <2>1, <2>2, LenProperties
<1>2. /\ IsCuts(cuts) /\ s \in Nat /\ next \in Nat /\ scenario.batches \in Seq(Seq(Seq(Byte)))
      /\ next = s + n
      /\ next <= Len(output) => IsBatch(scenario, block + 1, cuts)
  <2>1. IsBlocks(scenario) /\ s \in Nat /\ next \in Nat /\ scenario.batches \in Seq(Seq(Seq(Byte)))
        /\ IsCuts(cuts)
    BY <1>1, LayoutFacts DEF BodyInv, Cuts
  <2> QED BY <1>1, <2>1 DEF IsBlocks, Cuts
<1>3. /\ BufferOK(blockBuffer) /\ s <= r /\ bytes = SubSeq(output, s + 1, r)
      /\ IsPartial(Cell, partial, bytes, cuts)
      /\ k = scenario.counts[block + 1] /\ k <= Len(scenario.batches)
      /\ batches = SubSeq(scenario.batches, 1, k)
  BY <1>1 DEF BlocksDecoded
<1>4. r \in Nat /\ r <= Len(output) /\ output \in Seq(Cell) /\ Len(output) \in Nat
  <2>1. r \in Nat /\ r <= Len(Passed) /\ Len(Passed) <= Len(output) /\ Len(Passed) \in Nat
        /\ output \in Seq(Cell) /\ Len(output) \in Nat
    BY HandedIs, BodyFacts, OutputFacts DEF BodyInv, OutputPassed
  <2> HIDE DEF output, r
  <2> QED BY <2>1
<1>5. IsWhole(cuts, t) /\ t = Attempt(bytes, cuts, partial)
  BY DEF Decoded, Tried
<1>6. /\ blockBuffer' = NextBlock(blockBuffer, t.resumeOffset) /\ partial' = NoPartial
      /\ block' = block + 1
      /\ batches' = IF IsEndMarker(cuts) THEN batches ELSE Append(batches, t.columns)
  BY DEF Decoded
<1> HIDE DEF output, s, r, cuts, bytes, t, k, next
<1>7. bytes \in Seq(Cell) /\ Len(bytes) = r - s /\ l = r - s
  BY <1>2, <1>3, <1>4, Window, ViewFacts DEF bytes
<1>8. /\ IsPartial(Cell, t, bytes, cuts) /\ n <= Len(bytes) /\ t.resumeOffset = n
  BY <1>2, <1>3, <1>5, <1>7, AttemptDecodes
<1>9. n \in Nat /\ n <= l
  <2>1. Len(cuts) \in 1 .. Len(cuts)
    BY <1>2, CutsFacts
  <2> QED BY <1>2, <1>7, <1>8, <2>1, CutsFacts
<1> HIDE DEF n, l
<1>10. /\ BufferOK(blockBuffer') /\ View(blockBuffer') = SubSeq(bytes, n + 1, l)
       /\ blockBuffer'.generation # blockBuffer.generation
  BY <1>3, <1>6, <1>8, <1>9, NextBlockView DEF l, bytes
<1>11. /\ next <= r /\ l \in Nat /\ l <= r - s /\ s + l = r /\ s + n = next
  BY <1>2, <1>3, <1>4, <1>7, <1>9
<1>12. View(blockBuffer') = SubSeq(output, next + 1, r)
  <2>1. SubSeq(SubSeq(output, s + 1, r), n + 1, l) = SubSeq(output, s + n + 1, s + l)
    BY <1>2, <1>3, <1>4, <1>9, <1>11, Windows
  <2> QED BY <1>3, <1>10, <1>11, <2>1
<1>13. IsPartial(Cell, partial', View(blockBuffer'), Cuts')
  BY <1>6 DEF IsPartial
<1>14. IsBatch(scenario, block + 1, cuts)
  <2>1. next <= Len(output)
    BY <1>2, <1>4, <1>11
  <2> QED BY <1>2, <2>1
<1>15. /\ Len(batches') = scenario.counts[block + 2] /\ Len(batches') <= Len(scenario.batches)
       /\ batches' = SubSeq(scenario.batches, 1, Len(batches'))
  <2>1. CASE IsEndMarker(cuts)
    BY <1>1, <1>3, <1>6, <1>14, <2>1 DEF IsBatch, k
  <2>2. CASE ~IsEndMarker(cuts)
    <3>1. k \in Nat
      BY <1>1, <1>3, LayoutFacts DEF BodyInv
    <3>2. /\ scenario.counts[block + 2] = k + 1 /\ k + 1 <= Len(scenario.batches)
          /\ scenario.batches[k + 1] =
               [j \in 1 .. Len(cuts) - 1 |->
                  SubSeq(scenario.output, scenario.starts[block + 1] + cuts[j] + 1,
                         scenario.starts[block + 1] + cuts[j + 1])]
      BY <1>1, <1>3, <1>14, <2>2 DEF IsBatch
    <3>3. t.columns = scenario.batches[k + 1]
      <4>1. /\ IsCuts(cuts) /\ output \in Seq(Cell) /\ s \in Nat /\ r \in Nat /\ s <= r /\ r <= Len(output)
            /\ bytes = SubSeq(output, s + 1, r) /\ IsPartial(Cell, t, bytes, cuts) /\ IsWhole(cuts, t)
            /\ cuts[Len(cuts)] <= Len(bytes)
        BY <1>2, <1>3, <1>4, <1>5, <1>8 DEF n
      <4>2. t.columns = BatchOf(output, s, cuts)
        BY <4>1, BatchIs
      <4> QED BY <3>2, <4>2 DEF BatchOf, s, output
    <3>4. batches' = SubSeq(scenario.batches, 1, k + 1)
      BY <1>2, <1>3, <1>6, <2>2, <3>1, <3>2, <3>3, PrefixGrows
    <3>5. Len(batches') = k + 1
      BY <1>2, <3>1, <3>2, <3>4, PrefixLen
    <3> QED BY <3>2, <3>4, <3>5
  <2> QED BY <2>1, <2>2
<1>16. BlocksDecoded'
  <2>1. block' + 1 = block + 2
    BY <1>1, <1>6
  <2>2. layout' = scenario'.layout /\ block' \in Nat /\ block' <= Len(layout')
    BY <1>1, <1>6
  <2>3. /\ scenario'.starts[block' + 1] <= Len(received')
        /\ View(blockBuffer') = SubSeq(scenario'.output, scenario'.starts[block' + 1] + 1, Len(received'))
    BY <1>11, <1>12, <2>1 DEF next, output, r
  <2>4. /\ Len(batches') = scenario'.counts[block' + 1] /\ Len(batches') <= Len(scenario'.batches)
        /\ batches' = SubSeq(scenario'.batches, 1, Len(batches'))
    BY <1>15, <2>1
  <2> QED BY <1>10, <1>13, <2>2, <2>3, <2>4 DEF BlocksDecoded
<1> QED BY <1>10, <1>16

blockVars == <<layout, blockBuffer, partial, block, batches>>

LEMMA NativeSteps ==
  ASSUME [Next]_vars
  PROVE  Take \/ Decoding \/ SummaryTaken \/ UNCHANGED <<nativeVars, received>>
<1>1. CASE Requesting
  <2>1. UNCHANGED <<nativeVars, resultVars>>
    BY <1>1 DEF Requesting, Call, OtherCall, Loading, Initialized, Peek, PeekFails, Upload, PartEnds,
       PullFirst, SourceChunk, PullOn, SourceEnds, SourceFails
  <2> QED BY <2>1 DEF resultVars
<1>2. CASE Answering
  BY <1>2 DEF Answering, Responds, FetchFails, TimerFires, ErrorRead, Reply, BodyReads, BodyEnds,
     BodyFails, BodyStep, resultVars
<1>3. CASE (GoingOn /\ ~SummaryTaken /\ ~Take /\ ~Decoding) \/ Abandon
  BY <1>3 DEF GoingOn, HeaderTaken, BodyOpens, BodyResumes, BodyStep, Parsing, Reading,
     LastRecord, Summarize, AllDecoded, Throws, PacketThrows, LineThrows, Abandon, resultVars
<1>4. CASE UNCHANGED vars
  BY <1>4 DEF vars, resultVars
<1> QED BY <1>1, <1>2, <1>3, <1>4 DEF Next

\* What a step of the decoder may do to its buffer and its blocks.
LEMMA DecodingIs ==
  ASSUME Decoding
  PROVE  /\ Native /\ UNCHANGED <<layout, received>>
         /\ \/ UNCHANGED blockVars
            \/ Decoded("decoding") \/ Decoded("final")
            \/ block < Len(layout) /\ partial' = Tried /\ UNCHANGED <<layout, blockBuffer, block, batches>>
<1>1. Native /\ (TryBlock \/ TryFinal \/ NextBatch) /\ UNCHANGED resultVars
  BY DEF Decoding
<1>2. CASE TryBlock
  BY <1>1, <1>2 DEF TryBlock, Underflow, resultVars, blockVars
<1>3. CASE TryFinal
  BY <1>1, <1>3 DEF TryFinal, resultVars, blockVars
<1>4. CASE NextBatch
  BY <1>1, <1>4 DEF NextBatch, resultVars, blockVars
<1> QED BY <1>1, <1>2, <1>3, <1>4

LEMMA UnderflowDecodes ==
  ASSUME BodyInv, GoodCall, Native, BlocksDecoded, block < Len(layout), partial' = Tried,
         UNCHANGED <<scenario, layout, blockBuffer, block, batches, received>>
  PROVE  BlocksDecoded'
<1>1. layout = scenario.layout /\ block + 1 \in 1 .. Len(scenario.layout)
  BY LayoutFacts DEF BlocksDecoded, BodyInv
<1>2. IsCuts(Cuts)
  BY <1>1, LayoutFacts DEF BodyInv, Cuts
<1>3. View(blockBuffer) \in Seq(Cell) /\ IsPartial(Cell, partial, View(blockBuffer), Cuts)
  BY ViewFacts DEF BlocksDecoded
<1>4. IsPartial(Cell, Tried, View(blockBuffer), Cuts)
  BY <1>2, <1>3, AttemptDecodes DEF Tried
<1>5. IsPartial(Cell, partial', View(blockBuffer'), Cuts')
  BY <1>4 DEF Cuts
<1> QED BY <1>5 DEF BlocksDecoded

LEMMA NativeStep ==
  ASSUME BodyInv, CallInv, OutputPassed, NativeInv, [Next]_vars
  PROVE  /\ NativeInv'
         /\ \/ UNCHANGED blockBuffer
            \/ blockBuffer'.generation # blockBuffer.generation
            \/ BufferOK(blockBuffer) /\ handed \in Seq(Cell) /\ blockBuffer' = Appended(blockBuffer, handed)
<1>1. scenario' = scenario /\ (GoodCall' <=> GoodCall) /\ (Native' <=> Native)
  BY ScenarioStands DEF GoodCall, Query, Native
<1>2. CASE Take
  <2>1. GoodCall
    BY <1>2 DEF Take, CallInv, Consuming
  <2>2. CASE Native
    <3>1. BlocksDecoded
      BY <2>1, <2>2 DEF NativeInv
    <3>2. BlocksDecoded'
      BY <1>1, <1>2, <2>1, <2>2, <3>1, NativeTakes
    <3>3. BufferOK(blockBuffer) /\ blockBuffer' = Appended(blockBuffer, handed)
      BY <1>2, <2>2, <3>1 DEF BlocksDecoded, Take, TakeChunk
    <3>4. handed \in Seq(Cell)
      BY BodyFacts DEF BodyTypes
    <3> QED BY <1>1, <2>1, <2>2, <3>2, <3>3, <3>4 DEF NativeInv
  <2>3. CASE ~Native
    <3>1. UNCHANGED <<blockBuffer, batches>>
      BY <1>2, <2>3 DEF Take, nativeVars
    <3> QED BY <1>1, <2>3, <3>1 DEF NativeInv
  <2> QED BY <2>2, <2>3
<1>3. CASE Decoding
  <2>1. GoodCall /\ Native /\ BlocksDecoded
    BY <1>3 DEF Decoding, CallInv, Consuming, NativeInv
  <2>2. UNCHANGED <<layout, received>>
    BY <1>3, DecodingIs
  <2>3. CASE UNCHANGED blockVars
    BY <1>1, <2>1, <2>2, <2>3 DEF blockVars, NativeInv, BlocksDecoded, Cuts
  <2>4. CASE Decoded("decoding") \/ Decoded("final")
    BY <1>1, <2>1, <2>2, <2>4, NativeDecodes DEF NativeInv
  <2>5. CASE block < Len(layout) /\ partial' = Tried /\ UNCHANGED <<layout, blockBuffer, block, batches>>
    BY <1>1, <2>1, <2>2, <2>5, UnderflowDecodes DEF NativeInv
  <2> QED BY <1>3, <2>3, <2>4, <2>5, DecodingIs
<1>4. CASE UNCHANGED <<blockVars, received>>
  BY <1>1, <1>4 DEF blockVars, NativeInv, BlocksDecoded, Cuts
<1>5. CASE SummaryTaken \/ UNCHANGED <<nativeVars, received>>
  <2>1. UNCHANGED <<blockVars, received>>
    BY <1>5 DEF SummaryTaken, LastChunk, nativeVars, resultVars, blockVars
  <2> QED BY <1>4, <2>1
<1> QED BY <1>2, <1>3, <1>5, NativeSteps

LEMMA NativeFirst ==
  ASSUME Init
  PROVE  NativeInv
<1>1. ReaderInv
  BY ReaderInit
<1>2. /\ layout = scenario.layout /\ block = 0 /\ blockBuffer = Fresh(MinBuffer) /\ partial = NoPartial
      /\ batches = <<>> /\ received = <<>>
  BY DEF Init, NativeInit
<1>3. SUFFICES ASSUME GoodCall, Native PROVE BlocksDecoded
  BY <1>2 DEF NativeInv
<1>4. /\ scenario.starts[1] = 0 /\ scenario.counts[1] = 0 /\ Len(scenario.layout) \in Nat
      /\ scenario.batches \in Seq(Seq(Seq(Byte)))
  BY <1>1, <1>3, LayoutFacts DEF IsBlocks, Laid
<1>5. BufferOK(blockBuffer) /\ View(blockBuffer) = <<>>
  BY <1>2, FreshBuffer, RetryAssumption
<1>6. Len(received) = 0 /\ Len(batches) = 0 /\ block + 1 = 1 /\ Len(scenario.batches) \in Nat
  BY <1>2, <1>4, EmptySeq, LenProperties
<1>7. SubSeq(scenario.output, 0 + 1, 0) = <<>> /\ SubSeq(scenario.batches, 1, 0) = <<>>
  BY SubSeqEmpty
<1>8. IsPartial(Cell, partial, View(blockBuffer), Cuts)
  BY <1>2 DEF IsPartial
<1>9. /\ layout = scenario.layout /\ block \in Nat /\ block <= Len(layout)
      /\ scenario.starts[block + 1] <= Len(received) /\ Len(batches) = scenario.counts[block + 1]
      /\ Len(batches) <= Len(scenario.batches)
  BY <1>2, <1>4, <1>6
<1>10. /\ View(blockBuffer) = SubSeq(scenario.output, scenario.starts[block + 1] + 1, Len(received))
       /\ batches = SubSeq(scenario.batches, 1, Len(batches))
  BY <1>2, <1>4, <1>5, <1>6, <1>7
<1> QED BY <1>5, <1>8, <1>9, <1>10 DEF BlocksDecoded

LEMMA NativeInvariant == Spec => [](BodyInv /\ CallInv /\ OutputPassed /\ NativeInv)
<1>1. BodyInv /\ CallInv /\ OutputPassed /\ NativeInv /\ [Next]_vars => NativeInv'
  BY NativeStep
<1> QED BY <1>1, NativeFirst, OutputInvariant, PTL DEF Spec

\* "zero-copy views handed out while decoding earlier blocks are never mutated
\* afterwards": the columns of a batch stay what they were, whatever is received and
\* decoded after it (streamDecodeNative; append and startNextBlock of BlockBuffer).
THEOREM BatchViewsStay == Spec => ViewsStay
<1> DEFINE Stay == blockBuffer'.generation = blockBuffer.generation =>
                     \A i \in 1 .. blockBuffer.to : blockBuffer'.cells[i] = blockBuffer.cells[i]
<1>1. BodyInv /\ CallInv /\ OutputPassed /\ NativeInv /\ [Next]_vars => Stay
  BY NativeStep, AppendedStays
<1>2. BodyInv /\ CallInv /\ OutputPassed /\ NativeInv /\ [Next]_vars => [Stay]_vars
  BY <1>1
<1> QED BY <1>2, NativeInvariant, PTL DEF Spec, ViewsStay
-----------------------------------------------------------------------------
\* The packets of parseFramedStream.

LEMMA Marks ==
  ASSUME NEW format \in DOMAIN Delimiter
  PROVE  LET mark == Delimiter[format]
         IN Len(mark) \in Nat \ {0} /\ DOMAIN mark = 1 .. Len(mark)
<1>1. Delimiter[format] \in {<<"n", "n">>, <<"n">>}
  BY DEF Delimiter
<1>2. /\ Len(<<"n", "n">>) = 2 /\ DOMAIN <<"n", "n">> = 1 .. 2
      /\ Len(<<"n">>) = 1 /\ DOMAIN <<"n">> = 1 .. 1
  OBVIOUS
<1> QED BY <1>1, <1>2

\* A delimiter stands in a window where it stands in the whole.
LEMMA StandsIn ==
  ASSUME NEW w \in Seq(Cell), NEW p \in Nat, NEW q \in Nat, p <= q, q <= Len(w),
         NEW mark, Len(mark) \in Nat, DOMAIN mark = 1 .. Len(mark),
         NEW k \in Nat, k + Len(mark) <= q - p
  PROVE  StandsAt(SubSeq(w, p + 1, q), mark, k) <=> StandsAt(w, mark, p + k)
<1> DEFINE s == SubSeq(w, p + 1, q)
<1>1. Len(s) = q - p /\ \A i \in 1 .. q - p : s[i] = w[p + i]
  BY Window
<1> HIDE DEF s
<1>2. Len(w) \in Nat
  BY LenProperties
<1>3. ASSUME NEW j \in 1 .. Len(mark)
      PROVE  s[k + j] = w[(p + k) + j]
  <2>1. k + j \in 1 .. q - p /\ p + (k + j) = (p + k) + j
    OBVIOUS
  <2> QED BY <1>1, <2>1
<1>4. k + Len(mark) <= Len(s) /\ (p + k) + Len(mark) <= Len(w)
  BY <1>1, <1>2
<1>5. StandsAt(s, mark, k) <=> StandsAt(w, mark, p + k)
  BY <1>3, <1>4 DEF StandsAt
<1> QED BY <1>5 DEF s

\* What is left of the text begins where a record does, and the packets are those of
\* the records before it; no delimiter begins in what has been scanned, which ends
\* where one that is not all there could begin.
RecordsCut ==
  /\ delimiter = Delimiter[scenario.format]
  /\ \E i \in 1 .. Len(scenario.starts) :
       /\ scenario.starts[i] <= Len(received)
       /\ text = SubSeq(scenario.output, scenario.starts[i] + 1, Len(received))
       /\ Len(packets) = scenario.counts[i]
  /\ from \in Nat /\ \A k \in 0 .. from - 1 : ~DelimiterAt(k)
  /\ from = 0 \/ from + Len(delimiter) <= Len(text) + 1
  /\ Len(packets) <= Len(scenario.packets) /\ packets = SubSeq(scenario.packets, 1, Len(packets))
  /\ <<progress, counter>> = scenario.totals[Len(packets) + 1]
FramedInv ==
  IF GoodCall /\ Framed THEN RecordsCut ELSE packets = <<>> /\ progress = 0 /\ counter = 0

LEMMA RecordFacts ==
  ASSUME ReaderInv, GoodCall, Framed
  PROVE  /\ scenario.format \in DOMAIN Delimiter /\ IsRecords(scenario, Delimiter[scenario.format])
         /\ scenario.packets \in Seq(Seq(Byte)) /\ scenario.totals[1] = <<0, 0>>
         /\ Len(scenario.starts) \in Nat \ {0}
         /\ \A i \in 1 .. Len(scenario.starts) : scenario.starts[i] \in Nat /\ scenario.counts[i] \in Nat
<1>1. scenario \in Scenarios /\ scenario.consumer = "framed" /\ scenario.call = "query" /\ scenario.ok
  BY DEF ReaderInv, ReaderTypes, GoodCall, Query, Framed
<1>2. scenario.format \in DOMAIN Delimiter /\ IsRecords(scenario, Delimiter[scenario.format])
  BY <1>1, OutputAssumption
<1>3. scenario.packets \in Seq(Seq(Byte)) /\ scenario.totals[1] = <<0, 0>>
  BY <1>1, ScenariosAssumption
<1>4. Laid(scenario, Len(scenario.starts))
  BY <1>2 DEF IsRecords
<1>5. /\ scenario.starts \in Seq(Nat) /\ scenario.counts \in Seq(Nat)
      /\ Len(scenario.counts) = Len(scenario.starts) /\ Len(scenario.starts) > 0
  BY <1>4 DEF Laid
<1>6. Len(scenario.starts) \in Nat \ {0}
  <2>1. Len(scenario.starts) \in Nat
    BY <1>5, LenProperties
  <2> QED BY <1>5, <2>1
<1>7. \A i \in 1 .. Len(scenario.starts) : scenario.starts[i] \in Nat /\ scenario.counts[i] \in Nat
  BY <1>5, ElementOfSeq
<1> QED BY <1>2, <1>3, <1>6, <1>7

\* The text from the i-th record on.
LEMMA TextFacts ==
  ASSUME BodyInv, OutputPassed, GoodCall, Framed, RecordsCut,
         NEW i \in 1 .. Len(scenario.starts), scenario.starts[i] <= Len(received),
         text = SubSeq(scenario.output, scenario.starts[i] + 1, Len(received))
  PROVE  /\ scenario.output \in Seq(Cell) /\ Len(scenario.output) \in Nat
         /\ scenario.starts[i] \in Nat /\ Len(received) \in Nat /\ Len(received) <= Len(scenario.output)
         /\ text \in Seq(Cell) /\ Len(text) = Len(received) - scenario.starts[i]
         /\ Len(delimiter) \in Nat \ {0} /\ DOMAIN delimiter = 1 .. Len(delimiter)
<1> DEFINE output == scenario.output
           a == scenario.starts[i]
           r == Len(received)
<1>1. /\ output \in Seq(Cell) /\ Len(output) \in Nat /\ a \in Nat
      /\ r \in Nat /\ r <= Len(Passed) /\ Len(Passed) <= Len(output) /\ Len(Passed) \in Nat
      /\ a <= r /\ text = SubSeq(output, a + 1, r)
  BY HandedIs, BodyFacts, OutputFacts, RecordFacts DEF BodyInv, OutputPassed
<1>2. /\ Len(delimiter) \in Nat \ {0} /\ DOMAIN delimiter = 1 .. Len(delimiter)
  <2>1. delimiter = Delimiter[scenario.format] /\ scenario.format \in DOMAIN Delimiter
    BY RecordFacts DEF RecordsCut, BodyInv
  <2> QED BY <2>1, Marks
<1> HIDE DEF output, a, r
<1>3. r <= Len(output)
  BY <1>1
<1>4. text \in Seq(Cell) /\ Len(text) = r - a
  <2>1. SubSeq(output, a + 1, r) \in Seq(Cell) /\ Len(SubSeq(output, a + 1, r)) = r - a
    BY <1>1, <1>3, Window
  <2> QED BY <1>1, <2>1
<1> QED BY <1>1, <1>2, <1>3, <1>4 DEF output, a, r

LEMMA FramedTakes ==
  ASSUME BodyInv, OutputPassed, GoodCall, Framed, RecordsCut, Take, UNCHANGED scenario
  PROVE  RecordsCut'
<1> DEFINE output == scenario.output
           r == Len(received)
           n == Len(Passed)
<1>1. PICK i \in 1 .. Len(scenario.starts) :
        /\ scenario.starts[i] <= r /\ text = SubSeq(output, scenario.starts[i] + 1, r)
        /\ Len(packets) = scenario.counts[i]
  BY DEF RecordsCut
<1> DEFINE a == scenario.starts[i]
<1>2. /\ output \in Seq(Cell) /\ Len(output) \in Nat /\ a \in Nat /\ r \in Nat /\ a <= r
      /\ text \in Seq(Cell) /\ Len(text) = r - a /\ text = SubSeq(output, a + 1, r)
      /\ Len(delimiter) \in Nat \ {0} /\ DOMAIN delimiter = 1 .. Len(delimiter)
  BY <1>1, TextFacts
<1>3. /\ handed = SubSeq(output, r + 1, n) /\ r <= n /\ n \in Nat /\ n <= Len(output)
  BY HandedIs, BodyFacts DEF BodyInv, OutputPassed
<1>4. /\ text' = text \o handed /\ UNCHANGED <<delimiter, from, packets, progress, counter>>
      /\ received' = received \o handed
  BY DEF Take, TakeText
<1>5. Len(received') = n
  BY <1>4 DEF Passed
<1>6. from \in Nat /\ (\A k \in 0 .. from - 1 : ~StandsAt(text, delimiter, k))
      /\ (from = 0 \/ from + Len(delimiter) <= Len(text) + 1)
  BY DEF RecordsCut, DelimiterAt
<1> HIDE DEF output, r, n, a
<1>7. text' = SubSeq(output, a + 1, n) /\ Len(text') = n - a
  <2>1. SubSeq(output, a + 1, r) \o SubSeq(output, r + 1, n) = SubSeq(output, a + 1, n)
    BY <1>2, <1>3, Adjacent
  <2>2. text' = SubSeq(output, a + 1, n)
    BY <1>2, <1>3, <1>4, <2>1
  <2>3. a <= n
    BY <1>2, <1>3
  <2> QED BY <1>2, <1>3, <2>2, <2>3, Window
<1>8. ASSUME NEW k \in 0 .. from - 1
      PROVE  ~StandsAt(text', delimiter, k)
  <2> DEFINE d == Len(delimiter)
             l == Len(text)
  <2>1. ~StandsAt(text, delimiter, k)
    BY <1>6, <1>8
  <2>2. d \in Nat /\ l = r - a /\ from + d <= l + 1 /\ from \in Nat /\ k \in Nat
    BY <1>2, <1>6, <1>8
  <2> HIDE DEF d, l
  <2>3. k + d <= r - a /\ k + d <= n - a /\ a <= n /\ r <= Len(output)
    BY <1>2, <1>3, <1>8, <2>2
  <2>4. StandsAt(SubSeq(output, a + 1, r), delimiter, k) <=> StandsAt(output, delimiter, a + k)
    BY <1>2, <1>3, <2>2, <2>3, StandsIn DEF d
  <2>5. StandsAt(SubSeq(output, a + 1, n), delimiter, k) <=> StandsAt(output, delimiter, a + k)
    BY <1>2, <1>3, <2>2, <2>3, StandsIn DEF d
  <2> QED BY <1>2, <1>7, <2>1, <2>4, <2>5
<1>9. from = 0 \/ from + Len(delimiter) <= Len(text') + 1
  <2>1. Len(text) <= Len(text') /\ Len(text) \in Nat /\ Len(text') \in Nat
    BY <1>2, <1>3, <1>7
  <2> QED BY <1>2, <1>6, <2>1
<1>10. /\ scenario'.starts[i] <= Len(received')
       /\ text' = SubSeq(scenario'.output, scenario'.starts[i] + 1, Len(received'))
       /\ Len(packets') = scenario'.counts[i] /\ i \in 1 .. Len(scenario'.starts)
  <2>1. a <= n
    BY <1>2, <1>3
  <2> QED BY <1>1, <1>4, <1>5, <1>7, <2>1 DEF a, output
<1>11. from' \in Nat /\ \A k \in 0 .. from' - 1 : ~DelimiterAt(k)'
  BY <1>4, <1>6, <1>8 DEF DelimiterAt
<1>12. from' = 0 \/ from' + Len(delimiter') <= Len(text') + 1
  BY <1>4, <1>9
<1>13. /\ delimiter' = Delimiter[scenario'.format]
       /\ Len(packets') <= Len(scenario'.packets) /\ packets' = SubSeq(scenario'.packets, 1, Len(packets'))
       /\ <<progress', counter'>> = scenario'.totals[Len(packets') + 1]
  BY <1>4 DEF RecordsCut
<1> QED BY <1>10, <1>11, <1>12, <1>13 DEF RecordsCut

\* The first delimiter of the text ends the record at hand.
LEMMA RecordEnds ==
  ASSUME BodyInv, OutputPassed, GoodCall, Framed, RecordsCut,
         NEW i \in 1 .. Len(scenario.starts), scenario.starts[i] <= Len(received),
         text = SubSeq(scenario.output, scenario.starts[i] + 1, Len(received)),
         NEW end \in Delimiters, \A j \in Delimiters : end <= j
  PROVE  /\ i < Len(scenario.starts) /\ end \in Nat /\ end + Len(delimiter) <= Len(text)
         /\ scenario.starts[i] + end = scenario.starts[i + 1] - Len(delimiter)
<1> DEFINE output == scenario.output
           a == scenario.starts[i]
           r == Len(received)
           d == Len(delimiter)
           l == Len(text)
<1>1. /\ output \in Seq(Cell) /\ Len(output) \in Nat /\ a \in Nat /\ r \in Nat /\ a <= r /\ r <= Len(output)
      /\ l = r - a /\ text = SubSeq(output, a + 1, r) /\ l \in Nat
      /\ d \in Nat \ {0} /\ DOMAIN delimiter = 1 .. d
  <2>1. /\ output \in Seq(Cell) /\ Len(output) \in Nat /\ a \in Nat /\ r \in Nat /\ a <= r /\ r <= Len(output)
        /\ l = r - a /\ text = SubSeq(output, a + 1, r)
        /\ d \in Nat \ {0} /\ DOMAIN delimiter = 1 .. d
    BY TextFacts
  <2>2. l \in Nat
    BY <2>1
  <2> QED BY <2>1, <2>2
<1>2. /\ delimiter = Delimiter[scenario.format] /\ from \in Nat
      /\ \A k \in 0 .. from - 1 : ~StandsAt(text, delimiter, k)
  BY DEF RecordsCut, DelimiterAt
<1>3. /\ IsRecords(scenario, delimiter) /\ Len(scenario.starts) \in Nat \ {0}
      /\ \A j \in 1 .. Len(scenario.starts) : scenario.starts[j] \in Nat
  BY <1>2, RecordFacts DEF BodyInv
<1>4. end \in from .. l /\ StandsAt(text, delimiter, end)
  BY DEF Delimiters, DelimiterAt
<1> HIDE DEF output, a, r, d, l
<1>5. end \in Nat /\ end + d <= l
  <2>1. end + d <= l
    BY <1>4 DEF StandsAt, d, l
  <2>2. end \in Nat
    BY <1>2, <1>4
  <2> QED BY <2>1, <2>2
<1>6. StandsAt(output, delimiter, a + end)
  <2>1. StandsAt(SubSeq(output, a + 1, r), delimiter, end) <=> StandsAt(output, delimiter, a + end)
    BY <1>1, <1>5, StandsIn DEF d
  <2> QED BY <1>1, <1>4, <2>1
<1>7. i < Len(scenario.starts)
  <2>1. SUFFICES ASSUME i = Len(scenario.starts) PROVE FALSE
    BY <1>3
  <2>2. \A k \in a .. Len(output) : ~StandsAt(output, delimiter, k)
    BY <1>3, <2>1 DEF IsRecords, a, output
  <2>3. /\ a \in Nat /\ r \in Nat /\ d \in Nat /\ end \in Nat /\ Len(output) \in Nat
        /\ end + d <= r - a /\ r <= Len(output)
    BY <1>1, <1>5
  <2>4. a + end \in a .. Len(output)
    BY <2>3
  <2> QED BY <1>6, <2>2, <2>4
<1> DEFINE next == scenario.starts[i + 1]
           e == next - d
<1>8. /\ i \in 1 .. Len(scenario.starts) - 1 /\ next \in Nat
      /\ a <= e /\ StandsAt(output, delimiter, e) /\ \A k \in a .. e - 1 : ~StandsAt(output, delimiter, k)
  <2>1. i \in 1 .. Len(scenario.starts) - 1 /\ i + 1 \in 1 .. Len(scenario.starts)
    BY <1>3, <1>7
  <2> QED BY <1>3, <2>1 DEF IsRecords, a, output, d
<1> HIDE DEF next
<1>9. e \in Int /\ e <= a + end
  <2>1. e \in Int
    BY <1>1, <1>8
  <2> HIDE DEF e
  <2>2. ~(a + end \in a .. e - 1)
    BY <1>6, <1>8
  <2> QED BY <1>1, <1>5, <2>1, <2>2
<1> HIDE DEF e
<1> DEFINE k == e - a
<1>10. k \in Nat /\ k <= end /\ a + k = e /\ k + d <= r - a
  BY <1>1, <1>5, <1>8, <1>9
<1> HIDE DEF k
<1>11. StandsAt(text, delimiter, k)
  <2>1. StandsAt(SubSeq(output, a + 1, r), delimiter, k) <=> StandsAt(output, delimiter, a + k)
    BY <1>1, <1>10, StandsIn DEF d
  <2> QED BY <1>1, <1>8, <1>10, <2>1
<1>12. k \in from .. l
  <2>1. ~(k \in 0 .. from - 1)
    BY <1>2, <1>11
  <2>2. /\ k \in Nat /\ from \in Nat /\ end \in Nat /\ d \in Nat /\ l \in Nat
        /\ k <= end /\ end + d <= l
    BY <1>1, <1>2, <1>5, <1>10
  <2> QED BY <2>1, <2>2
<1>13. k \in Delimiters
  BY <1>11, <1>12 DEF Delimiters, DelimiterAt, l
<1>14. end = k
  BY <1>5, <1>10, <1>13
<1> QED BY <1>5, <1>7, <1>10, <1>14 DEF a, e, next, d, l

\* What becomes of the packets when the i-th record is cut off.
LEMMA PacketIs ==
  ASSUME ReaderInv, GoodCall, Framed, RecordsCut, UNCHANGED scenario,
         NEW i \in 1 .. Len(scenario.starts), Len(packets) = scenario.counts[i],
         IsPacket(scenario, i, record'),
         IF MakesPacket(record') THEN Deliver(record') ELSE UNCHANGED <<parser, packets, progress, counter>>
  PROVE  /\ Len(packets') = scenario.counts[i + 1]
         /\ Len(packets') <= Len(scenario.packets) /\ packets' = SubSeq(scenario.packets, 1, Len(packets'))
         /\ <<progress', counter'>> = scenario.totals[Len(packets') + 1]
<1> DEFINE r == record'
           n == Len(packets)
<1>1. /\ n \in Nat /\ n = scenario.counts[i] /\ n <= Len(scenario.packets)
      /\ packets = SubSeq(scenario.packets, 1, n) /\ <<progress, counter>> = scenario.totals[n + 1]
      /\ scenario.packets \in Seq(Seq(Byte)) /\ Len(scenario.packets) \in Nat
  BY RecordFacts, LenProperties DEF RecordsCut
<1>2. CASE ~MakesPacket(r) \/ r[1][1] = "e"
  <2>1. UNCHANGED <<packets, progress, counter>>
    <3>1. CASE ~MakesPacket(r)
      BY <3>1
    <3>2. CASE MakesPacket(r) /\ r[1][1] = "e"
      BY <3>2 DEF Deliver, Progressed, Counted
    <3> QED BY <1>2, <3>1, <3>2
  <2>2. scenario.counts[i + 1] = scenario.counts[i]
    BY <1>2 DEF IsPacket
  <2> QED BY <1>1, <2>1, <2>2
<1>3. CASE ~(~MakesPacket(r) \/ r[1][1] = "e")
  <2>1. /\ packets' = Append(packets, r)
        /\ progress' = Progressed(progress, r) /\ counter' = Counted(counter, r)
    BY <1>3 DEF Deliver
  <2>2. /\ scenario.counts[i + 1] = scenario.counts[i] + 1
        /\ scenario.counts[i] + 1 <= Len(scenario.packets) /\ scenario.packets[scenario.counts[i] + 1] = r
        /\ scenario.totals[scenario.counts[i] + 1 + 1] =
             <<Progressed(scenario.totals[scenario.counts[i] + 1][1], r),
               Counted(scenario.totals[scenario.counts[i] + 1][2], r)>>
    BY <1>3 DEF IsPacket
  <2> HIDE DEF n, r
  <2>3. packets' = SubSeq(scenario.packets, 1, n + 1)
    BY <1>1, <2>1, <2>2, PrefixGrows
  <2>4. Len(packets') = n + 1
    BY <1>1, <2>2, <2>3, PrefixLen
  <2>5. progress = scenario.totals[n + 1][1] /\ counter = scenario.totals[n + 1][2]
    <3>1. <<progress, counter>> = scenario.totals[n + 1]
      BY <1>1
    <3>2. scenario.totals[n + 1][1] = <<progress, counter>>[1]
          /\ scenario.totals[n + 1][2] = <<progress, counter>>[2]
      BY <3>1, Zenon
    <3>3. <<progress, counter>>[1] = progress /\ <<progress, counter>>[2] = counter
      OBVIOUS
    <3> QED BY <3>2, <3>3, Zenon
  <2>6. <<progress', counter'>> = scenario.totals[n + 1 + 1]
    BY <1>1, <2>1, <2>2, <2>5
  <2> QED BY <1>1, <2>2, <2>3, <2>4, <2>6
<1> QED BY <1>2, <1>3

LEMMA FramedCuts ==
  ASSUME BodyInv, OutputPassed, GoodCall, Framed, RecordsCut, CutRecord, UNCHANGED <<scenario, received>>
  PROVE  RecordsCut'
<1> DEFINE output == scenario.output
           r == Len(received)
           d == Len(delimiter)
           l == Len(text)
           end == CHOOSE k \in Delimiters : \A j \in Delimiters : k <= j
<1>1. PICK i \in 1 .. Len(scenario.starts) :
        /\ scenario.starts[i] <= r /\ text = SubSeq(output, scenario.starts[i] + 1, r)
        /\ Len(packets) = scenario.counts[i]
  BY DEF RecordsCut
<1> DEFINE a == scenario.starts[i]
           next == scenario.starts[i + 1]
<1>2. /\ output \in Seq(Cell) /\ Len(output) \in Nat /\ a \in Nat /\ r \in Nat /\ a <= r /\ r <= Len(output)
      /\ text \in Seq(Cell) /\ l = r - a /\ text = SubSeq(output, a + 1, r)
      /\ d \in Nat \ {0} /\ DOMAIN delimiter = 1 .. d
  BY <1>1, TextFacts
<1>3. Delimiters # {} /\ Delimiters \in SUBSET Nat
  <2>1. from \in Nat /\ l \in Nat
    BY <1>2, LenProperties DEF RecordsCut
  <2> QED BY <2>1 DEF CutRecord, Delimiters
<1>4. end \in Delimiters /\ \A j \in Delimiters : end <= j
  <2>1. \E k \in Delimiters : \A j \in Delimiters : k <= j
    BY <1>3, LeastNatural
  <2> QED BY <2>1
<1>5. /\ record' = SubSeq(text, 1, end) /\ text' = SubSeq(text, end + d + 1, l)
      /\ from' = 0 /\ UNCHANGED delimiter
      /\ IF MakesPacket(record') THEN Deliver(record') ELSE UNCHANGED <<parser, packets, progress, counter>>
  BY DEF CutRecord
<1> HIDE DEF end
<1>6. /\ i < Len(scenario.starts) /\ end \in Nat /\ end + d <= l /\ a + end = next - d
  BY <1>1, <1>4, RecordEnds
<1>7. /\ i \in 1 .. Len(scenario.starts) - 1 /\ i + 1 \in 1 .. Len(scenario.starts) /\ next \in Nat
      /\ IsRecords(scenario, delimiter) /\ delimiter = Delimiter[scenario.format]
  <2>1. Len(scenario.starts) \in Nat
    BY RecordFacts DEF BodyInv
  <2>2. i \in 1 .. Len(scenario.starts) - 1 /\ i + 1 \in 1 .. Len(scenario.starts)
    BY <1>6, <2>1
  <2>3. IsRecords(scenario, delimiter) /\ delimiter = Delimiter[scenario.format]
    BY RecordFacts DEF RecordsCut, BodyInv
  <2> QED BY <2>2, <2>3, RecordFacts DEF BodyInv
<1>8. IsPacket(scenario, i, SubSeq(output, a + 1, next - d))
  BY <1>7 DEF IsRecords
<1> HIDE DEF output, r, d, l, a, next
<1>9. /\ end <= r - a /\ end + d \in Nat /\ end + d <= r - a /\ r - a \in Nat /\ r - a <= r - a
      /\ a + (end + d) = next /\ a + (r - a) = r /\ next <= r /\ 0 <= end
  BY <1>2, <1>6, <1>7
<1>10. record' = SubSeq(output, a + 1, next - d)
  <2>1. SubSeq(SubSeq(output, a + 1, r), 0 + 1, end) = SubSeq(output, a + 0 + 1, a + end)
    <3>1. 0 \in Nat /\ end \in Nat /\ 0 <= end /\ end <= r - a
      BY <1>6, <1>9
    <3> QED BY <1>2, <3>1, Windows
  <2>2. 0 + 1 = 1 /\ a + 0 + 1 = a + 1
    BY <1>2
  <2> QED BY <1>2, <1>5, <1>6, <2>1, <2>2
<1>11. text' = SubSeq(output, next + 1, r)
  <2>1. SubSeq(SubSeq(output, a + 1, r), (end + d) + 1, r - a)
          = SubSeq(output, a + (end + d) + 1, a + (r - a))
    <3> DEFINE n == end + d
               m == r - a
    <3>1. n \in Nat /\ m \in Nat /\ n <= m /\ m <= r - a
      BY <1>9
    <3> HIDE DEF n, m
    <3>2. SubSeq(SubSeq(output, a + 1, r), n + 1, m) = SubSeq(output, a + n + 1, a + m)
      BY <1>2, <3>1, Windows
    <3> QED BY <3>2 DEF n, m
  <2>2. (end + d) + 1 = end + d + 1
    BY <1>2, <1>6
  <2>3. text' = SubSeq(SubSeq(output, a + 1, r), (end + d) + 1, r - a)
    BY <1>2, <1>5
  <2> QED BY <1>9, <2>1, <2>3
<1>12. IsPacket(scenario, i, record')
  BY <1>8, <1>10
<1>13. /\ Len(packets') = scenario.counts[i + 1]
       /\ Len(packets') <= Len(scenario.packets) /\ packets' = SubSeq(scenario.packets, 1, Len(packets'))
       /\ <<progress', counter'>> = scenario.totals[Len(packets') + 1]
  BY <1>1, <1>5, <1>12, PacketIs DEF BodyInv
<1>14. \E j \in 1 .. Len(scenario.starts) :
         /\ scenario.starts[j] <= Len(received)
         /\ text' = SubSeq(scenario.output, scenario.starts[j] + 1, Len(received))
         /\ Len(packets') = scenario.counts[j]
  BY <1>7, <1>9, <1>11, <1>13 DEF next, output, r
<1>15. from' \in Nat /\ from' = 0 /\ \A k \in 0 .. from' - 1 : ~DelimiterAt(k)'
  BY <1>5
<1> QED BY <1>5, <1>7, <1>13, <1>14, <1>15 DEF RecordsCut

\* No delimiter, but one may have begun.
LEMMA FramedWaits ==
  ASSUME BodyInv, OutputPassed, GoodCall, Framed, RecordsCut, NoRecord, UNCHANGED <<scenario, received>>
  PROVE  RecordsCut'
<1> DEFINE d == Len(delimiter)
           l == Len(text)
<1>1. d \in Nat \ {0} /\ l \in Nat
  <2>1. PICK i \in 1 .. Len(scenario.starts) :
          /\ scenario.starts[i] <= Len(received)
          /\ text = SubSeq(scenario.output, scenario.starts[i] + 1, Len(received))
    BY DEF RecordsCut
  <2>2. d \in Nat \ {0} /\ text \in Seq(Cell)
    BY <2>1, TextFacts
  <2> QED BY <2>2, LenProperties
<1>2. /\ UNCHANGED <<delimiter, text, packets, progress, counter>>
      /\ from' = IF l + 1 > d THEN l + 1 - d ELSE 0
      /\ Delimiters = {}
  BY DEF NoRecord
<1>3. from \in Nat /\ \A k \in 0 .. from - 1 : ~DelimiterAt(k)
  BY DEF RecordsCut
<1>4. \A k \in from .. l : ~DelimiterAt(k)
  BY <1>2 DEF Delimiters
<1> HIDE DEF d, l
<1>5. /\ from' \in Nat /\ from' - 1 <= l /\ (from' = 0 \/ from' + d <= l + 1)
  BY <1>1, <1>2
<1>6. ASSUME NEW k \in Nat, k <= l
      PROVE  ~DelimiterAt(k)
  <2>1. CASE k < from
    BY <1>3, <1>6, <2>1
  <2>2. CASE k >= from
    BY <1>1, <1>3, <1>4, <1>6, <2>2
  <2> QED BY <1>3, <1>6, <2>1, <2>2
<1>7. \A k \in 0 .. from' - 1 : ~DelimiterAt(k)'
  <2> DEFINE f == from'
  <2>1. f \in Nat /\ f - 1 <= l
    BY <1>5
  <2> HIDE DEF f
  <2>2. \A k \in 0 .. f - 1 : k \in Nat /\ k <= l
    BY <1>1, <2>1
  <2>3. \A k \in 0 .. from' - 1 : k \in Nat /\ k <= l
    BY <2>2 DEF f
  <2> QED BY <1>2, <1>6, <2>3 DEF DelimiterAt
<1> QED BY <1>2, <1>5, <1>7 DEF RecordsCut, d, l

cutVars == <<delimiter, text, from, packets, progress, counter>>

LEMMA FramedSteps ==
  ASSUME [Next]_vars
  PROVE  Take \/ Parsing \/ LastRecord \/ UNCHANGED <<framedVars, received>>
<1>1. CASE Requesting
  <2>1. UNCHANGED <<framedVars, resultVars>>
    BY <1>1 DEF Requesting, Call, OtherCall, Loading, Initialized, Peek, PeekFails, Upload, PartEnds,
       PullFirst, SourceChunk, PullOn, SourceEnds, SourceFails
  <2> QED BY <2>1 DEF resultVars
<1>2. CASE Answering
  BY <1>2 DEF Answering, Responds, FetchFails, TimerFires, ErrorRead, Reply, BodyReads, BodyEnds,
     BodyFails, BodyStep, resultVars
<1>3. CASE (GoingOn /\ ~LastRecord /\ ~Take /\ ~Parsing) \/ Abandon
  BY <1>3 DEF GoingOn, HeaderTaken, BodyOpens, BodyResumes, BodyStep, Decoding, Reading,
     SummaryTaken, Summarize, AllDecoded, Throws, PacketThrows, LineThrows, Abandon, resultVars
<1>4. CASE UNCHANGED vars
  BY <1>4 DEF vars, resultVars
<1> QED BY <1>1, <1>2, <1>3, <1>4 DEF Next

LEMMA FramedStep ==
  ASSUME BodyInv, CallInv, OutputPassed, FramedInv, [Next]_vars
  PROVE  FramedInv'
<1>1. scenario' = scenario /\ (GoodCall' <=> GoodCall) /\ (Framed' <=> Framed)
  BY ScenarioStands DEF GoodCall, Query, Framed
<1>2. CASE UNCHANGED <<cutVars, received>>
  BY <1>1, <1>2 DEF cutVars, FramedInv, RecordsCut, DelimiterAt
<1>3. CASE Take
  <2>1. GoodCall
    BY <1>3 DEF Take, CallInv, Consuming
  <2>2. CASE Framed
    <3>1. RecordsCut'
      BY <1>1, <1>3, <2>1, <2>2, FramedTakes DEF FramedInv
    <3> QED BY <1>1, <2>1, <2>2, <3>1 DEF FramedInv
  <2>3. CASE ~Framed
    <3>1. UNCHANGED framedVars
      BY <1>3, <2>3 DEF Take
    <3> QED BY <1>1, <2>3, <3>1 DEF FramedInv, framedVars
  <2> QED BY <2>2, <2>3
<1>4. CASE Parsing
  <2>1. GoodCall /\ Framed /\ RecordsCut /\ UNCHANGED received
    BY <1>4 DEF Parsing, CallInv, Consuming, FramedInv, resultVars
  <2>2. CASE CutRecord
    BY <1>1, <2>1, <2>2, FramedCuts DEF FramedInv
  <2>3. CASE NoRecord
    BY <1>1, <2>1, <2>3, FramedWaits DEF FramedInv
  <2>4. CASE NextPacket
    BY <1>2, <2>1, <2>4 DEF NextPacket, cutVars
  <2> QED BY <1>4, <2>2, <2>3, <2>4 DEF Parsing
<1>5. CASE LastRecord \/ UNCHANGED <<framedVars, received>>
  <2>1. UNCHANGED <<cutVars, received>>
    BY <1>5 DEF LastRecord, TextEnds, resultVars, framedVars, cutVars
  <2> QED BY <1>2, <2>1
<1> QED BY <1>3, <1>4, <1>5, FramedSteps

LEMMA FramedFirst ==
  ASSUME Init
  PROVE  FramedInv
<1>1. ReaderInv
  BY ReaderInit
<1>2. /\ delimiter = Delimiter[scenario.format] /\ text = <<>> /\ from = 0
      /\ packets = <<>> /\ progress = 0 /\ counter = 0 /\ received = <<>>
  BY DEF Init, FramedInit
<1>3. SUFFICES ASSUME GoodCall, Framed PROVE RecordsCut
  BY <1>2 DEF FramedInv
<1>4. /\ scenario.starts[1] = 0 /\ scenario.counts[1] = 0 /\ 1 \in 1 .. Len(scenario.starts)
      /\ scenario.packets \in Seq(Seq(Byte)) /\ scenario.totals[1] = <<0, 0>>
  BY <1>1, <1>3, RecordFacts DEF IsRecords, Laid
<1>5. Len(received) = 0 /\ Len(packets) = 0 /\ Len(scenario.packets) \in Nat
  BY <1>2, <1>4, EmptySeq, LenProperties
<1>6. SubSeq(scenario.output, 0 + 1, 0) = <<>> /\ SubSeq(scenario.packets, 1, 0) = <<>>
  BY SubSeqEmpty
<1>7. /\ scenario.starts[1] <= Len(received) /\ Len(packets) = scenario.counts[1]
      /\ Len(packets) <= Len(scenario.packets) /\ from \in Nat
      /\ <<progress, counter>> = scenario.totals[Len(packets) + 1]
  BY <1>2, <1>4, <1>5
<1>8. text = SubSeq(scenario.output, scenario.starts[1] + 1, Len(received))
  BY <1>2, <1>4, <1>5, <1>6
<1>9. packets = SubSeq(scenario.packets, 1, Len(packets))
  BY <1>2, <1>5, <1>6
<1>10. \A k \in 0 .. from - 1 : ~DelimiterAt(k)
  BY <1>2
<1> QED BY <1>2, <1>4, <1>7, <1>8, <1>9, <1>10 DEF RecordsCut

LEMMA FramedInvariant == Spec => [](BodyInv /\ CallInv /\ OutputPassed /\ FramedInv)
<1>1. BodyInv /\ CallInv /\ OutputPassed /\ FramedInv /\ [Next]_vars => FramedInv'
  BY FramedStep
<1> QED BY <1>1, FramedFirst, OutputInvariant, PTL DEF Spec

LEMMA EmptyPrefix ==
  ASSUME NEW S, NEW t \in Seq(S), NEW s, s = <<>>
  PROVE  IsPrefix(s, t)
<1>1. Len(s) = 0 /\ Len(t) \in Nat /\ SubSeq(t, 1, 0) = <<>>
  BY EmptySeq, LenProperties, SubSeqEmpty
<1>2. Len(s) \in Nat /\ Len(s) <= Len(t)
  BY <1>1
<1>3. s = SubSeq(t, 1, Len(s))
  BY <1>1
<1> QED BY <1>2, <1>3, PrefixIs

LEMMA DeliveredParts ==
  ASSUME BodyInv, CallInv, OutputPassed, NativeInv, FramedInv
  PROVE  /\ IsPrefix(received, scenario.output)
         /\ Native => IsPrefix(batches, scenario.batches)
         /\ Framed => /\ IsPrefix(packets, scenario.packets)
                      /\ <<progress, counter>> = scenario.totals[Len(packets) + 1]
<1>1. /\ scenario.output \in Seq(Byte) /\ scenario.batches \in Seq(Seq(Seq(Byte)))
      /\ scenario.packets \in Seq(Seq(Byte)) /\ scenario.totals[1] = <<0, 0>>
  BY ScenariosAssumption DEF BodyInv, ReaderInv, ReaderTypes
<1>2. IsPrefix(received, scenario.output)
  <2>1. CASE GoodCall
    <3>1. /\ Len(received) \in Nat /\ Len(received) <= Len(Passed) /\ Len(Passed) <= Len(scenario.output)
          /\ Len(Passed) \in Nat /\ Len(scenario.output) \in Nat
          /\ received = SubSeq(scenario.output, 0 + 1, Len(received))
      BY <2>1, HandedIs, BodyFacts, OutputFacts DEF OutputPassed, BodyInv
    <3>2. Len(received) <= Len(scenario.output) /\ received = SubSeq(scenario.output, 1, Len(received))
      BY <3>1
    <3> QED BY <1>1, <3>1, <3>2, PrefixIs
  <2>2. CASE ~GoodCall
    BY <1>1, <2>2, EmptyPrefix DEF CallInv
  <2> QED BY <2>1, <2>2
<1>3. ASSUME Native PROVE IsPrefix(batches, scenario.batches)
  <2>1. CASE GoodCall
    <3>1. /\ Len(batches) = scenario.counts[block + 1] /\ Len(batches) <= Len(scenario.batches)
          /\ batches = SubSeq(scenario.batches, 1, Len(batches))
          /\ layout = scenario.layout /\ block \in Nat /\ block <= Len(layout)
      BY <1>3, <2>1 DEF NativeInv, BlocksDecoded
    <3>2. Len(batches) \in Nat
      <4>1. Len(scenario.layout) \in Nat
            /\ \A b \in 1 .. Len(scenario.layout) + 1 : scenario.counts[b] \in Nat
        BY <1>3, <2>1, LayoutFacts DEF BodyInv
      <4>2. block + 1 \in 1 .. Len(scenario.layout) + 1
        BY <3>1, <4>1
      <4> QED BY <3>1, <4>1, <4>2
    <3> QED BY <1>1, <3>1, <3>2, PrefixIs
  <2>2. CASE ~GoodCall
    BY <1>1, <2>2, EmptyPrefix DEF NativeInv
  <2> QED BY <2>1, <2>2
<1>4. ASSUME Framed
      PROVE  /\ IsPrefix(packets, scenario.packets)
             /\ <<progress, counter>> = scenario.totals[Len(packets) + 1]
  <2>1. CASE GoodCall
    <3>1. /\ Len(packets) <= Len(scenario.packets) /\ packets = SubSeq(scenario.packets, 1, Len(packets))
          /\ <<progress, counter>> = scenario.totals[Len(packets) + 1]
          /\ \E i \in 1 .. Len(scenario.starts) : Len(packets) = scenario.counts[i]
      BY <1>4, <2>1 DEF FramedInv, RecordsCut
    <3>2. Len(packets) \in Nat
      BY <1>4, <2>1, <3>1, RecordFacts DEF BodyInv
    <3> QED BY <1>1, <3>1, <3>2, PrefixIs
  <2>2. CASE ~GoodCall
    <3>1. packets = <<>> /\ progress = 0 /\ counter = 0
      BY <2>2 DEF FramedInv
    <3>2. Len(packets) = 0
      BY <3>1, EmptySeq
    <3>3. <<progress, counter>> = scenario.totals[Len(packets) + 1]
      BY <1>1, <3>1, <3>2
    <3> QED BY <1>1, <3>1, <3>3, EmptyPrefix
  <2> QED BY <2>1, <2>2
<1> QED BY <1>2, <1>3, <1>4

-----------------------------------------------------------------------------
\* Success.

\* Records and blocks end with nothing left over (parseRecords, streamDecodeNative).
NothingLeft ==
  /\ parser = "done" => text = <<>>
  /\ turn = "done" => Available(blockBuffer) = 0

LEMMA NothingLeftStep ==
  ASSUME NothingLeft, [Next]_vars
  PROVE  NothingLeft'
<1>1. (parser = "done" => text = <<>>)'
  <2>1. CASE Take
    BY <2>1 DEF Take, TakeText, NothingLeft, framedVars
  <2>2. CASE Parsing
    BY <2>2 DEF Parsing, CutRecord, Deliver, NoRecord, NextPacket
  <2>3. CASE LastRecord
    BY <2>3 DEF LastRecord, TextEnds
  <2>4. CASE UNCHANGED framedVars
    BY <2>4 DEF framedVars, NothingLeft
  <2> QED BY <2>1, <2>2, <2>3, <2>4, FramedSteps
<1>2. (turn = "done" => Available(blockBuffer) = 0)'
  <2>1. CASE Take
    BY <2>1 DEF Take, TakeChunk, NothingLeft, nativeVars
  <2>2. CASE Decoding
    <3>1. CASE TryBlock \/ NextBatch
      BY <3>1 DEF TryBlock, Decoded, Underflow, NextBatch
    <3>2. CASE TryFinal
      BY <3>2 DEF TryFinal, Decoded
    <3> QED BY <2>2, <3>1, <3>2 DEF Decoding
  <2>3. CASE SummaryTaken
    BY <2>3 DEF SummaryTaken, LastChunk, NothingLeft, nativeVars
  <2>4. CASE UNCHANGED nativeVars
    BY <2>4 DEF nativeVars, NothingLeft
  <2> QED BY <2>1, <2>2, <2>3, <2>4, NativeSteps
<1> QED BY <1>1, <1>2 DEF NothingLeft

\* A query succeeds when all its generators are done.
Finished == stream = "done" /\ (Framed => parser = "done") /\ (Native => turn = "done")
EndInv ==
  /\ NothingLeft
  /\ ~Lining => reading = "waiting"
  /\ phase = "reply" => ~Query
  /\ phase = "summary" /\ Framed => parser = "done"
  /\ phase = "finished" => Native \/ Lining
  /\ outcome = "ok" => phase = "end" /\ (Query => Finished)

\* Once a call has ended, only init() goes on, for others.
LEMMA EndStays ==
  ASSUME [Next]_vars, phase = "end"
  PROVE  UNCHANGED <<phase, outcome, stream, parser, turn>>
<1>1. CASE Requesting
  BY <1>1 DEF Requesting, Call, OtherCall, Loading, Initialized, Peek, PeekFails, Upload, PartEnds, Uploading,
     PullFirst, SourceChunk, PullOn, SourceEnds, SourceFails, Inserting, callVars, bodyVars, framedVars, nativeVars
<1>2. CASE Answering
  BY <1>2 DEF Answering, Responds, FetchFails, TimerFires, ErrorRead, Reply, BodyReads, BodyEnds,
     BodyFails, BodyStep
<1>3. CASE GoingOn \/ Abandon
  BY <1>3 DEF GoingOn, HeaderTaken, BodyOpens, BodyResumes, BodyStep, Take, Decoding, Parsing, Reading,
     LastRecord, Summarize, SummaryTaken, AllDecoded, Throws, PacketThrows, LineThrows, Abandon, HasItem
<1>4. CASE UNCHANGED vars
  BY <1>4 DEF vars, callVars, bodyVars, framedVars, nativeVars
<1> QED BY <1>1, <1>2, <1>3, <1>4 DEF Next

\* Until then, few steps come closer to success.
LEMMA WaysToEnd ==
  ASSUME [Next]_vars, phase # "end", outcome # "ok"
  PROVE  \/ phase' \notin {"reply", "summary", "finished"} /\ outcome' # "ok"
         \/ UNCHANGED <<phase, outcome>> /\ (phase = "summary" => parser' = parser)
         \/ Responds \/ Reply \/ Summarize \/ SummaryTaken \/ AllDecoded
<1>1. CASE Requesting
  BY <1>1 DEF Requesting, Call, OtherCall, Loading, Initialized, Peek, PeekFails, Upload, PartEnds,
     PullFirst, SourceChunk, PullOn, SourceEnds, SourceFails, End, To, Fetch, callVars, framedVars
<1>2. CASE Answering
  BY <1>2 DEF Answering, FetchFails, TimerFires, ErrorRead, BodyReads, BodyEnds,
     BodyFails, BodyStep, End, callVars, framedVars
<1>3. CASE GoingOn \/ Abandon
  BY <1>3 DEF GoingOn, HeaderTaken, BodyOpens, BodyResumes, BodyStep, Take, Decoding, Parsing, Reading,
     LastRecord, Throws, PacketThrows, LineThrows, Abandon, End, To, callVars, framedVars
<1>4. CASE UNCHANGED vars
  BY <1>4 DEF vars, callVars, framedVars
<1> QED BY <1>1, <1>2, <1>3, <1>4 DEF Next

LEMMA LinesIdle ==
  ASSUME [Next]_vars, ~Lining, reading = "waiting"
  PROVE  reading' = "waiting"
<1>1. CASE Requesting
  BY <1>1 DEF Requesting, Call, OtherCall, Loading, Initialized, Peek, PeekFails, Upload, PartEnds,
     PullFirst, SourceChunk, PullOn, SourceEnds, SourceFails, lineVars
<1>2. CASE Answering
  BY <1>2 DEF Answering, Responds, FetchFails, TimerFires, ErrorRead, Reply, BodyReads, BodyEnds,
     BodyFails, BodyStep, lineVars
<1>3. CASE GoingOn \/ Abandon
  BY <1>3 DEF GoingOn, HeaderTaken, BodyOpens, BodyResumes, BodyStep, Take, Decoding, Parsing, Reading,
     LastRecord, Summarize, SummaryTaken, AllDecoded, Throws, PacketThrows, LineThrows, Abandon, lineVars
<1>4. CASE UNCHANGED vars
  BY <1>4 DEF vars, lineVars
<1> QED BY <1>1, <1>2, <1>3, <1>4 DEF Next

LEMMA EndStep ==
  ASSUME ReaderInv, EndInv, [Next]_vars
  PROVE  EndInv'
<1>1. scenario' = scenario /\ (Query' <=> Query) /\ (Framed' <=> Framed) /\ (Native' <=> Native)
      /\ (Lining' <=> Lining)
  BY ScenarioStands DEF Query, Framed, Native, Lining
<1>2. NothingLeft' /\ (~Lining => reading' = "waiting")
  BY NothingLeftStep, LinesIdle DEF EndInv
<1> DEFINE Rest == /\ phase' = "reply" => ~Query
                   /\ phase' = "summary" /\ Framed => parser' = "done"
                   /\ phase' = "finished" => Native \/ Lining
                   /\ outcome' = "ok" => /\ phase' = "end"
                                         /\ Query => /\ stream' = "done"
                                                     /\ Framed => parser' = "done"
                                                     /\ Native => turn' = "done"
<1>3. CASE phase = "end"
  <2>1. UNCHANGED <<phase, outcome, stream, parser, turn>>
    BY <1>3, EndStays
  <2>2. Rest
    BY <1>3, <2>1 DEF EndInv, Finished
  <2> QED BY <1>1, <1>2, <2>2 DEF EndInv, Finished
<1>4. CASE phase # "end"
  <2>1. outcome # "ok"
    BY <1>4 DEF EndInv
  <2>2. CASE phase' \notin {"reply", "summary", "finished"} /\ outcome' # "ok"
    BY <1>1, <1>2, <2>2 DEF EndInv
  <2>3. CASE UNCHANGED <<phase, outcome>> /\ (phase = "summary" => parser' = parser)
    BY <1>1, <1>2, <2>1, <2>3 DEF EndInv
  <2>4. CASE Responds
    <3>1. phase' \notin {"summary", "finished"} /\ (phase' = "reply" => ~Query) /\ outcome' # "ok"
      BY <2>1, <2>4 DEF Responds, To
    <3> QED BY <1>1, <1>2, <3>1 DEF EndInv
  <2>5. CASE Reply
    <3>1. ~Query /\ phase' = "end"
      BY <2>5 DEF Reply, End, EndInv
    <3> QED BY <1>1, <1>2, <3>1 DEF EndInv
  <2>6. CASE Summarize
    <3>1. phase' = "summary" /\ outcome' # "ok" /\ (Framed => parser' = "done")
      BY <2>1, <2>6, ConsumerFacts DEF Summarize, To, framedVars, ReaderInv, ReaderTypes
    <3> QED BY <1>1, <1>2, <3>1 DEF EndInv
  <2>7. CASE SummaryTaken
    <3>1. /\ phase = "summary" /\ stream = "done" /\ stream' = stream /\ parser' = parser
          /\ \/ phase' = "finished" /\ (Native \/ Lining) /\ outcome' # "ok"
             \/ phase' = "end" /\ ~Native
      BY <2>1, <2>7 DEF SummaryTaken, To, End, bodyVars, framedVars, ReaderInv, ReaderPlace
    <3> QED BY <1>1, <1>2, <3>1 DEF EndInv, Finished
  <2>8. CASE AllDecoded
    <3>1. /\ phase = "finished" /\ stream = "done" /\ UNCHANGED <<stream, parser, turn>> /\ phase' = "end"
          /\ turn \in {"done", "truncated"} \/ reading = "done"
          /\ turn = "truncated" => outcome' = "error"
      BY <2>8 DEF AllDecoded, End, bodyVars, framedVars, nativeVars, ReaderInv, ReaderPlace
    <3>2. (Native \/ Lining) /\ ~Framed
      BY <3>1, ConsumerFacts DEF EndInv, ReaderInv, ReaderTypes
    <3>3. Native => reading = "waiting"
      BY ConsumerFacts DEF EndInv, ReaderInv, ReaderTypes
    <3>4. Native /\ outcome' = "ok" => turn' = "done"
      BY <3>1, <3>3
    <3> QED BY <1>1, <1>2, <3>1, <3>2, <3>4 DEF EndInv, Finished
  <2> QED BY <1>4, <2>1, <2>2, <2>3, <2>4, <2>5, <2>6, <2>7, <2>8, WaysToEnd
<1> QED BY <1>3, <1>4

LEMMA EndInvariant == Spec => []EndInv
<1>1. Init => EndInv
  BY DEF Init, FramedInit, NativeInit, LinesInit, EndInv, NothingLeft
<1>2. ReaderInv /\ EndInv /\ [Next]_vars => EndInv'
  BY EndStep
<1> QED BY <1>1, <1>2, ReaderInvariant, PTL DEF Spec

\* When createStream is done, it has yielded all that the body holds.
LEMMA AllHeld ==
  ASSUME BodyInv, GoodCall, stream = "done"
  PROVE  Unraised(scenario.response) /\ Len(received) = Held(scenario, scenario.response)
<1>1. /\ response = scenario.response /\ response.compressed \in BOOLEAN /\ response.framing \in BOOLEAN
      /\ DOMAIN response.content = 1 .. Len(response.content)
  BY WireFacts DEF BodyInv, ReaderInv, ReaderTypes, IsResponse
<1>2. handed = <<>> /\ Passed = received
  BY BodyFacts DEF BodyTypes
<1>3. CASE response.compressed
  <2>1. AllScanned /\ Len(Passed) = scenario.places[Len(response.content) + 1]
    BY <1>3 DEF BodyInv, BlocksFound
  <2>2. Unraised(response)
    BY <1>1, <1>3, <2>1 DEF Unraised, AllScanned, HasException, Markers
  <2> QED BY <1>1, <1>2, <1>3, <2>1, <2>2 DEF Held
<1>4. CASE ~response.compressed /\ response.framing
  <2>1. Passed = SubSeq(response.wire, 0 + 1, arrived) /\ arrived = Len(response.wire)
    BY <1>4 DEF BodyInv, FramesPass
  <2>2. Len(Passed) = Len(response.wire)
    <3>1. SubSeq(response.wire, 0 + 1, Len(response.wire)) = response.wire
      <4>1. response.wire \in Seq(Cell) /\ 0 + 1 = 1
        BY WireFacts DEF BodyInv
      <4>2. response.wire \in Seq(Cell) => SubSeq(response.wire, 1, Len(response.wire)) = response.wire
        BY SubSeqFull
      <4> QED BY <4>1, <4>2
    <3> QED BY <2>1, <3>1
  <2> QED BY <1>1, <1>2, <1>4, <2>2 DEF Held, Unraised
<1>5. CASE IsPlain
  <2>1. Len(Passed) = Len(response.wire) /\ ~HasException(response.wire)
    BY <1>5 DEF BodyInv, PlainInv, PlainScan
  <2> QED BY <1>1, <1>2, <1>5, <2>1 DEF Held, Unraised, IsPlain, HasException, Markers
<1> QED BY <1>1, <1>3, <1>4, <1>5 DEF IsPlain

LEMMA WholePrefix ==
  ASSUME NEW S, NEW t \in Seq(S), NEW s, Len(s) = Len(t), s = SubSeq(t, 1, Len(s))
  PROVE  s = t
<1>1. SubSeq(t, 1, Len(t)) = t
  BY SubSeqFull
<1> QED BY <1>1

\* And who is thrown an exception has had all that stands in front of it.
LEMMA RaisedAfterAll ==
  ASSUME BodyInv, CallInv, OutputPassed, GoodCall, stream = "exception", scenario.raises # "perhaps"
  PROVE  received = scenario.output
<1> DEFINE n == Len(received)
           output == scenario.output
<1>1. /\ output \in Seq(Byte) /\ Len(output) \in Nat /\ EndsBefore(scenario, response)
      /\ response.compressed \in BOOLEAN /\ response.framing \in BOOLEAN
  <2>1. /\ scenario \in Scenarios /\ response = scenario.response
        /\ response.compressed \in BOOLEAN /\ response.framing \in BOOLEAN
    BY WireFacts DEF BodyInv, ReaderInv, ReaderTypes, IsResponse
  <2>2. EndsBefore(scenario, response)
    BY <2>1, OutputAssumption DEF GoodCall, Query
  <2> QED BY <2>1, <2>2, ScenariosAssumption, LenProperties
<1>2. handed = <<>> /\ Passed = received /\ n \in Nat
  BY BodyFacts DEF BodyTypes
<1>3. n <= Len(output) /\ received = SubSeq(output, 1, n)
  <2>1. Len(Passed) <= Len(output) /\ Passed = SubSeq(output, 0 + 1, Len(Passed)) /\ 0 + 1 = 1
    BY DEF OutputPassed
  <2> QED BY <1>2, <2>1
<1> HIDE DEF n, output
<1>4. CASE ~response.compressed
  <2>1. IsPlain
    BY <1>4 DEF BodyInv, FramesPass, IsPlain
  <2>2. IsFramedExceptionAt(response.wire, n + 1)
    BY <1>2, <2>1 DEF BodyInv, PlainInv, PlainScan, n
  <2>3. n + 1 \in DOMAIN response.wire
    BY <1>2, <2>2, WireFacts, TrailerPlace DEF BodyInv
  <2>4. Len(output) < n + 1
    BY <1>1, <2>1, <2>2, <2>3 DEF EndsBefore, IsPlain, IsFramedExceptionAt, output
  <2> QED BY <1>1, <1>2, <1>3, <2>4, WholePrefix DEF n, output
<1>5. CASE response.compressed
  <2>1. Raised(n) /\ DOMAIN response.content = 1 .. Len(response.content)
    BY <1>2, <1>5, WireFacts DEF BodyInv, BlocksFound, Raising, n
  <2>2. CASE \E c \in 1 .. Len(response.content) : \E i \in Markers(response.content[c]) :
               n + 1 = scenario.places[c] + i
    <3>1. PICK c \in 1 .. Len(response.content) :
            \E i \in Markers(response.content[c]) : n + 1 = scenario.places[c] + i
      BY <2>2
    <3>2. PICK i \in Markers(response.content[c]) : n + 1 = scenario.places[c] + i
      BY <3>1
    <3>3. i \in DOMAIN response.content[c] /\ TrailerAt(response, response.content[c], i)
      BY DEF Markers, Trailers
    <3>4. Len(output) < n + 1
      BY <1>1, <1>5, <2>1, <3>2, <3>3 DEF EndsBefore, output
    <3> QED BY <1>1, <1>2, <1>3, <3>4, WholePrefix DEF n, output
  <2>3. CASE /\ \E i \in DOMAIN response.wire : IsFramedExceptionAt(response.wire, i)
             /\ n = scenario.places[Len(response.content) + 1]
    <3>1. Len(output) <= n
      BY <1>1, <1>5, <2>3 DEF EndsBefore, IsFramedExceptionAt, Held, output
    <3> QED BY <1>1, <1>2, <1>3, <3>1, WholePrefix DEF n, output
  <2> QED BY <2>1, <2>2, <2>3 DEF Raised
<1> QED BY <1>1, <1>4, <1>5

\* So who succeeds has had all of it.
LEMMA SuccessMeansAll ==
  ASSUME BodyInv, CallInv, OutputPassed, NativeInv, FramedInv, EndInv, outcome = "ok", Query
  PROVE  /\ Raw => received = scenario.output
         /\ Native => batches = scenario.batches
         /\ Framed => packets = scenario.packets
<1> DEFINE n == Len(received)
<1>1. Finished /\ GoodCall /\ stream = "done"
  BY DEF EndInv, Finished, CallInv
<1>2. /\ scenario.output \in Seq(Byte) /\ scenario.batches \in Seq(Seq(Seq(Byte)))
      /\ scenario.packets \in Seq(Seq(Byte)) /\ scenario \in Scenarios
  BY ScenariosAssumption DEF BodyInv, ReaderInv, ReaderTypes
<1>3. IsAll(scenario, n)
  <2>1. Unraised(scenario.response) => IsAll(scenario, Held(scenario, scenario.response))
    BY <1>1, <1>2, OutputAssumption DEF GoodCall, Query
  <2> QED BY <1>1, <2>1, AllHeld
<1>4. n \in Nat /\ received = SubSeq(scenario.output, 0 + 1, n)
  BY <1>1, HandedIs
<1> HIDE DEF n
<1>5. ASSUME Raw PROVE received = scenario.output
  <2>1. Len(scenario.output) = n
    BY <1>3, <1>5 DEF IsAll, Raw
  <2>2. received = SubSeq(scenario.output, 1, Len(received))
    BY <1>4 DEF n
  <2> QED BY <1>2, <2>1, <2>2, WholePrefix DEF n
<1>6. ASSUME Native PROVE batches = scenario.batches
  <2>1. BlocksDecoded
    BY <1>1, <1>6 DEF NativeInv
  <2>2. scenario.starts[block + 1] \in Nat /\ block + 1 \in DOMAIN scenario.starts
    <3>1. IsBlocks(scenario) /\ Len(scenario.layout) \in Nat
      BY <1>1, <1>6, LayoutFacts DEF BodyInv
    <3>2. block + 1 \in 1 .. Len(scenario.layout) + 1
      BY <2>1, <3>1 DEF BlocksDecoded
    <3> QED BY <1>1, <1>6, <3>1, <3>2, LayoutFacts, LenProperties DEF BodyInv, IsBlocks, Laid
  <2>3. scenario.starts[block + 1] = n
    <3>1. Len(View(blockBuffer)) = 0
      BY <1>1, <1>6, <2>1, ViewFacts DEF EndInv, NothingLeft, Finished, BlocksDecoded
    <3>2. /\ scenario.starts[block + 1] <= n
          /\ View(blockBuffer) = SubSeq(scenario.output, scenario.starts[block + 1] + 1, n)
      BY <2>1 DEF BlocksDecoded, n
    <3>3. scenario.output \in Seq(Byte) /\ n <= Len(scenario.output)
      <4>1. n <= Len(Passed) /\ Len(Passed) <= Len(scenario.output) /\ Len(Passed) \in Nat
            /\ Len(scenario.output) \in Nat
        BY <1>1, HandedIs, BodyFacts, OutputFacts DEF OutputPassed, BodyInv, n
      <4> QED BY <1>2, <1>4, <4>1
    <3>4. Len(View(blockBuffer)) = n - scenario.starts[block + 1]
      BY <1>4, <2>2, <3>2, <3>3, Window
    <3> QED BY <1>4, <2>2, <3>1, <3>4
  <2>4. scenario.counts[block + 1] = Len(scenario.batches)
    BY <1>3, <1>6, <2>2, <2>3 DEF IsAll, Native
  <2> QED BY <1>2, <2>1, <2>4, WholePrefix DEF BlocksDecoded
<1>7. ASSUME Framed PROVE packets = scenario.packets
  <2>1. RecordsCut /\ text = <<>>
    BY <1>1, <1>7 DEF FramedInv, EndInv, NothingLeft, Finished
  <2>2. PICK i \in 1 .. Len(scenario.starts) :
          /\ scenario.starts[i] <= n
          /\ text = SubSeq(scenario.output, scenario.starts[i] + 1, n)
          /\ Len(packets) = scenario.counts[i]
    BY <2>1 DEF RecordsCut, n
  <2>3. scenario.starts[i] \in Nat /\ i \in DOMAIN scenario.starts
    <3>1. scenario.starts[i] \in Nat /\ scenario.starts \in Seq(Nat)
      BY <1>1, <1>7, <2>2, RecordFacts DEF BodyInv, IsRecords, Laid
    <3> QED BY <2>2, <3>1, LenProperties
  <2>4. scenario.starts[i] = n
    <3>1. Len(text) = 0
      BY <2>1, EmptySeq
    <3>2. scenario.output \in Seq(Byte) /\ n <= Len(scenario.output)
      <4>1. n <= Len(Passed) /\ Len(Passed) <= Len(scenario.output) /\ Len(Passed) \in Nat
            /\ Len(scenario.output) \in Nat
        BY <1>1, HandedIs, BodyFacts, OutputFacts DEF OutputPassed, BodyInv, n
      <4> QED BY <1>2, <1>4, <4>1
    <3>3. Len(text) = n - scenario.starts[i]
      BY <1>4, <2>2, <2>3, <3>2, Window
    <3> QED BY <1>4, <2>3, <3>1, <3>3
  <2>5. scenario.counts[i] = Len(scenario.packets)
    BY <1>3, <1>7, <2>3, <2>4 DEF IsAll, Framed
  <2> QED BY <1>2, <2>1, <2>2, <2>5, WholePrefix DEF RecordsCut
<1> QED BY <1>5, <1>6, <1>7

\* Whatever the chunks, the application gets the output in order: the bytes, the
\* batches, and the packets with their totals; and a query that succeeds has given it
\* all of that, as createStream has when it throws an exception (client.ts 882-1031).
THEOREM OutputDelivered == Spec => []Delivered
<1>1. BodyInv /\ CallInv /\ OutputPassed /\ NativeInv /\ FramedInv /\ EndInv => Delivered
  BY DeliveredParts, SuccessMeansAll, RaisedAfterAll DEF Delivered, GoodCall
<1> QED BY <1>1, NativeInvariant, FramedInvariant, EndInvariant, PTL
=============================================================================
