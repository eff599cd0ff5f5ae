----------------------- MODULE StreamingReaderProofs -----------------------
(***************************************************************************)
(* Theorems about the reader for every script of packets, every way of     *)
(* cutting the stream into chunks and every threshold and capacity: each   *)
(* byte is read once and in order, blocks are decoded from their own bytes *)
(* across resumed attempts, a sleeping read can be woken, what is buffered *)
(* is bounded, bytes handed out are not written over, and the reader keeps *)
(* the safety part of PacketStream.                                        *)
(***************************************************************************)
EXTENDS StreamingReader, BlockLemmas

-----------------------------------------------------------------------------
\* The script.

LEMMA ScriptFacts ==
  /\ Len(Script) \in Nat \ {0}
  /\ \A p \in Packets : Script[p].kind \in {"fields", "block", "packed"}
<1>1. Script \in Seq([kind : {"fields", "block", "packed"}, stops : Seq(Nat), cuts : Seq(Nat)])
  BY ScriptAssumption
<1>2. Len(Script) \in Nat /\ Len(Script) > 0
  BY <1>1, ScriptAssumption, LenProperties
<1>3. \A p \in Packets : Script[p] \in [kind : {"fields", "block", "packed"}, stops : Seq(Nat), cuts : Seq(Nat)]
  BY <1>1, ElementOfSeq DEF Packets
<1> QED BY <1>2, <1>3

\* Packets follow one another, and so do the fields or frames of one.
LEMMA PacketFacts ==
  ASSUME NEW p \in Packets
  PROVE  /\ IsCuts(Script[p].stops)
         /\ Len(Script[p].stops) \in Nat \ {0}
         /\ \A k \in 1 .. Len(Script[p].stops) : Script[p].stops[k] \in Nat
         /\ Stop(p) = Script[p].stops[Len(Script[p].stops)]
         /\ Stop(p) \in Nat /\ Start(p) \in Nat
         /\ Start(p) < Script[p].stops[1] /\ Script[p].stops[1] <= Stop(p)
<1>1. \A q \in Packets : IsCuts(Script[q].stops) /\ Start(q) < Script[q].stops[1]
  BY ScriptAssumption DEF IsPacket
<1>2. \A q \in Packets :
        /\ Len(Script[q].stops) \in Nat \ {0}
        /\ \A k \in 1 .. Len(Script[q].stops) : Script[q].stops[k] \in Nat
        /\ Stop(q) = Script[q].stops[Len(Script[q].stops)]
  BY <1>1, CutsFacts DEF Stop, Last
<1>3. \A q \in Packets : Stop(q) \in Nat
  BY <1>2
<1>4. Start(p) \in Nat
  <2>1. CASE p = 1
    BY <2>1 DEF Start
  <2>2. CASE p # 1
    <3>1. p - 1 \in Packets
      BY <2>2, ScriptFacts DEF Packets
    <3> QED BY <1>3, <2>2, <3>1 DEF Start, Stop
  <2> QED BY <2>1, <2>2
<1>5. Script[p].stops[1] <= Stop(p)
  <2>1. 1 \in 1 .. Len(Script[p].stops) /\ Len(Script[p].stops) \in 1 .. Len(Script[p].stops)
    BY <1>2
  <2>2. 1 <= Len(Script[p].stops)
    BY <1>2
  <2> QED BY <1>1, <1>2, <2>1, <2>2, CutsMonotone
<1> QED BY <1>1, <1>2, <1>3, <1>4, <1>5

\* Where the reader is in a packet.
Within == packet \in Packets => part \in 0 .. Len(Script[packet].stops) - 1
Beyond == packet \notin Packets => part = 0 /\ packet = Len(Script) + 1

LEMMA DueFacts ==
  ASSUME packet \in Packets, Within
  PROVE  /\ Due \in Nat /\ Size \in Nat \ {0}
         /\ Due + Size = Script[packet].stops[part + 1]
         /\ Start(packet) <= Due /\ Due + Size <= Stop(packet)
         /\ Position = Due
<1> DEFINE s == Script[packet].stops
           l == Len(s)
<1>1. IsCuts(s) /\ l \in Nat \ {0} /\ part \in 0 .. l - 1
  BY PacketFacts DEF Within
<1>2. /\ s[part + 1] \in Nat /\ s[part + 1] <= Stop(packet) /\ s[1] <= s[part + 1]
      /\ part + 1 \in 1 .. l
  <2>1. part + 1 \in 1 .. l /\ l \in 1 .. l /\ 1 \in 1 .. l /\ 1 <= part + 1 /\ part + 1 <= l
    BY <1>1
  <2>2. s[part + 1] <= s[l] /\ s[1] <= s[part + 1]
    BY <1>1, <2>1, CutsMonotone
  <2> QED BY <2>1, <2>2, PacketFacts
<1>3. /\ Start(packet) \in Nat /\ Start(packet) < s[1] /\ s[1] \in Nat
  BY <1>1, PacketFacts
<1>4. Due \in Nat /\ Start(packet) <= Due /\ Due < s[part + 1]
  <2>1. CASE part = 0
    BY <1>3, <2>1 DEF Due
  <2>2. CASE part # 0
    <3>1. part \in 1 .. l /\ part + 1 \in 1 .. l /\ 1 <= part /\ part < part + 1 /\ 1 \in 1 .. l
      BY <1>1, <2>2
    <3>2. Due = s[part] /\ s[part] \in Nat
      BY <1>1, <2>2, <3>1, PacketFacts DEF Due
    <3>3. s[part] < s[part + 1]
      BY <1>1, <3>1, CutsFacts
    <3>4. s[1] <= s[part]
      BY <1>1, <3>1, CutsMonotone
    <3> QED BY <1>3, <3>2, <3>3, <3>4
  <2> QED BY <2>1, <2>2
<1>5. Size = s[part + 1] - Due
  BY DEF Size
<1>6. Position = Due
  BY ScriptFacts DEF Position, Packets
<1> HIDE DEF s, l
<1>7. Size \in Nat \ {0} /\ Due + Size = s[part + 1]
  BY <1>2, <1>4, <1>5
<1> QED BY <1>2, <1>4, <1>6, <1>7 DEF s

LEMMA NextPart ==
  ASSUME packet \in Packets, Within, part + 1 # Len(Script[packet].stops),
         part' = part + 1, packet' = packet
  PROVE  Within' /\ Beyond' /\ Due' = Due + Size /\ Position' = Due + Size
<1>1. /\ Len(Script[packet].stops) \in Nat \ {0}
      /\ part \in 0 .. Len(Script[packet].stops) - 1
  BY PacketFacts DEF Within
<1>2. part' # 0 /\ part' \in 0 .. Len(Script[packet'].stops) - 1 /\ Script[packet'] = Script[packet]
  BY <1>1
<1>3. Due' = Script[packet].stops[part + 1]
  BY <1>1, <1>2 DEF Due
<1>4. Position' = Due'
  BY ScriptFacts DEF Position, Packets
<1> QED BY <1>2, <1>3, <1>4, DueFacts DEF Within, Beyond

LEMMA NextPacketPosition ==
  ASSUME packet \in Packets, Within, NextPacket
  PROVE  Within' /\ Beyond' /\ Position' = Stop(packet) /\ packet' \in 1 .. Len(Script) + 1
<1>1. /\ part' = 0 /\ packet' = packet + 1 /\ packet \in Nat \ {0} /\ packet <= Len(Script)
      /\ Len(Script) \in Nat
  BY ScriptFacts DEF NextPacket, Packets
<1>2. CASE packet' \in Packets
  <2>1. Within' /\ Beyond'
    BY <1>1, <1>2, PacketFacts DEF Within, Beyond
  <2>2. packet' # 1 /\ packet' - 1 = packet /\ ~(packet' > Len(Script))
    BY <1>1, <1>2 DEF Packets
  <2>3. Position' = Start(packet')
    BY <1>1, <2>2 DEF Position, Due
  <2> QED BY <1>1, <2>1, <2>2, <2>3 DEF Start, Stop
<1>3. CASE packet' \notin Packets
  <2>1. packet' = Len(Script) + 1 /\ packet = Len(Script) /\ packet' > Len(Script)
    BY <1>1, <1>3 DEF Packets
  <2> QED BY <1>1, <1>3, <2>1 DEF Within, Beyond, Position, Total
<1> QED BY <1>2, <1>3

\* The spans and chunks that bound the buffer exist.
LEMMA LongestBounds ==
  /\ Longest \in Nat
  /\ \A p \in Packets : Stop(p) - Start(p) <= Longest
<1> DEFINE f == [p \in Packets |-> Stop(p) - Start(p)]
           spans == {Stop(p) - Start(p) : p \in Packets}
<1>1. \A p \in Packets : Stop(p) - Start(p) \in Nat
  <2> TAKE p \in Packets
  <2>1. /\ Stop(p) \in Nat /\ Start(p) \in Nat
        /\ Start(p) < Script[p].stops[1] /\ Script[p].stops[1] <= Stop(p)
        /\ Script[p].stops[1] \in Nat
    BY PacketFacts
  <2> QED BY <2>1
<1>2. spans \subseteq Nat
  BY <1>1
<1>3. IsFiniteSet(Packets)
  <2>1. 1 \in Int /\ Len(Script) \in Int
    BY ScriptFacts
  <2> QED BY <2>1, FS_Interval DEF Packets
<1>4. 1 \in Packets
  BY ScriptFacts DEF Packets
<1>5. f \in Surjection(Packets, spans)
  BY DEF Surjection
<1>6. IsFiniteSet(spans)
  <2> HIDE DEF f, spans
  <2> QED BY <1>3, <1>5, FS_Surjection
<1>7. spans \in SUBSET Int /\ spans # {}
  <2>1. spans # {}
    BY <1>4
  <2> HIDE DEF spans
  <2> QED BY <1>2, <2>1
<1>8. Longest \in spans /\ \A p \in Packets : Stop(p) - Start(p) <= Longest
  <2>1. \E m \in spans : \A n \in spans : n <= m
    <3> HIDE DEF spans
    <3> QED BY <1>6, <1>7, FiniteMax
  <2>2. \E m \in spans : \A p \in Packets : Stop(p) - Start(p) <= m
    BY <2>1
  <2>3. Longest = CHOOSE m \in spans : \A p \in Packets : Stop(p) - Start(p) <= m
    BY DEF Longest
  <2> HIDE DEF spans
  <2> QED BY <2>2, <2>3
<1> QED BY <1>2, <1>8

LEMMA LargestBounds == Largest \in Nat /\ \A n \in ChunkSizes : n \in Nat \ {0} /\ n <= Largest
<1>1. \E m \in ChunkSizes : \A n \in ChunkSizes : n <= m
  <2>1. ChunkSizes \in SUBSET Int /\ IsFiniteSet(ChunkSizes) /\ ChunkSizes # {}
    BY SizesAssumption
  <2> QED BY <2>1, FiniteMax
<1> QED BY <1>1, SizesAssumption DEF Largest

-----------------------------------------------------------------------------
\* What an attempt has left, for the packet read.
Resumable ==
  packet \in Packets =>
    \/ Script[packet].kind = "fields" /\ partial = NoPartial
    \/ Script[packet].kind # "fields" /\ IsPartial(Nat, partial, gathered, Script[packet].cuts)

\* The bytes of a block that have been gathered are those handed out, and do not
\* reach its end.
HandedOut ==
  packet \in Packets /\ Script[packet].kind = "block" =>
    /\ Len(gathered) < Last(Script[packet].cuts)
    /\ firstRead => gathered = <<>>
    /\ ~firstRead => returnedEnd = offset + Len(gathered)

\* The payloads of the frames read have been gathered.
Payloads ==
  packet \in Packets /\ Script[packet].kind = "packed" =>
    Len(gathered) = Due - Start(packet) - FrameHead * part

\* The socket flows only while less is buffered than the threshold, or than what a
\* read waits for.
Unpaused == ~paused => available < Larger(Threshold, Longest)

\* The invariant: where the cursor is and what is there, what the decoder
\* holds, and why the socket flows.
Reading  == Within /\ Beyond /\ Aligned
Holding  == Resumable /\ HandedOut /\ BlockBytes /\ Payloads
Flowing  == SleeperWakes /\ Unpaused /\ BoundedBuffer
IInv == TypeOK /\ Reading /\ Holding /\ Flowing

-----------------------------------------------------------------------------
\* Steps that move bytes.

LEMMA TypeFacts ==
  ASSUME TypeOK
  PROVE  /\ Total \in Nat /\ arrived \in Nat /\ arrived <= Total
         /\ buffer \in Seq(0 .. Total) /\ Len(buffer) \in Nat
         /\ end \in Nat /\ end <= Len(buffer) /\ offset \in Nat /\ offset <= end
         /\ returnedEnd \in Nat /\ returnedEnd <= end
         /\ available \in Nat /\ available = end - offset
         /\ gathered \in Seq(Nat) /\ Len(gathered) \in Nat
<1>1. Total \in Nat
  BY ScriptFacts, PacketFacts DEF Total, Packets
<1>2. arrived \in 0 .. Total
  BY DEF TypeOK
<1>3. buffer \in Seq(0 .. Total)
  BY DEF TypeOK
<1>4. Len(buffer) \in Nat
  BY <1>3, LenProperties
<1>5. end \in 0 .. Len(buffer) /\ offset \in 0 .. end /\ returnedEnd \in 0 .. end
  BY DEF TypeOK
<1>6. gathered \in Seq(1 .. Total)
  BY DEF TypeOK
<1>7. gathered \in Seq(Nat)
  <2>1. 1 .. Total \subseteq Nat
    BY <1>1
  <2> QED BY <1>6, <2>1, SeqMonotonic
<1>8. Len(gathered) \in Nat
  BY <1>6, LenProperties
<1>9. available = end - offset
  BY DEF available
<1> QED BY <1>1, <1>2, <1>3, <1>4, <1>5, <1>7, <1>8, <1>9

LEMMA PositionFacts ==
  ASSUME TypeOK, Reading
  PROVE  Position \in Nat /\ arrived = Position + available
<1>1. CASE packet \in Packets
  BY <1>1, DueFacts DEF Reading, Aligned
<1>2. CASE packet \notin Packets
  <2>1. Position = Total
    BY <1>2, ScriptFacts DEF Reading, Beyond, Position
  <2> QED BY <2>1, TypeFacts DEF Reading, Aligned
<1> QED BY <1>1, <1>2

\* A stretch of the unread bytes is the stretch of the stream that is due there.
LEMMA ChunkBytes ==
  ASSUME TypeOK, Reading, NEW a \in Nat, NEW b \in Nat, offset <= a, a <= b, b <= end
  PROVE  /\ SubSeq(buffer, a + 1, b) \in Seq(1 .. Total)
         /\ Len(SubSeq(buffer, a + 1, b)) = b - a
         /\ \A i \in 1 .. b - a : SubSeq(buffer, a + 1, b)[i] = Position + (a - offset) + i
<1>1. /\ offset \in Nat /\ end \in Nat /\ arrived \in Nat /\ arrived <= Total /\ Total \in Nat
      /\ Position \in Nat /\ arrived = Position + (end - offset)
  BY TypeFacts, PositionFacts
<1>2. \A i \in 1 .. available : buffer[offset + i] = Position + i
  BY DEF Reading, Aligned
<1>3. ASSUME NEW j \in a + 1 .. b
      PROVE  buffer[j] = Position + (j - offset) /\ buffer[j] \in 1 .. Total
  <2>1. j - offset \in 1 .. available /\ offset + (j - offset) = j
    BY <1>1 DEF available
  <2>2. buffer[j] = Position + (j - offset)
    BY <1>2, <2>1
  <2> QED BY <1>1, <2>2
<1>4. a + 1 \in Int /\ b \in Int
  OBVIOUS
<1> DEFINE s == SubSeq(buffer, a + 1, b)
<1>5. /\ s \in Seq(1 .. Total)
      /\ Len(s) = IF a + 1 <= b THEN b - (a + 1) + 1 ELSE 0
      /\ \A i \in 1 .. b - (a + 1) + 1 : s[i] = buffer[(a + 1) + i - 1]
  BY <1>3, <1>4, SubSeqProperties
<1> HIDE DEF s
<1>6. Len(s) = b - a
  BY <1>5
<1>7. ASSUME NEW i \in 1 .. b - a
      PROVE  s[i] = Position + (a - offset) + i
  <2> DEFINE j == (a + 1) + i - 1
  <2>1. i \in 1 .. b - (a + 1) + 1 /\ j \in a + 1 .. b /\ j = a + i
    OBVIOUS
  <2>2. s[i] = buffer[j]
    BY <1>5, <2>1
  <2> HIDE DEF j
  <2>3. s[i] = Position + (j - offset)
    BY <1>3, <2>1, <2>2
  <2> QED BY <1>1, <2>1, <2>3
<1> QED BY <1>5, <1>6, <1>7 DEF s

\* append(): what was unread stays unread, and the chunk follows it.
LEMMA AppendBytes ==
  ASSUME TypeOK, Reading, NEW n \in ChunkSizes, Data(n)
  PROVE  /\ buffer' \in Seq(0 .. Total)
         /\ end' \in 0 .. Len(buffer') /\ offset' \in 0 .. end'
         /\ returnedEnd' \in 0 .. end' /\ generation' \in Nat
         /\ available' = available + n
         /\ \A i \in 1 .. available' : buffer'[offset' + i] = Position + i
         /\ offset <= returnedEnd => returnedEnd' - offset' = returnedEnd - offset
<1>1. /\ offset \in Nat /\ end \in Nat /\ arrived \in Nat /\ Total \in Nat
      /\ offset <= end /\ returnedEnd \in Nat /\ returnedEnd <= end /\ end <= Len(buffer)
      /\ Len(buffer) \in Nat /\ available \in Nat /\ available = end - offset
      /\ buffer \in Seq(0 .. Total)
  BY TypeFacts
<1>2. n \in Nat \ {0} /\ arrived + n <= Total
  BY SizesAssumption DEF Data
<1>3. Position \in Nat /\ arrived = Position + available
  BY PositionFacts
<1>4. generation \in Nat
  BY DEF TypeOK
<1>5. \A i \in 1 .. available : buffer[offset + i] = Position + i
  BY DEF Reading, Aligned
<1>6. available' = end' - offset'
  BY DEF available
<1>7. CASE end + n > Len(buffer)
  <2> DEFINE room == Larger(MinCapacity, (available + n) * 2) - available - n
             u == Unread
             d == Incoming(n)
             z == Blank(room)
  <2>1. /\ buffer' = u \o d \o z
        /\ offset' = 0 /\ end' = available + n
        /\ returnedEnd' = IF returnedEnd > offset THEN returnedEnd - offset ELSE 0
        /\ generation' = generation + 1
    BY <1>7 DEF Data, Realloc
  <2>2. room \in Nat
    BY <1>1, <1>2, SizesAssumption DEF Larger
  <2>3. u \in Seq(0 .. Total) /\ Len(u) = available /\ \A i \in 1 .. available : u[i] = Position + i
    <3>1. /\ u \in Seq(1 .. Total) /\ Len(u) = end - offset
          /\ \A i \in 1 .. end - offset : u[i] = Position + (offset - offset) + i
      <4>1. offset <= offset /\ end <= end
        BY <1>1
      <4>2. /\ SubSeq(buffer, offset + 1, end) \in Seq(1 .. Total)
            /\ Len(SubSeq(buffer, offset + 1, end)) = end - offset
            /\ \A i \in 1 .. end - offset :
                 SubSeq(buffer, offset + 1, end)[i] = Position + (offset - offset) + i
        BY <1>1, <4>1, ChunkBytes, Zenon
      <4> QED BY <4>2 DEF Unread
    <3>2. u \in Seq(0 .. Total)
      <4>1. 1 .. Total \subseteq 0 .. Total
        BY <1>1
      <4> QED BY <3>1, <4>1, SeqMonotonic
    <3> HIDE DEF u
    <3> QED BY <1>1, <1>3, <3>1, <3>2
  <2>4. d \in Seq(0 .. Total) /\ Len(d) = n /\ \A i \in 1 .. n : d[i] = arrived + i
    <3>1. \A i \in 1 .. n : arrived + i \in 0 .. Total
      BY <1>1, <1>2
    <3> QED BY <1>2, <3>1, IsASeq DEF Incoming
  <2>5. z \in Seq(0 .. Total) /\ Len(z) = room
    <3>1. 0 \in 0 .. Total
      BY <1>1
    <3> HIDE DEF room
    <3> QED BY <2>2, <3>1, IsASeq DEF Blank
  <2> HIDE DEF u, d, z, room
  <2>6. /\ u \o d \in Seq(0 .. Total) /\ Len(u \o d) = available + n
        /\ \A i \in 1 .. available + n : (u \o d)[i] = IF i <= available THEN u[i] ELSE d[i - available]
    <3>1. /\ u \o d \in Seq(0 .. Total) /\ Len(u \o d) = Len(u) + Len(d)
          /\ \A i \in 1 .. Len(u) + Len(d) : (u \o d)[i] = IF i <= Len(u) THEN u[i] ELSE d[i - Len(u)]
      BY <2>3, <2>4, ConcatProperties
    <3> QED BY <2>3, <2>4, <3>1, Zenon
  <2> DEFINE v == u \o d
  <2> HIDE DEF v
  <2>7. /\ v \o z \in Seq(0 .. Total) /\ Len(v \o z) = available + n + room
        /\ \A i \in 1 .. available + n + room :
             (v \o z)[i] = IF i <= available + n THEN v[i] ELSE z[i - (available + n)]
    <3>1. v \in Seq(0 .. Total) /\ Len(v) = available + n
      BY <2>6 DEF v
    <3>2. /\ v \o z \in Seq(0 .. Total) /\ Len(v \o z) = Len(v) + Len(z)
          /\ \A i \in 1 .. Len(v) + Len(z) : (v \o z)[i] = IF i <= Len(v) THEN v[i] ELSE z[i - Len(v)]
      BY <2>5, <3>1, ConcatProperties
    <3> QED BY <2>5, <3>1, <3>2, Zenon
  <2>8. buffer' = v \o z
    BY <2>1 DEF v
  <2>9. ASSUME NEW i \in 1 .. available + n PROVE buffer'[i] = Position + i
    <3>1. i \in 1 .. available + n + room /\ i <= available + n
      BY <1>1, <1>2, <2>2
    <3>2. buffer'[i] = v[i]
      BY <2>7, <2>8, <3>1
    <3>3. v[i] = IF i <= available THEN u[i] ELSE d[i - available]
      BY <2>6 DEF v
    <3>4. CASE i <= available
      <4>1. i \in 1 .. available
        BY <1>1, <3>4
      <4> QED BY <2>3, <3>2, <3>3, <3>4, <4>1
    <3>5. CASE ~(i <= available)
      <4>1. i - available \in 1 .. n
        BY <1>1, <1>2, <3>5
      <4>2. buffer'[i] = arrived + (i - available)
        BY <2>4, <3>2, <3>3, <3>5, <4>1
      <4> QED BY <1>1, <1>2, <1>3, <4>2
    <3> QED BY <3>4, <3>5
  <2>10. buffer' \in Seq(0 .. Total) /\ Len(buffer') = available + n + room
    BY <2>7, <2>8
  <2>11. /\ end' \in 0 .. Len(buffer') /\ offset' \in 0 .. end' /\ available' = available + n
         /\ returnedEnd' \in 0 .. end' /\ generation' \in Nat
         /\ offset <= returnedEnd => returnedEnd' - offset' = returnedEnd - offset
    BY <1>1, <1>2, <1>4, <1>6, <2>1, <2>2, <2>10
  <2>12. ASSUME NEW i \in 1 .. available' PROVE buffer'[offset' + i] = Position + i
    <3>1. i \in 1 .. available + n /\ offset' + i = i
      BY <1>1, <1>2, <2>1, <2>11
    <3> QED BY <2>9, <3>1
  <2> QED BY <2>10, <2>11, <2>12
<1>8. CASE ~(end + n > Len(buffer))
  <2>1. /\ buffer' = [i \in DOMAIN buffer |->
                        IF i \in end + 1 .. end + n THEN arrived + i - end ELSE buffer[i]]
        /\ end' = end + n
        /\ offset' = offset /\ returnedEnd' = returnedEnd /\ generation' = generation
    BY <1>8 DEF Data
  <2>2. DOMAIN buffer = 1 .. Len(buffer)
    BY <1>1, LenProperties
  <2> DEFINE l == Len(buffer)
             e(i) == IF i \in end + 1 .. end + n THEN arrived + i - end ELSE buffer[i]
  <2>3. \A i \in 1 .. l : e(i) \in 0 .. Total
    <3> TAKE i \in 1 .. l
    <3>1. buffer[i] \in 0 .. Total
      BY <1>1, ElementOfSeq
    <3>2. i \in end + 1 .. end + n => arrived + i - end \in 0 .. Total
      BY <1>1, <1>2
    <3> QED BY <3>1, <3>2
  <2>4. buffer' = [i \in 1 .. l |-> e(i)]
    BY <2>1, <2>2
  <2>5. l \in Nat /\ end + n <= l
    BY <1>1, <1>2, <1>8
  <2> HIDE DEF l
  <2>6. buffer' \in Seq(0 .. Total) /\ Len(buffer') = l /\ \A i \in 1 .. l : buffer'[i] = e(i)
    <3>1. [i \in 1 .. l |-> e(i)] \in Seq(0 .. Total)
      BY <2>3, <2>5, IsASeq
    <3> HIDE DEF e
    <3> QED BY <2>4, <2>5, <3>1
  <2>7. /\ end' \in 0 .. Len(buffer') /\ offset' \in 0 .. end' /\ available' = available + n
        /\ returnedEnd' \in 0 .. end' /\ generation' \in Nat
        /\ offset <= returnedEnd => returnedEnd' - offset' = returnedEnd - offset
    <3>1. end' = end + n /\ offset' = offset /\ returnedEnd' = returnedEnd /\ generation' = generation
      BY <2>1
    <3>2. Len(buffer') = l
      BY <2>6
    <3> HIDE DEF e
    <3> QED BY <1>1, <1>2, <1>4, <1>6, <2>5, <3>1, <3>2
  <2>8. ASSUME NEW i \in 1 .. available' PROVE buffer'[offset' + i] = Position + i
    <3>1. i \in 1 .. available + n /\ offset' + i = offset + i /\ offset + i \in 1 .. l
      BY <1>1, <1>2, <2>1, <2>5, <2>7
    <3>2. buffer'[offset' + i] = e(offset + i)
      BY <2>6, <3>1
    <3>3. CASE i <= available
      <4>1. i \in 1 .. available /\ offset + i \notin end + 1 .. end + n
        BY <1>1, <3>3
      <4> QED BY <1>5, <3>2, <4>1
    <3>4. CASE ~(i <= available)
      <4>1. offset + i \in end + 1 .. end + n
        BY <1>1, <1>2, <3>1, <3>4
      <4>2. buffer'[offset' + i] = arrived + (offset + i) - end
        BY <3>2, <4>1
      <4> QED BY <1>1, <1>2, <1>3, <4>2
    <3> QED BY <3>3, <3>4
  <2> QED BY <2>6, <2>7, <2>8
<1> QED BY <1>7, <1>8

LEMMA BufferLimit ==
  /\ Larger(Threshold, Longest) \in Nat
  /\ Threshold <= Larger(Threshold, Longest) /\ Longest <= Larger(Threshold, Longest)
  /\ Threshold \in Nat /\ Longest \in Nat
  /\ Largest \in Nat \ {0}
<1>1. Threshold \in Nat /\ Longest \in Nat
  BY SizesAssumption, LongestBounds
<1>2. Largest \in Nat \ {0}
  <2>1. 1 \in ChunkSizes
    BY SizesAssumption
  <2>2. Largest \in Nat /\ 1 <= Largest
    BY <2>1, LargestBounds
  <2> QED BY <2>2
<1>3. /\ Larger(Threshold, Longest) \in Nat
      /\ Threshold <= Larger(Threshold, Longest) /\ Longest <= Larger(Threshold, Longest)
  BY <1>1 DEF Larger
<1> QED BY <1>1, <1>2, <1>3

LEMMA SamePosition ==
  ASSUME UNCHANGED decoder
  PROVE  /\ Position' = Position /\ Due' = Due
         /\ Within => Within'
         /\ Beyond => Beyond'
<1>1. packet' = packet /\ part' = part
  BY DEF decoder
<1>2. Due' = Due
  BY <1>1 DEF Due
<1> QED BY <1>1, <1>2 DEF Position, Within, Beyond

\* A "data" event keeps the invariant.
LEMMA DataSafe ==
  ASSUME IInv, NEW n \in ChunkSizes, Data(n)
  PROVE  IInv'
<1>1. TypeOK /\ Reading /\ Holding /\ Flowing
  BY DEF IInv
<1>2. /\ buffer' \in Seq(0 .. Total)
      /\ end' \in 0 .. Len(buffer') /\ offset' \in 0 .. end'
      /\ returnedEnd' \in 0 .. end' /\ generation' \in Nat
      /\ available' = available + n
      /\ \A i \in 1 .. available' : buffer'[offset' + i] = Position + i
      /\ offset <= returnedEnd => returnedEnd' - offset' = returnedEnd - offset
  BY <1>1, AppendBytes
<1>3. /\ UNCHANGED decoder /\ UNCHANGED <<done, error, outcome>>
      /\ arrived' = arrived + n /\ wake' = FALSE
      /\ paused' = (end' - offset' >= Threshold) /\ ~paused
  BY DEF Data
<1>4. /\ packet' = packet /\ part' = part /\ firstRead' = firstRead
      /\ gathered' = gathered /\ partial' = partial
  BY <1>3 DEF decoder
<1>5. n \in Nat \ {0} /\ n <= Largest /\ arrived + n <= Total
  BY LargestBounds DEF Data
<1>6. Position' = Position /\ Due' = Due /\ Within' /\ Beyond'
  BY <1>1, <1>3, SamePosition DEF Reading
<1>7. /\ Position \in Nat /\ arrived = Position + available
      /\ arrived \in Nat /\ available \in Nat /\ Total \in Nat /\ Len(gathered) \in Nat
      /\ offset \in Nat /\ returnedEnd \in Nat
  BY <1>1, PositionFacts, TypeFacts
<1>8. TypeOK'
  <2>1. arrived' \in 0 .. Total
    BY <1>3, <1>5, <1>7
  <2>2. paused' \in BOOLEAN
    BY <1>3
  <2> QED BY <1>1, <1>2, <1>3, <1>4, <2>1, <2>2 DEF TypeOK
<1>9. Reading'
  <2>1. arrived' = Position' + available'
    BY <1>2, <1>3, <1>5, <1>6, <1>7
  <2>2. \A i \in 1 .. available' : buffer'[offset' + i] = Position' + i
    BY <1>2, <1>6
  <2> QED BY <1>6, <2>1, <2>2 DEF Reading, Aligned
<1>10. ASSUME packet \in Packets, Script[packet].kind = "block", ~firstRead
       PROVE  returnedEnd' = offset' + Len(gathered)
  <2>1. returnedEnd = offset + Len(gathered)
    BY <1>1, <1>10 DEF Holding, HandedOut
  <2>2. offset <= returnedEnd
    BY <1>7, <2>1
  <2>3. returnedEnd' - offset' = returnedEnd - offset
    BY <1>2, <2>2
  <2>4. offset' \in Nat /\ returnedEnd' \in Nat
    <3>1. end' \in Nat
      <4>1. Len(buffer') \in Nat
        BY <1>2, LenProperties
      <4> QED BY <1>2, <4>1
    <3> QED BY <1>2, <3>1
  <2>5. Len(gathered) \in Nat /\ offset \in Nat
    BY <1>7
  <2>6. returnedEnd' - offset' = Len(gathered)
    BY <2>1, <2>3, <2>5
  <2> DEFINE g == Len(gathered)
  <2>7. g \in Nat /\ returnedEnd' - offset' = g
    BY <2>5, <2>6
  <2> HIDE DEF g
  <2>8. returnedEnd' = offset' + g
    <3> DEFINE u == returnedEnd'
               v == offset'
    <3>1. u \in Nat /\ v \in Nat /\ g \in Nat /\ u - v = g
      BY <2>4, <2>7
    <3> HIDE DEF u, v
    <3>2. u = v + g
      BY <3>1
    <3> QED BY <3>2 DEF u, v
  <2> QED BY <2>8 DEF g
<1>11. Holding'
  <2>1. Resumable'
    BY <1>1, <1>4 DEF Holding, Resumable
  <2>2. HandedOut'
    BY <1>1, <1>4, <1>10 DEF Holding, HandedOut
  <2>3. BlockBytes'
    <3>1. ASSUME packet \in Packets, Script[packet].kind = "block", ~firstRead
          PROVE  Len(gathered) = returnedEnd' - offset'
      <4>1. offset' \in Int
        <5>1. Len(buffer') \in Nat
          BY <1>2, LenProperties
        <5> QED BY <1>2, <5>1
      <4> QED BY <1>7, <1>10, <3>1, <4>1
    <3> QED BY <1>1, <1>4, <3>1 DEF Holding, BlockBytes
  <2>4. Payloads'
    BY <1>1, <1>4, <1>6 DEF Holding, Payloads
  <2> QED BY <2>1, <2>2, <2>3, <2>4 DEF Holding
<1>12. Flowing'
  <2>1. SleeperWakes'
    BY <1>3 DEF SleeperWakes
  <2>2. available' = end' - offset'
    BY DEF available
  <2>3. available' \in Nat /\ available' = available + n /\ available \in Nat
    BY <1>2, <1>5, <1>7
  <2>4. Unpaused'
    <3>1. ~paused' => ~(available' >= Threshold)
      BY <1>3, <2>2, Zenon
    <3>2. ~paused' => available' < Threshold
      BY <2>3, <3>1, BufferLimit
    <3> QED BY <2>3, <3>2, BufferLimit DEF Unpaused
  <2>5. BoundedBuffer'
    <3>1. available < Larger(Threshold, Longest)
      BY <1>1, <1>3 DEF Flowing, Unpaused
    <3>2. available' < Larger(Threshold, Longest) + Largest
      BY <1>5, <2>3, <3>1, BufferLimit
    <3> QED BY <3>2 DEF BoundedBuffer
  <2> QED BY <2>1, <2>4, <2>5 DEF Flowing
<1> QED BY <1>8, <1>9, <1>11, <1>12 DEF IInv

\* Steps that touch neither the bytes nor the decoder.
LEMMA QuietSafe ==
  ASSUME IInv, UNCHANGED <<arrived, bufferVars, offset, returnedEnd, decoder>>,
         done' \in BOOLEAN, error' \in BOOLEAN, paused' \in BOOLEAN, wake' \in BOOLEAN,
         outcome' \in {"reading", "failed"},
         SleeperWakes', Unpaused'
  PROVE  IInv'
<1>1. TypeOK /\ Reading /\ Holding /\ Flowing
  BY DEF IInv
<1>2. /\ packet' = packet /\ part' = part /\ firstRead' = firstRead
      /\ gathered' = gathered /\ partial' = partial
  BY DEF decoder
<1>3. /\ arrived' = arrived /\ buffer' = buffer /\ end' = end /\ generation' = generation
      /\ offset' = offset /\ returnedEnd' = returnedEnd
  BY DEF bufferVars
<1>4. available' = available
  BY <1>3 DEF available
<1>5. Position' = Position /\ Due' = Due /\ Within' /\ Beyond'
  BY <1>1, SamePosition DEF Reading
<1>6. TypeOK'
  BY <1>1, <1>2, <1>3 DEF TypeOK
<1>7. Reading'
  BY <1>1, <1>3, <1>4, <1>5 DEF Reading, Aligned
<1>8. Holding'
  <2>1. Resumable'
    BY <1>1, <1>2 DEF Holding, Resumable
  <2>2. HandedOut'
    BY <1>1, <1>2, <1>3 DEF Holding, HandedOut
  <2>3. BlockBytes'
    BY <1>1, <1>2, <1>3 DEF Holding, BlockBytes
  <2>4. Payloads'
    BY <1>1, <1>2, <1>5 DEF Holding, Payloads
  <2> QED BY <2>1, <2>2, <2>3, <2>4 DEF Holding
<1>9. Flowing'
  BY <1>1, <1>4 DEF Flowing, BoundedBuffer
<1> QED BY <1>6, <1>7, <1>8, <1>9 DEF IInv

LEMMA BreakSafe ==
  ASSUME IInv, Finish \/ SocketError
  PROVE  IInv'
<1>1. /\ UNCHANGED <<arrived, bufferVars, cursor, outcome, decoder>>
      /\ wake' = FALSE
  BY DEF Finish, SocketError
<1>2. /\ offset' = offset /\ returnedEnd' = returnedEnd /\ paused' = paused
      /\ end' = end /\ outcome' = outcome
  BY <1>1 DEF cursor, bufferVars
<1>3. done' \in BOOLEAN /\ error' \in BOOLEAN
  BY DEF Finish, SocketError, IInv, TypeOK
<1>4. paused' \in BOOLEAN /\ outcome' \in {"reading", "failed"} /\ wake' \in BOOLEAN
  BY <1>1, <1>2 DEF IInv, TypeOK
<1>5. SleeperWakes' /\ Unpaused'
  BY <1>1, <1>2 DEF SleeperWakes, Unpaused, IInv, Flowing, available
<1> QED BY <1>1, <1>2, <1>3, <1>4, <1>5, QuietSafe

\* A read that finds too little waits, with the socket flowing, or fails.
LEMMA WaitSafe ==
  ASSUME IInv, ~wake, WaitOrEnd, available < Larger(Threshold, Longest)
  PROVE  IInv'
<1>1. UNCHANGED <<offset, returnedEnd, socketVars, bufferVars, decoder>>
  BY DEF WaitOrEnd
<1>2. available' = available /\ arrived' = arrived /\ done' = done /\ error' = error
  BY <1>1 DEF available, bufferVars, socketVars
<1>3. /\ wake \in BOOLEAN /\ paused \in BOOLEAN /\ outcome \in {"reading", "failed"}
      /\ done \in BOOLEAN /\ error \in BOOLEAN
  BY DEF IInv, TypeOK
<1>4. /\ wake' \in BOOLEAN /\ paused' \in BOOLEAN /\ outcome' \in {"reading", "failed"}
      /\ wake' => ~paused' /\ ~done /\ ~error
  BY <1>3 DEF WaitOrEnd
<1>5. SleeperWakes' /\ Unpaused'
  BY <1>2, <1>4 DEF SleeperWakes, Unpaused
<1> QED BY <1>1, <1>2, <1>3, <1>4, <1>5, QuietSafe

-----------------------------------------------------------------------------
\* Steps that read.

\* Moving the cursor over bytes that are there.
LEMMA SkipFacts ==
  ASSUME IInv, NEW n \in Nat, n <= available, Skip(n),
         UNCHANGED <<socketVars, bufferVars>>, Position' = Position + n
  PROVE  /\ Aligned' /\ Unpaused' /\ BoundedBuffer'
         /\ paused' \in BOOLEAN /\ offset' \in 0 .. end' /\ available' = available - n
<1>1. TypeOK /\ Reading /\ Flowing
  BY DEF IInv
<1>2. /\ offset \in Nat /\ end \in Nat /\ offset <= end /\ available \in Nat
      /\ available = end - offset /\ Position \in Nat /\ arrived = Position + available
  BY <1>1, TypeFacts, PositionFacts
<1>3. offset' = offset + n /\ end' = end /\ buffer' = buffer /\ arrived' = arrived
  BY DEF Skip, socketVars, bufferVars
<1>4. available' = available - n
  BY <1>2, <1>3 DEF available
<1>5. offset' \in 0 .. end'
  BY <1>2, <1>3
<1>6. Aligned'
  <2>1. arrived' = Position' + available'
    BY <1>2, <1>3, <1>4
  <2>2. ASSUME NEW i \in 1 .. available' PROVE buffer'[offset' + i] = Position' + i
    <3>1. n + i \in 1 .. available /\ offset' + i = offset + (n + i)
      BY <1>2, <1>3, <1>4
    <3>2. buffer[offset + (n + i)] = Position + (n + i)
      BY <1>1, <3>1 DEF Reading, Aligned
    <3> QED BY <1>2, <1>3, <3>1, <3>2
  <2> QED BY <2>1, <2>2 DEF Aligned
<1>7. Unpaused'
  <2>1. CASE ~paused
    <3>1. available < Larger(Threshold, Longest)
      BY <1>1, <2>1 DEF Flowing, Unpaused
    <3> QED BY <1>2, <1>4, <3>1, BufferLimit DEF Unpaused
  <2>2. CASE paused
    <3>1. paused' = (paused /\ 2 * (available - n) >= Threshold)
      BY DEF Skip
    <3>2. ~paused' => ~(2 * (available - n) >= Threshold)
      BY <2>2, <3>1, Zenon
    <3>3. available \in Nat
      BY <1>2
    <3>4. ~(2 * (available - n) >= Threshold) => available - n < Larger(Threshold, Longest)
      BY <3>3, BufferLimit
    <3> QED BY <1>4, <3>2, <3>4 DEF Unpaused
  <2> QED BY <2>1, <2>2
<1>8. BoundedBuffer'
  BY <1>1, <1>2, <1>4, BufferLimit DEF Flowing, BoundedBuffer
<1>9. paused' \in BOOLEAN
  BY <1>1 DEF Skip, TypeOK
<1> QED BY <1>4, <1>5, <1>6, <1>7, <1>8, <1>9

\* The last step of a packet, of whatever kind.
LEMMA PacketSafe ==
  ASSUME IInv, packet \in Packets, ~wake, NextPacket,
         NEW n \in Nat, n <= available, Position + n = Stop(packet), Skip(n),
         returnedEnd' \in 0 .. end, UNCHANGED <<socketVars, bufferVars, sleep>>
  PROVE  IInv'
<1>1. TypeOK /\ Reading /\ Flowing /\ Within
  BY DEF IInv, Reading
<1>2. Within' /\ Beyond' /\ Position' = Stop(packet) /\ packet' \in 1 .. Len(Script) + 1
  BY <1>1, NextPacketPosition
<1>3. /\ Aligned' /\ Unpaused' /\ BoundedBuffer'
      /\ paused' \in BOOLEAN /\ offset' \in 0 .. end'
  BY <1>2, SkipFacts
<1>4. /\ part' = 0 /\ firstRead' = TRUE /\ gathered' = <<>> /\ partial' = NoPartial
  BY DEF NextPacket
<1>5. /\ arrived' = arrived /\ done' = done /\ error' = error /\ buffer' = buffer
      /\ end' = end /\ generation' = generation /\ wake' = wake /\ outcome' = outcome
  BY DEF socketVars, bufferVars, sleep
<1>6. TypeOK'
  <2>1. <<>> \in Seq(1 .. Total)
    BY EmptySeq
  <2>2. part' \in Nat /\ firstRead' \in BOOLEAN /\ gathered' \in Seq(1 .. Total)
    BY <1>4, <2>1
  <2> QED BY <1>1, <1>2, <1>3, <1>5, <2>2 DEF TypeOK
<1>7. Holding'
  <2>1. Len(gathered') = 0
    BY <1>4, EmptySeq
  <2>2. ASSUME packet' \in Packets
        PROVE  Script[packet'].kind \in {"fields", "block", "packed"}
    BY <2>2, ScriptFacts
  <2>3. Resumable'
    BY <1>4, <2>2 DEF Resumable, IsPartial
  <2>4. ASSUME packet' \in Packets, Script[packet'].kind = "block"
        PROVE  Last(Script[packet'].cuts) > 0
    <3>1. IsCuts(Script[packet'].cuts)
      BY <2>4, ScriptAssumption DEF IsPacket
    <3>2. Len(Script[packet'].cuts) \in 1 .. Len(Script[packet'].cuts)
      BY <3>1, CutsFacts
    <3> QED BY <3>1, <3>2, CutsFacts DEF Last
  <2>5. HandedOut'
    BY <1>4, <2>1, <2>4 DEF HandedOut
  <2>6. BlockBytes'
    <3>1. <<>> = [i \in 1 .. 0 |-> Start(packet') + i]
      OBVIOUS
    <3>2. gathered' = [i \in 1 .. Len(gathered') |-> Start(packet') + i]
      BY <1>4, <2>1, <3>1
    <3> QED BY <1>4, <3>2 DEF BlockBytes
  <2>7. Payloads'
    <3>1. ASSUME packet' \in Packets PROVE 0 = Due' - Start(packet') - FrameHead * part'
      <4>1. Due' = Start(packet') /\ Start(packet') \in Nat
        BY <1>4, <3>1, PacketFacts DEF Due
      <4> QED BY <1>4, <4>1, SizesAssumption
    <3> QED BY <2>1, <3>1 DEF Payloads
  <2> QED BY <2>3, <2>5, <2>6, <2>7 DEF Holding
<1>8. SleeperWakes'
  BY <1>5 DEF SleeperWakes
<1> QED BY <1>2, <1>3, <1>6, <1>7, <1>8 DEF IInv, Reading, Flowing

\* A step within a packet of fields or frames.
LEMMA PartSafe ==
  ASSUME IInv, packet \in Packets, Script[packet].kind # "block", ~wake,
         part + 1 # Len(Script[packet].stops), part' = part + 1,
         Size <= available, Skip(Size),
         UNCHANGED <<packet, firstRead, returnedEnd, socketVars, bufferVars, sleep>>,
         gathered' \in Seq(1 .. Total), Resumable', Payloads'
  PROVE  IInv'
<1>1. TypeOK /\ Reading /\ Flowing /\ Within /\ Holding
  BY DEF IInv, Reading
<1>2. /\ Size \in Nat /\ Position = Due
  BY <1>1, DueFacts
<1>3. /\ packet' = packet /\ firstRead' = firstRead /\ returnedEnd' = returnedEnd
      /\ arrived' = arrived /\ done' = done /\ error' = error /\ buffer' = buffer
      /\ end' = end /\ generation' = generation /\ wake' = wake /\ outcome' = outcome
  BY DEF socketVars, bufferVars, sleep
<1>4. Within' /\ Beyond' /\ Position' = Due + Size
  BY <1>1, <1>3, NextPart
<1>5. /\ Aligned' /\ Unpaused' /\ BoundedBuffer'
      /\ paused' \in BOOLEAN /\ offset' \in 0 .. end'
  <2>1. Position' = Position + Size
    BY <1>2, <1>4
  <2> QED BY <1>2, <2>1, SkipFacts
<1>6. TypeOK'
  <2>1. part' \in Nat
    BY <1>1 DEF TypeOK
  <2> QED BY <1>1, <1>3, <1>5, <2>1 DEF TypeOK
<1>7. HandedOut' /\ BlockBytes'
  BY <1>3 DEF HandedOut, BlockBytes
<1>8. SleeperWakes'
  BY <1>3 DEF SleeperWakes
<1> QED BY <1>4, <1>5, <1>6, <1>7, <1>8 DEF IInv, Reading, Flowing, Holding

\* What a read waits for is no longer than the longest packet.
LEMMA WaitSpan ==
  ASSUME packet \in Packets, Within
  PROVE  Size <= Larger(Threshold, Longest)
<1>1. /\ Due \in Nat /\ Size \in Nat /\ Start(packet) <= Due /\ Due + Size <= Stop(packet)
  BY DueFacts
<1>2. Stop(packet) \in Nat /\ Start(packet) \in Nat
  BY PacketFacts
<1>3. Stop(packet) - Start(packet) <= Longest
  BY LongestBounds
<1> QED BY <1>1, <1>2, <1>3, BufferLimit

LEMMA ShortWait ==
  ASSUME IInv, packet \in Packets, ~wake, available < Size, WaitOrEnd
  PROVE  IInv'
<1>1. available \in Nat /\ Size \in Nat
  BY TypeFacts, DueFacts DEF IInv, Reading
<1>2. Size <= Larger(Threshold, Longest)
  BY WaitSpan DEF IInv, Reading
<1>3. available < Larger(Threshold, Longest)
  BY <1>1, <1>2, BufferLimit
<1> QED BY <1>3, WaitSafe

\* The last field or frame of a packet.
LEMMA LastPart ==
  ASSUME IInv, packet \in Packets, ~wake, Size <= available, Skip(Size), NextPacket,
         part + 1 = Len(Script[packet].stops),
         UNCHANGED <<returnedEnd, socketVars, bufferVars, sleep>>
  PROVE  IInv'
<1>1. TypeOK /\ Within
  BY DEF IInv, Reading
<1>2. /\ Size \in Nat /\ Position = Due /\ Due + Size = Script[packet].stops[part + 1]
  BY <1>1, DueFacts
<1>3. Position + Size = Stop(packet)
  BY <1>2, PacketFacts
<1>4. returnedEnd' \in 0 .. end
  BY <1>1 DEF TypeOK
<1> QED BY <1>2, <1>3, <1>4, PacketSafe

LEMMA FieldSafe ==
  ASSUME IInv, ReadField
  PROVE  IInv'
<1>1. ~wake /\ packet \in Packets /\ Script[packet].kind = "fields"
  BY DEF ReadField, Awake
<1>2. TypeOK /\ Reading /\ Within /\ Holding
  BY DEF IInv, Reading
<1>3. available \in Nat /\ Size \in Nat
  BY <1>1, <1>2, TypeFacts, DueFacts
<1>4. CASE available < Size
  BY <1>1, <1>4, ShortWait DEF ReadField
<1>5. CASE ~(available < Size)
  <2>1. /\ Size <= available /\ Skip(Size)
        /\ UNCHANGED <<returnedEnd, socketVars, bufferVars, sleep>>
    BY <1>3, <1>5 DEF ReadField
  <2>2. CASE part + 1 = Len(Script[packet].stops)
    BY <1>1, <1>5, <2>1, <2>2, LastPart DEF ReadField
  <2>3. CASE part + 1 # Len(Script[packet].stops)
    <3>1. part' = part + 1 /\ UNCHANGED <<packet, firstRead, gathered, partial>>
      BY <1>5, <2>3 DEF ReadField
    <3>2. gathered' \in Seq(1 .. Total)
      BY <1>2, <3>1 DEF TypeOK
    <3>3. Resumable' /\ Payloads'
      BY <1>1, <1>2, <3>1 DEF Holding, Resumable, Payloads
    <3> QED BY <1>1, <2>1, <2>3, <3>1, <3>2, <3>3, PartSafe
  <2> QED BY <2>2, <2>3
<1> QED BY <1>4, <1>5

LEMMA PackedFacts ==
  ASSUME NEW p \in Packets, Script[p].kind = "packed"
  PROVE  /\ IsCuts(Script[p].cuts)
         /\ FrameHead < Script[p].stops[1] - Start(p)
         /\ \A i, j \in 1 .. Len(Script[p].stops) :
              i < j => FrameHead * (j - i) < Script[p].stops[j] - Script[p].stops[i]
         /\ Last(Script[p].cuts) = Stop(p) - Start(p) - FrameHead * Len(Script[p].stops)
<1>1. IsPacket(p)
  BY ScriptAssumption
<1>2. DOMAIN Script[p].stops = 1 .. Len(Script[p].stops)
  <2>1. Script[p].stops \in Seq(Nat \ {0})
    BY PacketFacts DEF IsCuts
  <2> QED BY <2>1, LenProperties
<1> QED BY <1>1, <1>2 DEF IsPacket

\* A frame has a payload, and the payloads of a packet's frames are its block.
LEMMA FrameFacts ==
  ASSUME packet \in Packets, Script[packet].kind = "packed", Within
  PROVE  LET g == Due - Start(packet) - FrameHead * part + (Size - FrameHead)
         IN /\ FrameHead \in Nat /\ FrameHead < Size
            /\ g = ((Due + Size) - Start(packet)) - FrameHead * (part + 1)
            /\ part + 1 = Len(Script[packet].stops) => g = Last(Script[packet].cuts)
            /\ part + 1 # Len(Script[packet].stops) => g < Last(Script[packet].cuts)
<1> DEFINE s == Script[packet].stops
           l == Len(s)
           x == Start(packet)
           h == FrameHead
           last == Last(Script[packet].cuts)
           y == Stop(packet)
           d == Due
           z == Size
           k == part
<1>1. /\ d \in Nat /\ z \in Nat /\ d + z = s[k + 1]
      /\ x \in Nat /\ y \in Nat /\ y = s[l] /\ l \in Nat /\ h \in Nat
      /\ k \in 0 .. l - 1
  BY DueFacts, PacketFacts, SizesAssumption DEF Within
<1>2. /\ h < s[1] - x /\ last = y - x - h * l
      /\ \A i, j \in 1 .. l : i < j => h * (j - i) < s[j] - s[i]
  BY PackedFacts
<1>3. (k = 0 => d = x) /\ (k # 0 => d = s[k])
  BY DEF Due
<1> HIDE DEF s, l, x, h, last, y, d, z, k
<1>4. h < z
  <2>1. CASE k = 0
    BY <1>1, <1>2, <1>3, <2>1
  <2>2. CASE k # 0
    <3>1. k \in 1 .. l /\ k + 1 \in 1 .. l /\ k < k + 1 /\ (k + 1) - k = 1
      BY <1>1, <2>2
    <3>2. h * ((k + 1) - k) < s[k + 1] - s[k]
      BY <1>2, <3>1
    <3>3. h * 1 = h
      BY <1>1
    <3>4. h < s[k + 1] - d
      BY <1>3, <2>2, <3>1, <3>2, <3>3
    <3>5. s[k + 1] = d + z /\ d \in Nat /\ z \in Nat /\ h \in Nat
      BY <1>1
    <3> QED BY <3>4, <3>5
  <2> QED BY <2>1, <2>2
<1>5. h * (k + 1) = h * k + h /\ h * k \in Nat /\ h * l \in Nat
  BY <1>1
<1> DEFINE g == d - x - h * k + (z - h)
<1>6. g = ((d + z) - x) - h * (k + 1)
  BY <1>1, <1>5
<1>7. k + 1 = l => g = last
  BY <1>1, <1>2, <1>6
<1>8. k + 1 # l => g < last
  <2>1. SUFFICES ASSUME k + 1 # l PROVE g < last
    OBVIOUS
  <2>2. k + 1 \in 1 .. l /\ l \in 1 .. l /\ k + 1 < l
    BY <1>1, <2>1
  <2>3. h * (l - (k + 1)) < s[l] - s[k + 1]
    BY <1>2, <2>2
  <2>4. h * (l - (k + 1)) = h * l - h * (k + 1) /\ h * (k + 1) \in Nat
    BY <1>1
  <2>5. h * l - h * (k + 1) < y - (d + z)
    BY <1>1, <2>3, <2>4
  <2> DEFINE a == h * l
             b == h * (k + 1)
  <2>6. a \in Nat /\ b \in Nat /\ a - b < y - (d + z) /\ last = y - x - a /\ g = ((d + z) - x) - b
    BY <1>2, <1>5, <1>6, <2>4, <2>5
  <2> HIDE DEF a, b, g
  <2> QED BY <1>1, <2>6
<1> QED BY <1>1, <1>4, <1>6, <1>7, <1>8 DEF s, l, x, h, last, y, d, z, k

\* One turn of decoding, for the packet read.
LEMMA DecodeFacts ==
  ASSUME IInv, packet \in Packets, Script[packet].kind # "fields",
         NEW chunk, chunk \in Seq(1 .. Total)
  PROVE  /\ gathered \o chunk \in Seq(1 .. Total)
         /\ Len(gathered \o chunk) = Len(gathered) + Len(chunk)
         /\ IsPartial(Nat, Decode(chunk), gathered \o chunk, Script[packet].cuts)
         /\ Decodes(chunk) <=> Last(Script[packet].cuts) <= Len(gathered \o chunk)
         /\ Decodes(chunk) => Decode(chunk).resumeOffset = Last(Script[packet].cuts)
<1>1. gathered \in Seq(1 .. Total)
  BY DEF IInv, TypeOK
<1>2. /\ gathered \o chunk \in Seq(1 .. Total)
      /\ Len(gathered \o chunk) = Len(gathered) + Len(chunk)
  BY <1>1, ConcatProperties
<1>3. chunk \in Seq(Nat) /\ gathered \in Seq(Nat)
  <2>1. 1 .. Total \subseteq Nat
    BY TypeFacts DEF IInv
  <2> QED BY <1>1, <2>1, SeqMonotonic
<1>4. IsCuts(Script[packet].cuts)
  <2>1. IsPacket(packet) /\ Script[packet].kind \in {"block", "packed"}
    BY ScriptFacts, ScriptAssumption
  <2> QED BY <2>1 DEF IsPacket
<1>5. IsPartial(Nat, partial, gathered, Script[packet].cuts)
  BY DEF IInv, Holding, Resumable
<1> QED BY <1>2, <1>3, <1>4, <1>5, AttemptResumes DEF Decode, Decodes, Last

\* The payload of a frame that is there, and what decoding it gives: the block is
\* whole with the last frame.
LEMMA FramePayload ==
  ASSUME IInv, packet \in Packets, Script[packet].kind = "packed", Size <= available,
         NEW payload, payload = SubSeq(buffer, offset + FrameHead + 1, offset + Size)
  PROVE  /\ gathered \o payload \in Seq(1 .. Total)
         /\ Len(gathered \o payload) = ((Due + Size) - Start(packet)) - FrameHead * (part + 1)
         /\ IsPartial(Nat, Decode(payload), gathered \o payload, Script[packet].cuts)
         /\ Decodes(payload) <=> part + 1 = Len(Script[packet].stops)
<1> DEFINE last == Last(Script[packet].cuts)
           g == Due - Start(packet) - FrameHead * part + (Size - FrameHead)
<1>1. TypeOK /\ Reading /\ Within /\ Holding
  BY DEF IInv, Reading
<1>2. /\ available \in Nat /\ Size \in Nat /\ offset \in Nat /\ available = end - offset
      /\ end \in Nat
  BY <1>1, TypeFacts, DueFacts
<1>3. /\ FrameHead \in Nat /\ FrameHead < Size
      /\ g = ((Due + Size) - Start(packet)) - FrameHead * (part + 1)
      /\ part + 1 = Len(Script[packet].stops) => g = last
      /\ part + 1 # Len(Script[packet].stops) => g < last
  BY <1>1, FrameFacts
<1>4. payload \in Seq(1 .. Total) /\ Len(payload) = Size - FrameHead
  <2> DEFINE a == offset + FrameHead
             b == offset + Size
  <2>1. a \in Nat /\ b \in Nat /\ offset <= a /\ a <= b /\ b <= end /\ b - a = Size - FrameHead
    BY <1>2, <1>3
  <2>2. payload = SubSeq(buffer, a + 1, b)
    OBVIOUS
  <2> HIDE DEF a, b
  <2>3. SubSeq(buffer, a + 1, b) \in Seq(1 .. Total) /\ Len(SubSeq(buffer, a + 1, b)) = b - a
    BY <1>1, <2>1, ChunkBytes, Zenon
  <2> QED BY <2>1, <2>2, <2>3
<1>5. /\ gathered \o payload \in Seq(1 .. Total)
      /\ Len(gathered \o payload) = Len(gathered) + Len(payload)
      /\ IsPartial(Nat, Decode(payload), gathered \o payload, Script[packet].cuts)
      /\ Decodes(payload) <=> last <= Len(gathered \o payload)
  <2>1. Script[packet].kind # "fields"
    OBVIOUS
  <2> QED BY <1>4, <2>1, DecodeFacts
<1>6. Len(gathered \o payload) = g
  <2>1. Len(gathered) = Due - Start(packet) - FrameHead * part
    BY <1>1 DEF Holding, Payloads
  <2> QED BY <1>4, <1>5, <2>1
<1>7. g \in Nat /\ last \in Nat
  <2>1. Len(gathered \o payload) \in Nat
    BY <1>5, LenProperties
  <2>2. IsCuts(Script[packet].cuts)
    BY PackedFacts
  <2>3. last \in Nat
    BY <2>2, CutsFacts DEF Last
  <2> HIDE DEF g
  <2> QED BY <1>6, <2>1, <2>3
<1> HIDE DEF g, last
<1>8. Decodes(payload) <=> part + 1 = Len(Script[packet].stops)
  BY <1>3, <1>5, <1>6, <1>7
<1> QED BY <1>3, <1>5, <1>6, <1>8

LEMMA FrameSafe ==
  ASSUME IInv, ReadFrame
  PROVE  IInv'
<1>1. ~wake /\ packet \in Packets /\ Script[packet].kind = "packed"
  BY DEF ReadFrame, Awake
<1>2. TypeOK /\ Reading /\ Within /\ Holding
  BY DEF IInv, Reading
<1>3. available \in Nat /\ Size \in Nat
  BY <1>1, <1>2, TypeFacts, DueFacts
<1>4. CASE available < Size
  BY <1>1, <1>4, ShortWait DEF ReadFrame
<1>5. CASE ~(available < Size)
  <2> DEFINE payload == SubSeq(buffer, offset + FrameHead + 1, offset + Size)
  <2>1. /\ Size <= available /\ Skip(Size)
        /\ IF Decodes(payload) THEN NextPacket
           ELSE Gather(payload) /\ part' = part + 1 /\ UNCHANGED <<packet, firstRead>>
        /\ UNCHANGED <<returnedEnd, socketVars, bufferVars, sleep>>
    BY <1>3, <1>5 DEF ReadFrame
  <2>2. /\ gathered \o payload \in Seq(1 .. Total)
        /\ Len(gathered \o payload) = ((Due + Size) - Start(packet)) - FrameHead * (part + 1)
        /\ IsPartial(Nat, Decode(payload), gathered \o payload, Script[packet].cuts)
        /\ Decodes(payload) <=> part + 1 = Len(Script[packet].stops)
    BY <1>1, <2>1, FramePayload
  <2> HIDE DEF payload
  <2>3. CASE part + 1 = Len(Script[packet].stops)
    <3>1. NextPacket
      BY <2>1, <2>2, <2>3
    <3> QED BY <1>1, <2>1, <2>3, <3>1, LastPart
  <2>4. CASE part + 1 # Len(Script[packet].stops)
    <3>1. /\ gathered' = gathered \o payload /\ partial' = Decode(payload)
          /\ part' = part + 1 /\ packet' = packet /\ firstRead' = firstRead
      BY <2>1, <2>2, <2>4 DEF Gather
    <3>2. gathered' \in Seq(1 .. Total)
      BY <2>2, <3>1
    <3>3. Resumable'
      <4>1. IsPartial(Nat, partial', gathered', Script[packet'].cuts)
        BY <2>2, <3>1
      <4>2. Script[packet'].kind # "fields"
        BY <1>1, <3>1
      <4> QED BY <4>1, <4>2 DEF Resumable
    <3>4. Payloads'
      <4>1. Due' = Due + Size
        BY <1>1, <1>2, <2>4, <3>1, NextPart
      <4>2. Len(gathered') = Due' - Start(packet') - FrameHead * part'
        <5>1. Start(packet') = Start(packet) /\ FrameHead * part' = FrameHead * (part + 1)
          BY <3>1
        <5>2. Len(gathered') = ((Due + Size) - Start(packet)) - FrameHead * (part + 1)
          BY <2>2, <3>1, Zenon
        <5> QED BY <4>1, <5>1, <5>2, Zenon
      <4> QED BY <4>2 DEF Payloads
    <3>5. Script[packet].kind # "block"
      BY <1>1
    <3>6. UNCHANGED <<packet, firstRead, returnedEnd, socketVars, bufferVars, sleep>>
      BY <2>1, <3>1
    <3>7. part' = part + 1 /\ Size <= available /\ Skip(Size)
      BY <2>1, <3>1
    <3> QED BY <1>1, <2>4, <3>2, <3>3, <3>4, <3>5, <3>6, <3>7, PartSafe
  <2> QED BY <2>3, <2>4
<1> QED BY <1>4, <1>5

\* A drained packet of one frame.
LEMMA DiscardSafe ==
  ASSUME IInv, DiscardFrame, \A p \in Drained : Len(Script[p].stops) = 1
  PROVE  IInv'
<1>1. ~wake /\ packet \in Packets /\ packet \in Drained /\ part = 0
  BY DEF DiscardFrame, Awake
<1>2. available \in Nat /\ Size \in Nat
  BY <1>1, TypeFacts, DueFacts DEF IInv, Reading
<1>3. CASE available < Size
  BY <1>1, <1>3, ShortWait DEF DiscardFrame
<1>4. CASE ~(available < Size)
  <2>1. /\ Size <= available /\ Skip(Size) /\ NextPacket
        /\ UNCHANGED <<returnedEnd, socketVars, bufferVars, sleep>>
    BY <1>2, <1>4 DEF DiscardFrame
  <2>2. part + 1 = Len(Script[packet].stops)
    BY <1>1
  <2> QED BY <1>1, <2>1, <2>2, LastPart
<1> QED BY <1>3, <1>4

-----------------------------------------------------------------------------
\* Blocks of unknown length.

LEMMA BlockFacts ==
  ASSUME packet \in Packets, Script[packet].kind = "block", Within
  PROVE  /\ IsCuts(Script[packet].cuts) /\ Last(Script[packet].cuts) \in Nat \ {0}
         /\ Start(packet) \in Nat /\ Position = Start(packet)
         /\ Start(packet) + Last(Script[packet].cuts) = Stop(packet)
<1>1. /\ IsCuts(Script[packet].cuts) /\ Len(Script[packet].stops) = 1
      /\ Last(Script[packet].cuts) = Stop(packet) - Start(packet)
  BY ScriptAssumption DEF IsPacket
<1>2. Last(Script[packet].cuts) \in Nat \ {0}
  <2>1. Len(Script[packet].cuts) \in 1 .. Len(Script[packet].cuts)
    BY <1>1, CutsFacts
  <2> QED BY <1>1, <2>1, CutsFacts DEF Last
<1>3. part = 0
  BY <1>1 DEF Within
<1>4. Position = Start(packet)
  BY <1>3, DueFacts DEF Due
<1>5. Start(packet) \in Nat /\ Stop(packet) \in Nat
  BY PacketFacts
<1> QED BY <1>1, <1>2, <1>4, <1>5

\* A step that gathers all there is of a block, and finds it incomplete.
LEMMA BlockHeld ==
  ASSUME IInv, packet \in Packets, Script[packet].kind = "block",
         returnedEnd' = end, firstRead' = FALSE,
         UNCHANGED <<offset, paused, packet, part, socketVars, bufferVars, sleep>>,
         gathered' \in Seq(1 .. Total), Len(gathered') = available,
         available < Last(Script[packet].cuts),
         \A i \in 1 .. available : gathered'[i] = Start(packet) + i,
         IsPartial(Nat, partial', gathered', Script[packet].cuts)
  PROVE  IInv'
<1>1. TypeOK /\ Reading /\ Flowing
  BY DEF IInv
<1>2. /\ packet' = packet /\ part' = part /\ offset' = offset /\ paused' = paused
      /\ arrived' = arrived /\ done' = done /\ error' = error /\ buffer' = buffer
      /\ end' = end /\ generation' = generation /\ wake' = wake /\ outcome' = outcome
  BY DEF socketVars, bufferVars, sleep
<1>3. available' = available /\ Due' = Due
  BY <1>2 DEF available, Due
<1>4. Position' = Position
  BY <1>2, <1>3 DEF Position
<1>5. offset \in Nat /\ end \in Nat /\ available = end - offset /\ available \in Nat
  BY <1>1, TypeFacts
<1>6. TypeOK'
  <2>1. returnedEnd' \in 0 .. end'
    BY <1>2, <1>5
  <2> QED BY <1>1, <1>2, <2>1 DEF TypeOK
<1>7. Reading'
  BY <1>1, <1>2, <1>3, <1>4 DEF Reading, Within, Beyond, Aligned
<1>8. Holding'
  <2>1. Resumable'
    BY <1>2 DEF Resumable
  <2>2. returnedEnd' = offset' + Len(gathered') /\ Len(gathered') = returnedEnd' - offset'
    BY <1>2, <1>5
  <2>3. HandedOut'
    BY <1>2, <2>2 DEF HandedOut
  <2>4. gathered' = [i \in 1 .. Len(gathered') |-> Start(packet') + i]
    <3>1. DOMAIN gathered' = 1 .. Len(gathered') /\ gathered' \in [1 .. Len(gathered') -> 1 .. Total]
      BY LenProperties
    <3> QED BY <1>2, <3>1
  <2>5. BlockBytes'
    BY <2>2, <2>4 DEF BlockBytes
  <2>6. Payloads'
    BY <1>2 DEF Payloads
  <2> QED BY <2>1, <2>3, <2>5, <2>6 DEF Holding
<1>9. Flowing'
  BY <1>1, <1>2, <1>3 DEF Flowing, SleeperWakes, Unpaused, BoundedBuffer
<1> QED BY <1>6, <1>7, <1>8, <1>9 DEF IInv

\* All the bytes of a block that are there: those gathered, and the rest.
LEMMA BlockChunkFacts ==
  ASSUME IInv, packet \in Packets, Script[packet].kind = "block",
         NEW chunk, Len(gathered) <= available,
         chunk = SubSeq(buffer, offset + Len(gathered) + 1, end)
  PROVE  /\ chunk \in Seq(1 .. Total)
         /\ Len(gathered \o chunk) = available
         /\ \A i \in 1 .. available : (gathered \o chunk)[i] = Start(packet) + i
<1> DEFINE l == Len(gathered)
           a == offset + l
           x == Start(packet)
<1>1. TypeOK /\ Reading /\ Within /\ Holding
  BY DEF IInv, Reading
<1>2. /\ offset \in Nat /\ end \in Nat /\ available = end - offset /\ available \in Nat
      /\ l \in Nat /\ gathered \in Seq(1 .. Total)
  BY <1>1, TypeFacts DEF TypeOK
<1>3. x \in Nat /\ Position = x
  BY <1>1, BlockFacts
<1>4. \A i \in 1 .. l : gathered[i] = x + i
  BY <1>1 DEF Holding, BlockBytes
<1>5. a \in Nat /\ offset <= a /\ a <= end /\ end <= end /\ a - offset = l /\ end - a = available - l
  BY <1>2
<1> HIDE DEF l, a, x
<1>6. chunk = SubSeq(buffer, a + 1, end)
  BY DEF a, l
<1>7. /\ chunk \in Seq(1 .. Total) /\ Len(chunk) = end - a
      /\ \A i \in 1 .. end - a : chunk[i] = Position + (a - offset) + i
  <2>1. /\ SubSeq(buffer, a + 1, end) \in Seq(1 .. Total)
        /\ Len(SubSeq(buffer, a + 1, end)) = end - a
        /\ \A i \in 1 .. end - a : SubSeq(buffer, a + 1, end)[i] = Position + (a - offset) + i
    BY <1>1, <1>2, <1>5, ChunkBytes, Zenon
  <2> QED BY <1>6, <2>1, Zenon
<1>8. /\ Len(gathered \o chunk) = l + Len(chunk)
      /\ \A i \in 1 .. l + Len(chunk) : (gathered \o chunk)[i] = IF i <= l THEN gathered[i] ELSE chunk[i - l]
  BY <1>2, <1>7, ConcatProperties DEF l
<1>9. l + Len(chunk) = available
  <2>1. Len(chunk) = available - l
    BY <1>5, <1>7, Zenon
  <2>2. l + (available - l) = available
    BY <1>2
  <2> QED BY <2>1, <2>2, Zenon
<1>10. ASSUME NEW i \in 1 .. available PROVE (gathered \o chunk)[i] = x + i
  <2>1. (gathered \o chunk)[i] = IF i <= l THEN gathered[i] ELSE chunk[i - l]
    BY <1>8, <1>9
  <2>2. CASE i <= l
    <3>1. i \in 1 .. l
      BY <1>2, <2>2
    <3> QED BY <1>4, <2>1, <2>2, <3>1
  <2>3. CASE ~(i <= l)
    <3>1. i - l \in 1 .. end - a
      <4>1. available \in Nat /\ l \in Nat /\ end - a = available - l
        BY <1>2, <1>5
      <4>2. i - l \in 1 .. available - l
        BY <4>1, <2>3
      <4> QED BY <4>1, <4>2, Zenon
    <3>2. chunk[i - l] = Position + (a - offset) + (i - l)
      BY <1>7, <3>1
    <3>3. x + l + (i - l) = x + i
      BY <1>2, <1>3
    <3>4. chunk[i - l] = x + l + (i - l)
      BY <1>3, <1>5, <3>2, Zenon
    <3> QED BY <2>1, <2>3, <3>3, <3>4
  <2> QED BY <2>2, <2>3
<1> QED BY <1>7, <1>8, <1>9, <1>10 DEF x

LEMMA BlockChunkSafe ==
  ASSUME IInv, packet \in Packets, Script[packet].kind = "block", ~wake,
         Len(gathered) <= available,
         BlockChunk(SubSeq(buffer, offset + Len(gathered) + 1, end))
  PROVE  IInv'
<1> DEFINE chunk == SubSeq(buffer, offset + Len(gathered) + 1, end)
           last == Last(Script[packet].cuts)
<1>1. TypeOK /\ Within
  BY DEF IInv, Reading
<1>2. /\ chunk \in Seq(1 .. Total)
      /\ Len(gathered \o chunk) = available
      /\ \A i \in 1 .. available : (gathered \o chunk)[i] = Start(packet) + i
  BY BlockChunkFacts
<1>3. BlockChunk(chunk)
  OBVIOUS
<1> HIDE DEF chunk
<1>4. /\ gathered \o chunk \in Seq(1 .. Total)
      /\ IsPartial(Nat, Decode(chunk), gathered \o chunk, Script[packet].cuts)
      /\ Decodes(chunk) <=> last <= Len(gathered \o chunk)
      /\ Decodes(chunk) => Decode(chunk).resumeOffset = last
  <2>1. Script[packet].kind # "fields"
    OBVIOUS
  <2> QED BY <1>2, <2>1, DecodeFacts
<1>5. /\ last \in Nat /\ Position + last = Stop(packet)
  BY <1>1, BlockFacts
<1>6. available \in Nat /\ end \in Nat
  BY <1>1, TypeFacts
<1>7. returnedEnd' = end /\ UNCHANGED <<socketVars, bufferVars, sleep>>
  BY <1>3 DEF BlockChunk
<1>8. CASE Decodes(chunk)
  <2>1. Skip(last) /\ NextPacket
    BY <1>3, <1>4, <1>8 DEF BlockChunk
  <2>2. last <= available
    BY <1>2, <1>4, <1>8
  <2>3. returnedEnd' \in 0 .. end
    BY <1>6, <1>7
  <2> HIDE DEF last
  <2> QED BY <1>5, <1>7, <2>1, <2>2, <2>3, PacketSafe
<1>9. CASE ~Decodes(chunk)
  <2>1. /\ gathered' = gathered \o chunk /\ partial' = Decode(chunk)
        /\ firstRead' = FALSE /\ UNCHANGED <<offset, paused, packet, part>>
    BY <1>3, <1>9 DEF BlockChunk, Gather
  <2>2. available < last
    BY <1>2, <1>4, <1>5, <1>6, <1>9
  <2>3. /\ gathered' \in Seq(1 .. Total) /\ Len(gathered') = available
        /\ \A i \in 1 .. available : gathered'[i] = Start(packet) + i
        /\ IsPartial(Nat, partial', gathered', Script[packet].cuts)
    BY <1>2, <1>4, <2>1
  <2> QED BY <1>7, <2>1, <2>2, <2>3, BlockHeld
<1> QED BY <1>8, <1>9

LEMMA PeekSafe ==
  ASSUME IInv, PeekAll
  PROVE  IInv'
<1>1. ~wake /\ packet \in Packets /\ Script[packet].kind = "block" /\ firstRead
  BY DEF PeekAll, Awake
<1>2. TypeOK /\ Within /\ Holding
  BY DEF IInv, Reading
<1>3. /\ offset \in Nat /\ end \in Nat /\ available \in Nat /\ available = end - offset
  BY <1>2, TypeFacts
<1>4. gathered = <<>> /\ Len(gathered) = 0
  BY <1>1, <1>2 DEF Holding, HandedOut
<1>5. CASE available > 0
  <2>1. BlockChunk(Unread)
    BY <1>5 DEF PeekAll
  <2>2. offset + Len(gathered) + 1 = offset + 1
    BY <1>3, <1>4
  <2>3. BlockChunk(SubSeq(buffer, offset + Len(gathered) + 1, end))
    BY <2>1, <2>2, Zenon DEF Unread
  <2>4. Len(gathered) <= available
    BY <1>3, <1>4
  <2> QED BY <1>1, <2>3, <2>4, BlockChunkSafe
<1>6. CASE ~(available > 0)
  <2>1. /\ returnedEnd' = end /\ firstRead' = FALSE
        /\ UNCHANGED <<offset, paused, socketVars, bufferVars, sleep, packet, part, gathered, partial>>
    BY <1>6 DEF PeekAll
  <2>2. available = 0
    BY <1>3, <1>6
  <2>3. gathered' \in Seq(1 .. Total) /\ Len(gathered') = available
    BY <1>2, <1>4, <2>1, <2>2 DEF TypeOK
  <2>4. available < Last(Script[packet].cuts)
    BY <1>1, <1>2, <2>2, BlockFacts
  <2>5. IsPartial(Nat, partial', gathered', Script[packet].cuts)
    BY <1>1, <1>2, <2>1 DEF Holding, Resumable
  <2>6. \A i \in 1 .. available : gathered'[i] = Start(packet) + i
    BY <2>2
  <2> QED BY <1>1, <2>1, <2>3, <2>4, <2>5, <2>6, BlockHeld
<1> QED BY <1>5, <1>6

\* What is known of a block between two chunks.
LEMMA BetweenChunks ==
  ASSUME IInv, packet \in Packets, Script[packet].kind = "block", ~firstRead
  PROVE  /\ returnedEnd = offset + Len(gathered) /\ Len(gathered) <= available
         /\ end <= returnedEnd => available = Len(gathered)
         /\ Len(gathered) < Last(Script[packet].cuts) /\ Len(gathered) \in Nat
<1>1. /\ offset \in Nat /\ end \in Nat /\ available \in Nat /\ available = end - offset
      /\ returnedEnd \in Nat /\ returnedEnd <= end /\ Len(gathered) \in Nat
  BY TypeFacts DEF IInv
<1>2. returnedEnd = offset + Len(gathered) /\ Len(gathered) < Last(Script[packet].cuts)
  BY DEF IInv, Holding, HandedOut
<1> DEFINE l == Len(gathered)
<1>3. l \in Nat /\ returnedEnd = offset + l
  BY <1>1, <1>2
<1> HIDE DEF l
<1>4. l <= available /\ (end <= returnedEnd => available = l)
  BY <1>1, <1>3
<1> QED BY <1>1, <1>2, <1>4 DEF l

LEMMA NextChunkSafe ==
  ASSUME IInv, NextChunk
  PROVE  IInv'
<1>1. ~wake /\ packet \in Packets /\ Script[packet].kind = "block" /\ ~firstRead
  BY DEF NextChunk, Awake
<1>2. /\ returnedEnd = offset + Len(gathered) /\ Len(gathered) <= available
      /\ end <= returnedEnd => available = Len(gathered)
      /\ Len(gathered) < Last(Script[packet].cuts) /\ Len(gathered) \in Nat
  BY <1>1, BetweenChunks
<1>3. CASE end <= returnedEnd
  <2>1. WaitOrEnd
    BY <1>3 DEF NextChunk
  <2>2. available < Last(Script[packet].cuts) /\ available \in Nat
    BY <1>2, <1>3
  <2>3. Last(Script[packet].cuts) <= Longest /\ Last(Script[packet].cuts) \in Nat
    <3>1. Stop(packet) - Start(packet) <= Longest
      BY <1>1, LongestBounds
    <3>2. /\ Last(Script[packet].cuts) \in Nat /\ Start(packet) \in Nat
          /\ Start(packet) + Last(Script[packet].cuts) = Stop(packet)
      BY <1>1, BlockFacts DEF IInv, Reading
    <3> QED BY <3>1, <3>2
  <2>4. available < Larger(Threshold, Longest)
    BY <2>2, <2>3, BufferLimit
  <2> QED BY <1>1, <2>1, <2>4, WaitSafe
<1>4. CASE ~(end <= returnedEnd)
  <2>1. BlockChunk(SubSeq(buffer, returnedEnd + 1, end))
    BY <1>4 DEF NextChunk
  <2>2. BlockChunk(SubSeq(buffer, offset + Len(gathered) + 1, end))
    BY <1>2, <2>1, Zenon
  <2> QED BY <1>1, <1>2, <2>2, BlockChunkSafe
<1> QED BY <1>3, <1>4

-----------------------------------------------------------------------------
\* The invariant, and what follows from it.

\* A drain takes one frame to be a packet: drainServerPacket calls
\* discardCompressedBlock once.  The reader keeps its place in the stream only if
\* that is so.
SingleFrames == \A p \in Drained : Len(Script[p].stops) = 1

LEMMA InitSafe ==
  ASSUME Init
  PROVE  IInv
<1>1. Total \in Nat
  BY ScriptFacts, PacketFacts DEF Total, Packets
<1>2. 1 \in Packets
  BY ScriptFacts DEF Packets
<1>3. IsCuts(Script[1].stops) /\ Len(Script[1].stops) \in Nat \ {0}
  BY <1>2, PacketFacts
<1>4. TypeOK
  <2>1. <<>> \in Seq(1 .. Total)
    BY EmptySeq
  <2>2. buffer \in Seq(0 .. Total) /\ Len(buffer) = MinCapacity /\ MinCapacity \in Nat
    <3>1. MinCapacity \in Nat /\ 0 \in 0 .. Total
      BY <1>1, SizesAssumption
    <3>2. [i \in 1 .. MinCapacity |-> 0] \in Seq(0 .. Total)
      BY <3>1, IsASeq
    <3> QED BY <3>1, <3>2 DEF Init
  <2>3. /\ arrived \in 0 .. Total /\ end \in 0 .. Len(buffer) /\ offset \in 0 .. end
        /\ returnedEnd \in 0 .. end
    BY <1>1, <2>2 DEF Init
  <2>4. packet \in 1 .. Len(Script) + 1
    BY ScriptFacts DEF Init
  <2> QED BY <2>1, <2>2, <2>3, <2>4 DEF Init, TypeOK
<1>5. available = 0
  BY DEF Init, available
<1>6. Reading
  <2>1. Within /\ Beyond
    BY <1>2, <1>3 DEF Init, Within, Beyond
  <2>2. Position = 0
    BY ScriptFacts DEF Init, Position, Due, Start
  <2>3. Aligned
    BY <1>5, <2>2 DEF Init, Aligned
  <2> QED BY <2>1, <2>3 DEF Reading
<1>7. Holding
  <2>1. packet = 1 /\ part = 0 /\ firstRead = TRUE /\ gathered = <<>> /\ partial = NoPartial
    BY DEF Init
  <2>2. Len(gathered) = 0
    BY <2>1, EmptySeq
  <2>3. Script[1].kind \in {"fields", "block", "packed"}
    BY <1>2, ScriptFacts
  <2>4. Resumable
    BY <2>1, <2>3 DEF Resumable, IsPartial
  <2>5. HandedOut
    <3>1. Script[1].kind = "block" => Last(Script[1].cuts) \in Nat \ {0}
      BY <1>2, <1>6, <2>1, BlockFacts DEF Reading
    <3>2. Script[1].kind = "block" => 0 < Last(Script[1].cuts)
      BY <3>1
    <3> QED BY <2>1, <2>2, <3>2 DEF HandedOut
  <2>6. BlockBytes
    <3>1. gathered = [i \in 1 .. 0 |-> Start(packet) + i]
      BY <2>1
    <3> QED BY <2>1, <2>2, <3>1 DEF BlockBytes
  <2>7. Payloads
    <3>1. Due = Start(packet) /\ Start(packet) \in Nat
      BY <1>2, <2>1, PacketFacts DEF Due
    <3>2. 0 = Due - Start(packet) - FrameHead * part
      BY <2>1, <3>1, SizesAssumption
    <3> QED BY <2>2, <3>2 DEF Payloads
  <2> QED BY <2>4, <2>5, <2>6, <2>7 DEF Holding
<1>8. Flowing
  <2>1. 0 < Larger(Threshold, Longest)
    <3>1. Threshold \in Nat \ {0}
      BY SizesAssumption
    <3> QED BY <3>1, BufferLimit
  <2>2. SleeperWakes
    BY DEF Init, SleeperWakes
  <2>3. Unpaused
    BY <1>5, <2>1 DEF Unpaused
  <2>4. BoundedBuffer
    BY <1>5, <2>1, BufferLimit DEF BoundedBuffer
  <2> QED BY <2>2, <2>3, <2>4 DEF Flowing
<1> QED BY <1>4, <1>6, <1>7, <1>8 DEF IInv

LEMMA StutterSafe ==
  ASSUME IInv, UNCHANGED vars
  PROVE  IInv'
<1>1. /\ UNCHANGED <<arrived, bufferVars, offset, returnedEnd, decoder>>
      /\ done' = done /\ error' = error /\ paused' = paused /\ wake' = wake
      /\ outcome' = outcome /\ end' = end /\ offset' = offset
  BY DEF vars, socketVars, bufferVars, cursor, sleep
<1>2. /\ done' \in BOOLEAN /\ error' \in BOOLEAN /\ paused' \in BOOLEAN /\ wake' \in BOOLEAN
      /\ outcome' \in {"reading", "failed"}
  BY <1>1 DEF IInv, TypeOK
<1>3. SleeperWakes' /\ Unpaused'
  BY <1>1 DEF IInv, Flowing, SleeperWakes, Unpaused, available
<1> QED BY <1>1, <1>2, <1>3, QuietSafe

LEMMA StepSafe ==
  ASSUME SingleFrames, IInv, [Next]_vars
  PROVE  IInv'
<1>1. ASSUME NEW n \in ChunkSizes, Data(n) PROVE IInv'
  BY <1>1, DataSafe
<1>2. CASE Finish \/ SocketError
  BY <1>2, BreakSafe
<1>3. CASE ReadField
  BY <1>3, FieldSafe
<1>4. CASE PeekAll
  BY <1>4, PeekSafe
<1>5. CASE NextChunk
  BY <1>5, NextChunkSafe
<1>6. CASE ReadFrame
  BY <1>6, FrameSafe
<1>7. CASE DiscardFrame
  BY <1>7, DiscardSafe DEF SingleFrames
<1>8. CASE UNCHANGED vars
  BY <1>8, StutterSafe
<1> QED BY <1>1, <1>2, <1>3, <1>4, <1>5, <1>6, <1>7, <1>8 DEF Next, Socket, ReadOn

\* The reader's invariant, for every script whose drained packets are of one frame.
THEOREM ReaderInvariant == ASSUME SingleFrames PROVE Spec => []IInv
<1>1. Init => IInv
  BY InitSafe
<1>2. IInv /\ [Next]_vars => IInv'
  BY StepSafe
<1> QED BY <1>1, <1>2, PTL DEF Spec

\* The variables keep their types: cursors stay inside the buffer and in order.
THEOREM ReaderTypes == ASSUME SingleFrames PROVE Spec => []TypeOK
<1>1. IInv => TypeOK
  BY DEF IInv
<1> QED BY <1>1, ReaderInvariant, PTL

\* Every byte exactly once, wherever chunks, packets and buffers begin and end.
THEOREM EveryByteOnce == ASSUME SingleFrames PROVE Spec => []Aligned
<1>1. IInv => Aligned
  BY DEF IInv, Reading
<1> QED BY <1>1, ReaderInvariant, PTL

\* A block is decoded from its own bytes, and the columns kept across a resumed
\* attempt are cut from them in the right places.
THEOREM BlocksFromTheirBytes == ASSUME SingleFrames PROVE Spec => []BlocksDecode
<1>1. ASSUME IInv PROVE ColumnsCut
  <2>1. SUFFICES ASSUME packet \in Packets, partial.header
                 PROVE  /\ \A k \in DOMAIN partial.columns :
                             partial.columns[k] = SubSeq(gathered, Script[packet].cuts[k] + 1,
                                                         Script[packet].cuts[k + 1])
                        /\ partial.resumeOffset = Script[packet].cuts[Len(partial.columns) + 1]
    BY DEF ColumnsCut
  <2>2. partial # NoPartial
    BY <2>1 DEF NoPartial
  <2>3. IsPartial(Nat, partial, gathered, Script[packet].cuts)
    BY <1>1, <2>1, <2>2 DEF IInv, Holding, Resumable
  <2>4. /\ partial.columns \in Seq(Seq(Nat))
        /\ partial.resumeOffset = Script[packet].cuts[Len(partial.columns) + 1]
        /\ \A k \in 1 .. Len(partial.columns) :
             partial.columns[k] = SubSeq(gathered, Script[packet].cuts[k] + 1,
                                         Script[packet].cuts[k + 1])
    BY <2>2, <2>3 DEF IsPartial
  <2>5. DOMAIN partial.columns = 1 .. Len(partial.columns)
    BY <2>4, LenProperties
  <2> QED BY <2>4, <2>5
<1>2. IInv => BlocksDecode
  BY <1>1 DEF BlocksDecode, IInv, Holding
<1> QED BY <1>2, ReaderInvariant, PTL

\* Between two packets the cursor stands at the start of the next.
THEOREM CursorBetweenPackets == ASSUME SingleFrames PROVE Spec => []PacketsWhole
<1>1. ASSUME IInv, packet \in Packets, part = 0 PROVE arrived - available = Start(packet)
  <2>1. Position \in Nat /\ arrived = Position + available /\ available \in Nat
    BY <1>1, PositionFacts, TypeFacts DEF IInv
  <2>2. Position = Start(packet)
    BY <1>1, DueFacts DEF IInv, Reading, Due
  <2> QED BY <2>1, <2>2
<1>2. IInv => PacketsWhole
  BY <1>1 DEF PacketsWhole
<1> QED BY <1>2, ReaderInvariant, PTL

\* Backpressure bounds what is buffered, however slow the client is.
THEOREM BufferBounded == ASSUME SingleFrames PROVE Spec => []BoundedBuffer
<1>1. IInv => BoundedBuffer
  BY DEF IInv, Flowing
<1> QED BY <1>1, ReaderInvariant, PTL

\* A read never sleeps over a paused, ended or broken socket.
THEOREM SleepersWakeable == ASSUME SingleFrames PROVE Spec => []SleeperWakes
<1>1. IInv => SleeperWakes
  BY DEF IInv, Flowing
<1> QED BY <1>1, ReaderInvariant, PTL

\* Bytes handed out by peekAll, nextChunk or readCompressedBlock are not written
\* over: append() writes past end, or into a buffer of its own.
THEOREM HandedOutKept == ASSUME SingleFrames PROVE Spec => ViewsKept
<1> DEFINE Kept == generation' = generation => \A i \in 1 .. returnedEnd : buffer'[i] = buffer[i]
<1>1. ASSUME IInv, [Next]_vars, generation' = generation, NEW i \in 1 .. returnedEnd
      PROVE  buffer'[i] = buffer[i]
  <2>1. CASE \E n \in ChunkSizes : Data(n)
    <3>1. PICK n \in ChunkSizes : Data(n)
      BY <2>1
    <3>2. ~(end + n > Len(buffer))
      <4>1. generation \in Nat
        BY <1>1 DEF IInv, TypeOK
      <4>2. generation' # generation + 1
        BY <1>1, <4>1
      <4> QED BY <3>1, <4>2 DEF Data, Realloc
    <3>3. buffer' = [j \in DOMAIN buffer |->
                       IF j \in end + 1 .. end + n THEN arrived + j - end ELSE buffer[j]]
      BY <3>1, <3>2 DEF Data
    <3>4. /\ end \in Nat /\ returnedEnd \in Nat /\ returnedEnd <= end /\ end <= Len(buffer)
          /\ Len(buffer) \in Nat /\ DOMAIN buffer = 1 .. Len(buffer)
      <4>1. buffer \in Seq(0 .. Total)
        BY <1>1, TypeFacts DEF IInv
      <4>2. DOMAIN buffer = 1 .. Len(buffer)
        BY <4>1, LenProperties
      <4> QED BY <1>1, <4>2, TypeFacts DEF IInv
    <3>5. i \in DOMAIN buffer /\ i \notin end + 1 .. end + n
      <4> DEFINE l == Len(buffer)
      <4>1. /\ end \in Nat /\ returnedEnd \in Nat /\ returnedEnd <= end /\ end <= l /\ l \in Nat
            /\ n \in Nat
        BY <3>4, SizesAssumption
      <4> HIDE DEF l
      <4>2. i \in 1 .. l /\ i \notin end + 1 .. end + n
        BY <1>1, <4>1
      <4> QED BY <3>4, <4>2 DEF l
    <3> QED BY <3>3, <3>5
  <2>2. CASE ~\E n \in ChunkSizes : Data(n)
    <3>1. buffer' = buffer
      BY <1>1, <2>2
         DEF Next, Socket, ReadOn, Finish, SocketError, ReadField, PeekAll, NextChunk, ReadFrame,
             DiscardFrame, WaitOrEnd, BlockChunk, bufferVars, vars
    <3> QED BY <3>1
  <2> QED BY <2>1, <2>2
<1>2. IInv /\ [Next]_vars => [Kept]_vars
  BY <1>1
<1> QED BY <1>2, ReaderInvariant, PTL DEF Spec, ViewsKept

-----------------------------------------------------------------------------
\* The reader implements PacketStream.

LEMMA ReadsPacket ==
  ASSUME IInv, packet \in Packets, outcome = "reading", NextPacket,
         Stop(packet) <= arrived, UNCHANGED <<socketVars, sleep>>
  PROVE  Stream!Read
<1>1. /\ arrived' = arrived /\ done' = done /\ error' = error /\ outcome' = outcome
      /\ packet' = packet + 1
  BY DEF socketVars, sleep, NextPacket
<1>2. packet \in Nat /\ packet <= Len(Script) /\ Len(Script) \in Nat
  BY ScriptFacts DEF Packets
<1>3. packet - 1 < Len(Script) /\ (packet - 1) + 1 = packet /\ packet' - 1 = (packet - 1) + 1
  BY <1>1, <1>2
<1> QED BY <1>1, <1>3 DEF Stream!Read

\* A read that ends in an error reports a broken connection, in the middle of a
\* packet; one that sleeps changes nothing a caller sees.
LEMMA WaitsOrReports ==
  ASSUME IInv, packet \in Packets, outcome = "reading", WaitOrEnd, arrived < Stop(packet)
  PROVE  Stream!Report \/ UNCHANGED Stream!stream
<1>1. UNCHANGED <<socketVars, decoder>>
  BY DEF WaitOrEnd
<1>2. /\ arrived' = arrived /\ done' = done /\ error' = error /\ packet' = packet
  BY <1>1 DEF socketVars, decoder
<1>3. packet \in Nat /\ packet <= Len(Script) /\ Len(Script) \in Nat
  BY ScriptFacts DEF Packets
<1>4. packet - 1 < Len(Script) /\ (packet - 1) + 1 = packet
  BY <1>3
<1>5. Stop(packet) > arrived
  BY TypeFacts, PacketFacts DEF IInv
<1>6. CASE error \/ done
  BY <1>2, <1>4, <1>5, <1>6 DEF WaitOrEnd, Stream!Report
<1>7. CASE ~(error \/ done)
  BY <1>2, <1>7 DEF WaitOrEnd, Stream!stream
<1> QED BY <1>6, <1>7

LEMMA StreamStutters ==
  ASSUME UNCHANGED <<packet, socketVars, sleep>>
  PROVE  UNCHANGED Stream!stream
<1>1. /\ arrived' = arrived /\ done' = done /\ error' = error /\ outcome' = outcome
      /\ packet' = packet
  BY DEF socketVars, sleep
<1> QED BY <1>1 DEF Stream!stream

\* Too little of a field or frame is there exactly when its end has not arrived.
LEMMA ArrivedFacts ==
  ASSUME IInv, packet \in Packets
  PROVE  /\ available \in Nat /\ Size \in Nat /\ arrived \in Nat
         /\ available < Size => arrived < Stop(packet)
         /\ Size <= available /\ part + 1 = Len(Script[packet].stops) => Stop(packet) <= arrived
<1>1. TypeOK /\ Reading /\ Within
  BY DEF IInv, Reading
<1>2. available \in Nat /\ arrived \in Nat /\ arrived = Due + available
  BY <1>1, TypeFacts, PositionFacts, DueFacts
<1>3. /\ Due \in Nat /\ Size \in Nat /\ Due + Size = Script[packet].stops[part + 1]
      /\ Due + Size <= Stop(packet)
  BY <1>1, DueFacts
<1>4. Stop(packet) \in Nat
  BY PacketFacts
<1>5. part + 1 = Len(Script[packet].stops) => Due + Size = Stop(packet)
  BY <1>3, PacketFacts
<1> QED BY <1>2, <1>3, <1>4, <1>5

LEMMA DataRefines ==
  ASSUME IInv, NEW n \in ChunkSizes, Data(n)
  PROVE  Stream!Arrive
<1>1. /\ arrived' = arrived + n /\ arrived + n <= Total /\ ~done /\ ~error
      /\ UNCHANGED <<done, error, outcome, decoder>>
  BY DEF Data
<1>2. arrived \in Nat /\ Total \in Nat /\ n \in Nat \ {0}
  BY TypeFacts, SizesAssumption DEF IInv
<1>3. packet' = packet
  BY <1>1 DEF decoder
<1>4. arrived < Stop(Len(Script)) /\ arrived' \in arrived + 1 .. Stop(Len(Script))
  BY <1>1, <1>2 DEF Total
<1> QED BY <1>1, <1>3, <1>4 DEF Stream!Arrive

LEMMA BreakRefines ==
  ASSUME IInv, Finish \/ SocketError
  PROVE  Stream!Break \/ UNCHANGED Stream!stream
<1>1. UNCHANGED <<arrived, outcome, decoder>>
  BY DEF Finish, SocketError
<1>2. arrived' = arrived /\ outcome' = outcome /\ packet' = packet
  BY <1>1 DEF decoder
<1>3. done' \/ error'
  BY DEF Finish, SocketError
<1>4. CASE done \/ error
  <2>1. (done' \/ error') = (done \/ error)
    BY <1>3, <1>4
  <2> QED BY <1>2, <2>1 DEF Stream!stream
<1>5. CASE ~(done \/ error)
  <2>1. (done' \/ error') = TRUE
    BY <1>3
  <2> QED BY <1>2, <1>5, <2>1 DEF Stream!Break
<1> QED BY <1>4, <1>5

LEMMA PartRefines ==
  ASSUME IInv, ReadField \/ ReadFrame
  PROVE  Stream!Next \/ UNCHANGED Stream!stream
<1>1. packet \in Packets /\ outcome = "reading"
  BY DEF ReadField, ReadFrame, Awake
<1>2. /\ available \in Nat /\ Size \in Nat /\ arrived \in Nat
      /\ available < Size => arrived < Stop(packet)
      /\ Size <= available /\ part + 1 = Len(Script[packet].stops) => Stop(packet) <= arrived
  BY <1>1, ArrivedFacts
<1>3. CASE available < Size
  <2>1. WaitOrEnd
    BY <1>3 DEF ReadField, ReadFrame
  <2> QED BY <1>1, <1>2, <1>3, <2>1, WaitsOrReports DEF Stream!Next
<1>4. CASE ~(available < Size)
  <2>1. Size <= available
    BY <1>2, <1>4
  <2>2. UNCHANGED <<socketVars, sleep>>
    BY <1>4 DEF ReadField, ReadFrame
  <2>3. CASE ReadField
    <3>1. CASE part + 1 = Len(Script[packet].stops)
      <4>1. NextPacket
        BY <1>4, <2>3, <3>1 DEF ReadField
      <4> QED BY <1>1, <1>2, <2>1, <2>2, <3>1, <4>1, ReadsPacket DEF Stream!Next
    <3>2. CASE part + 1 # Len(Script[packet].stops)
      <4>1. packet' = packet
        BY <1>4, <2>3, <3>2 DEF ReadField
      <4> QED BY <2>2, <4>1, StreamStutters
    <3> QED BY <3>1, <3>2
  <2>4. CASE ReadFrame
    <3> DEFINE payload == SubSeq(buffer, offset + FrameHead + 1, offset + Size)
    <3>1. IF Decodes(payload) THEN NextPacket
          ELSE Gather(payload) /\ part' = part + 1 /\ UNCHANGED <<packet, firstRead>>
      BY <1>4, <2>4 DEF ReadFrame
    <3>2. Decodes(payload) <=> part + 1 = Len(Script[packet].stops)
      <4>1. Script[packet].kind = "packed"
        BY <2>4 DEF ReadFrame, Awake
      <4> QED BY <1>1, <2>1, <4>1, FramePayload
    <3> HIDE DEF payload
    <3>3. CASE Decodes(payload)
      BY <1>1, <1>2, <2>1, <2>2, <3>1, <3>2, <3>3, ReadsPacket DEF Stream!Next
    <3>4. CASE ~Decodes(payload)
      BY <2>2, <3>1, <3>4, StreamStutters
    <3> QED BY <3>3, <3>4
  <2> QED BY <2>3, <2>4
<1> QED BY <1>3, <1>4

LEMMA DiscardRefines ==
  ASSUME SingleFrames, IInv, DiscardFrame
  PROVE  Stream!Next \/ UNCHANGED Stream!stream
<1>1. packet \in Packets /\ outcome = "reading" /\ packet \in Drained /\ part = 0
  BY DEF DiscardFrame, Awake
<1>2. part + 1 = Len(Script[packet].stops)
  BY <1>1 DEF SingleFrames
<1>3. /\ available \in Nat /\ Size \in Nat
      /\ available < Size => arrived < Stop(packet)
      /\ Size <= available => Stop(packet) <= arrived
  BY <1>1, <1>2, ArrivedFacts
<1>4. CASE available < Size
  <2>1. WaitOrEnd
    BY <1>4 DEF DiscardFrame
  <2> QED BY <1>1, <1>3, <1>4, <2>1, WaitsOrReports DEF Stream!Next
<1>5. CASE ~(available < Size)
  <2>1. NextPacket /\ UNCHANGED <<socketVars, sleep>>
    BY <1>5 DEF DiscardFrame
  <2>2. Stop(packet) <= arrived
    BY <1>3, <1>5
  <2> QED BY <1>1, <2>1, <2>2, ReadsPacket DEF Stream!Next
<1> QED BY <1>4, <1>5

LEMMA ChunkRefines ==
  ASSUME IInv, packet \in Packets, Script[packet].kind = "block", outcome = "reading",
         Len(gathered) <= available,
         BlockChunk(SubSeq(buffer, offset + Len(gathered) + 1, end))
  PROVE  Stream!Next \/ UNCHANGED Stream!stream
<1> DEFINE chunk == SubSeq(buffer, offset + Len(gathered) + 1, end)
           last == Last(Script[packet].cuts)
<1>1. chunk \in Seq(1 .. Total) /\ Len(gathered \o chunk) = available
  BY BlockChunkFacts
<1>2. BlockChunk(chunk)
  OBVIOUS
<1> HIDE DEF chunk
<1>3. Decodes(chunk) <=> last <= available
  <2>1. Script[packet].kind # "fields"
    OBVIOUS
  <2> QED BY <1>1, <2>1, DecodeFacts
<1>4. UNCHANGED <<socketVars, sleep>>
  BY <1>2 DEF BlockChunk
<1>5. CASE Decodes(chunk)
  <2>1. NextPacket
    BY <1>2, <1>5 DEF BlockChunk
  <2>2. Stop(packet) <= arrived
    <3>1. /\ Position \in Nat /\ arrived = Position + available /\ available \in Nat
      BY PositionFacts, TypeFacts DEF IInv
    <3>2. last \in Nat /\ Position + last = Stop(packet)
      BY BlockFacts DEF IInv, Reading
    <3> QED BY <1>3, <1>5, <3>1, <3>2
  <2> QED BY <1>4, <2>1, <2>2, ReadsPacket DEF Stream!Next
<1>6. CASE ~Decodes(chunk)
  <2>1. packet' = packet
    BY <1>2, <1>6 DEF BlockChunk
  <2> QED BY <1>4, <2>1, StreamStutters
<1> QED BY <1>5, <1>6

LEMMA BlockRefines ==
  ASSUME IInv, PeekAll \/ NextChunk
  PROVE  Stream!Next \/ UNCHANGED Stream!stream
<1>1. packet \in Packets /\ outcome = "reading" /\ Script[packet].kind = "block"
  BY DEF PeekAll, NextChunk, Awake
<1>2. TypeOK /\ Reading /\ Within /\ Holding
  BY DEF IInv, Reading
<1>3. /\ available \in Nat /\ offset \in Nat /\ arrived = Position + available /\ Position \in Nat
  BY <1>2, TypeFacts, PositionFacts
<1>4. CASE PeekAll
  <2>1. firstRead /\ gathered = <<>> /\ Len(gathered) = 0
    BY <1>1, <1>2, <1>4 DEF PeekAll, Holding, HandedOut
  <2>2. CASE available > 0
    <3>1. BlockChunk(Unread)
      BY <1>4, <2>2 DEF PeekAll
    <3>2. offset + Len(gathered) + 1 = offset + 1 /\ Len(gathered) <= available
      BY <1>3, <2>1
    <3>3. BlockChunk(SubSeq(buffer, offset + Len(gathered) + 1, end))
      BY <3>1, <3>2, Zenon DEF Unread
    <3> QED BY <1>1, <3>2, <3>3, ChunkRefines
  <2>3. CASE ~(available > 0)
    BY <1>4, <2>3, StreamStutters DEF PeekAll
  <2> QED BY <2>2, <2>3
<1>5. CASE NextChunk
  <2>1. ~firstRead
    BY <1>5 DEF NextChunk
  <2>2. /\ returnedEnd = offset + Len(gathered) /\ Len(gathered) <= available
        /\ end <= returnedEnd => available = Len(gathered)
        /\ Len(gathered) < Last(Script[packet].cuts) /\ Len(gathered) \in Nat
    BY <1>1, <2>1, BetweenChunks
  <2>3. CASE end <= returnedEnd
    <3>1. WaitOrEnd
      BY <1>5, <2>3 DEF NextChunk
    <3>2. available < Last(Script[packet].cuts)
      BY <2>2, <2>3
    <3>3. /\ Last(Script[packet].cuts) \in Nat
          /\ Position + Last(Script[packet].cuts) = Stop(packet)
      BY <1>1, <1>2, BlockFacts
    <3>4. arrived < Stop(packet)
      BY <1>3, <3>2, <3>3
    <3> QED BY <1>1, <3>1, <3>4, WaitsOrReports DEF Stream!Next
  <2>4. CASE ~(end <= returnedEnd)
    <3>1. BlockChunk(SubSeq(buffer, returnedEnd + 1, end))
      BY <1>5, <2>4 DEF NextChunk
    <3>2. BlockChunk(SubSeq(buffer, offset + Len(gathered) + 1, end))
      BY <2>2, <3>1, Zenon
    <3> QED BY <1>1, <2>2, <3>2, ChunkRefines
  <2> QED BY <2>3, <2>4
<1> QED BY <1>4, <1>5

\* Every step of the reader is a step of PacketStream, or changes nothing of what it
\* is about.
LEMMA StepRefines ==
  ASSUME SingleFrames, IInv, [Next]_vars
  PROVE  [Stream!Next]_(Stream!stream)
<1>1. ASSUME NEW n \in ChunkSizes, Data(n) PROVE Stream!Next
  BY <1>1, DataRefines DEF Stream!Next
<1>2. CASE Finish \/ SocketError
  BY <1>2, BreakRefines DEF Stream!Next
<1>3. CASE ReadField \/ ReadFrame
  BY <1>3, PartRefines
<1>4. CASE PeekAll \/ NextChunk
  BY <1>4, BlockRefines
<1>5. CASE DiscardFrame
  BY <1>5, DiscardRefines
<1>6. CASE UNCHANGED vars
  BY <1>6, StreamStutters DEF vars, decoder, sleep
<1> QED BY <1>1, <1>2, <1>3, <1>4, <1>5, <1>6 DEF Next, Socket, ReadOn

\* What PacketStream promises of packets, but for its fairness: packets come out whole and
\* in order, no earlier than their last byte, and a broken connection is reported
\* only when the packet being read has not arrived.
THEOREM PacketsInOrder ==
  ASSUME SingleFrames PROVE Spec => Stream!Init /\ [][Stream!Next]_(Stream!stream)
<1>1. Init => Stream!Init
  <2>1. ASSUME Init PROVE Stream!Init
    <3>1. arrived = 0 /\ done = FALSE /\ error = FALSE /\ packet = 1 /\ outcome = "reading"
      BY <2>1 DEF Init
    <3>2. (done \/ error) = FALSE /\ packet - 1 = 0 /\ (outcome = "failed") = FALSE
      BY <3>1
    <3> QED BY <3>1, <3>2 DEF Stream!Init
  <2> QED BY <2>1
<1>2. IInv /\ [Next]_vars => [Stream!Next]_(Stream!stream)
  BY StepRefines
<1> QED BY <1>1, <1>2, ReaderInvariant, PTL DEF Spec
=============================================================================
