------------------------------ MODULE NativeIo ------------------------------
(***************************************************************************)
(* The bytes under the Native format, src/native/io.ts: variable-length    *)
(* integers, and the BufferWriter that grows as values are written.  Bytes *)
(* are numbers below 2 * Group: GroupBits of payload and the continuation  *)
(* bit.  A character is the sequence of its UTF-8 bytes, one byte below    *)
(* Group when it is ASCII.                                                 *)
(***************************************************************************)
LOCAL INSTANCE Integers
LOCAL INSTANCE Sequences
LOCAL INSTANCE SequencesExt

CONSTANTS GroupBits,       \* payload bits of a byte (7)
          WordBits,        \* bits readVarInt returns (32)
          WideGroups,      \* most bytes of a wide VarInt (10)
          ShortString,     \* longest string tried as ASCII first (64)
          CharBytes,       \* UTF-8 bytes reserved for a character (3)
          WriterSizes,     \* sizes a writer may begin with, and retain
          DefaultWriter,   \* the size it begins with again
          Numbers, Strings, Chunks,  \* what is written
          MaxWrites,       \* bound: values written
          InputBytes,      \* bytes a peer may send
          MaxInput         \* bound: bytes of input

ASSUME WordAssumption ==
  /\ GroupBits \in Nat \ {0}
  /\ WordBits > GroupBits
  /\ ShortString < 2 ^ GroupBits
  /\ InputBytes \subseteq 0 .. 2 ^ (GroupBits + 1) - 1

VARIABLES writer,          \* [cells, offset]
          written,         \* the values written so far
          input            \* bytes received so far

ioVars == <<writer, written, input>>

-----------------------------------------------------------------------------
(* VarInts. *)

Group == 2 ^ GroupBits
Continues(byte) == byte >= Group
Payload(byte) == byte % Group

RECURSIVE VarInt(_)
VarInt(n) ==
  IF n < Group THEN <<n>> ELSE <<Group + Payload(n)>> \o VarInt(n \div Group)

RECURSIVE VarIntSize(_)
VarIntSize(n) == IF n < Group THEN 1 ELSE 1 + VarIntSize(n \div Group)

\* The last group that begins within a word has fewer bits left than a group.
LastShift == (WordBits \div GroupBits) * GroupBits
\* (a mutation: whatever does not fit is shifted out)
OverflowsNever(byte, shift) == FALSE

Overflows(byte, shift) == shift = LastShift /\ byte >= 2 ^ (WordBits - LastShift)

\* JavaScript's << and |= on words; groups below a word do not overlap
Or(word, payload, shift) ==
  (word + payload * 2 ^ (shift % WordBits)) % 2 ^ WordBits

Reading(bytes, at) == [bytes |-> bytes, at |-> at, value |-> 0, shift |-> 0, error |-> "none"]

RECURSIVE Groups(_)
Groups(r) ==
  IF r.at >= Len(r.bytes) THEN [r EXCEPT !.error = "underflow"]
  ELSE LET byte == r.bytes[r.at + 1]
           next == [r EXCEPT !.at = @ + 1, !.value = Or(@, Payload(byte), r.shift),
                             !.shift = @ + GroupBits]
       IN IF Overflows(byte, r.shift) THEN [r EXCEPT !.at = @ + 1, !.error = "overflow"]
          ELSE IF Continues(byte) THEN Groups(next) ELSE next

ReadVarInt(bytes, at) == Groups(Reading(bytes, at))

RECURSIVE WideGroupsOf(_)
WideGroupsOf(r) ==
  IF r.at >= Len(r.bytes) THEN [r EXCEPT !.error = "underflow"]
  ELSE LET byte == r.bytes[r.at + 1]
           next == [r EXCEPT !.at = @ + 1, !.value = @ + Payload(byte) * 2 ^ r.shift,
                             !.shift = @ + GroupBits]
       IN IF ~Continues(byte) THEN next
          ELSE IF next.shift >= WideGroups * GroupBits THEN [next EXCEPT !.error = "long"]
          ELSE WideGroupsOf(next)

ReadVarInt64(bytes, at) == WideGroupsOf(Reading(bytes, at))

-----------------------------------------------------------------------------
(* The writer: a write past the end of a Uint8Array is dropped. *)

Fresh(size) == [cells |-> [i \in 1 .. size |-> 0], offset |-> 0]

Put(cells, at, bytes) ==
  [i \in DOMAIN cells |-> IF i - at \in DOMAIN bytes THEN bytes[i - at] ELSE cells[i]]

LOCAL Lower(m, n) == IF m <= n THEN m ELSE n
LOCAL Larger(m, n) == IF m >= n THEN m ELSE n

\* (a mutation: the space is compared with the bytes to come alone)
EnsuredUnoffset(w, bytes) ==
  [w EXCEPT !.cells = IF bytes <= Len(@) THEN @ ELSE Put([i \in 1 .. Larger(2 * Len(@), bytes) |-> 0], 0, @)]

Ensured(w, bytes) ==
  LET needed == w.offset + bytes
      size == Larger(2 * Len(w.cells), needed)
  IN IF needed <= Len(w.cells) THEN w
     ELSE [w EXCEPT !.cells = Put([i \in 1 .. size |-> 0], 0, SubSeq(@, 1, w.offset))]
Written(w, bytes) ==
  [cells |-> Put(w.cells, w.offset, bytes), offset |-> w.offset + Len(bytes)]

WriteChunk(w, bytes) == Written(Ensured(w, Len(bytes)), bytes)
WriteVarInt(w, n) == Written(Ensured(w, WideGroups), VarInt(n))

\* The text goes one byte behind the offset, where it stays if its length takes
\* one byte; a longer length moves it.
WriteStringGeneral(w, chars) ==
  LET text == FlattenSeq(chars)
      roomy == Ensured(w, CharBytes * Len(chars) + WideGroups)
      placed == [roomy EXCEPT !.cells = Put(@, w.offset + 1, text)]
      size == VarIntSize(Len(text))
      moved == Put(placed.cells, w.offset + size,
                   SubSeq(placed.cells, w.offset + 2, Lower(w.offset + 1 + Len(text), Len(placed.cells))))
  IN IF Len(text) < Group
     THEN [cells |-> Put(placed.cells, w.offset, <<Len(text)>>), offset |-> w.offset + 1 + Len(text)]
     ELSE [cells |-> Put(moved, w.offset, VarInt(Len(text))),
           offset |-> w.offset + size + Len(text)]

Ascii(char) == Len(char) = 1 /\ char[1] < Group

\* A short string is written as ASCII as far as it is; at the first other
\* character all of it is written again.
WriteString(w, chars) ==
  LET short == Ensured(w, Len(chars) + 1)
      ascii == FlattenSeq(SelectSeq(chars, Ascii))
      before == IF \E i \in DOMAIN chars : ~Ascii(chars[i])
                THEN CHOOSE i \in 0 .. Len(chars) - 1 :
                       ~Ascii(chars[i + 1]) /\ \A j \in 1 .. i : Ascii(chars[j])
                ELSE Len(chars)
      tried == [short EXCEPT !.cells = Put(@, w.offset + 1, SubSeq(ascii, 1, before))]
  IN IF Len(chars) > ShortString THEN WriteStringGeneral(w, chars)
     ELSE IF before < Len(chars) THEN WriteStringGeneral(tried, chars)
     ELSE [cells |-> Put(tried.cells, w.offset, <<Len(chars)>>), offset |-> w.offset + Len(chars) + 1]

Finished(w) == SubSeq(w.cells, 1, Lower(w.offset, Len(w.cells)))

\* readString: a VarInt length, then as many bytes if there are
ReadString(bytes, at) ==
  LET length == ReadVarInt(bytes, at)
  IN IF length.error # "none" THEN length
     ELSE IF length.at + length.value > Len(bytes) THEN [length EXCEPT !.error = "underflow"]
     ELSE [length EXCEPT !.at = @ + length.value,
                         !.value = SubSeq(bytes, length.at + 1, length.at + length.value)]

-----------------------------------------------------------------------------
(* A writer that is written to and reset, or input that arrives byte by byte. *)

IoInit ==
  /\ \E size \in WriterSizes : writer = Fresh(size)
  /\ written = <<>>
  /\ input = <<>>

Write(value, w) ==
  /\ Len(written) < MaxWrites
  /\ input = <<>>
  /\ writer' = w
  /\ written' = Append(written, value)
  /\ UNCHANGED input

WriteNumber == \E n \in Numbers : Write(<<"varint", n>>, WriteVarInt(writer, n))
WriteText == \E chars \in Strings : Write(<<"string", FlattenSeq(chars)>>, WriteString(writer, chars))
WriteBytes == \E bytes \in Chunks : Write(<<"bytes", bytes>>, WriteChunk(writer, bytes))

\* reset(maxRetainedCapacity): a buffer larger than that is given up
Reset ==
  /\ written # <<>>
  /\ written' = <<>>
  /\ \E size \in WriterSizes : writer' = IF Len(writer.cells) > size THEN Fresh(DefaultWriter)
                                         ELSE [writer EXCEPT !.offset = 0]
  /\ UNCHANGED input

Receive ==
  /\ written = <<>>
  /\ writer.offset = 0
  /\ Len(input) < MaxInput
  /\ \E byte \in InputBytes : input' = Append(input, byte)
  /\ UNCHANGED <<writer, written>>

IoNext == WriteNumber \/ WriteText \/ WriteBytes \/ Reset \/ Receive

-----------------------------------------------------------------------------
(* What is written can be read back. *)

LOCAL ReadBack(value, bytes, at) ==
  CASE value[1] = "varint" -> ReadVarInt(bytes, at)
    [] value[1] = "string" -> ReadString(bytes, at)
    [] value[1] = "bytes" ->
         [Reading(bytes, at) EXCEPT !.at = at + Len(value[2]),
            !.value = SubSeq(bytes, at + 1, at + Len(value[2]))]

\* However small the buffer began and however often it grew, and with strings
\* that are moved behind a longer length or written twice, the writer's bytes
\* read back as the values written, in order, with nothing behind them
\* (BufferWriter.ensure, writeVarint, writeString, finish; readVarint, readString).
WriterReads ==
  LET bytes == Finished(writer)
      step(at, value) ==
        LET r == ReadBack(value, bytes, at)
        IN IF at >= 0 /\ r.error = "none" /\ r.value = value[2] THEN r.at ELSE -1
  IN FoldLeft(step, 0, written) = Len(bytes)

LOCAL Value(bytes) ==
  LET add(sum, i) == sum + Payload(bytes[i]) * Group ^ (i - 1)
  IN FoldLeftDomain(add, 0, bytes)

\* readVarInt either returns the number the bytes denote or refuses: no bit is
\* lost, the sign bit of a 32-bit word never shows, a number that fits and is
\* written as short as it can be is never refused, and a prefix of a VarInt is
\* an underflow, which the block decoders answer by waiting for more.  The same
\* for readVarInt64 up to its limit of bytes.
VarIntExact ==
  LET ends == {i \in DOMAIN input : ~Continues(input[i])}
      n == CHOOSE i \in ends : \A j \in ends : i <= j
      number == Value(SubSeq(input, 1, n))
      word == ReadVarInt(input, 0)
      wide == ReadVarInt64(input, 0)
  IN input # <<>> =>
       IF ends = {}
       THEN /\ word.error # "none" /\ wide.error # "none"
            /\ Len(input) * GroupBits <= LastShift => word.error = "underflow"
            /\ Len(input) < WideGroups => wide.error = "underflow"
       ELSE /\ word.error = "none" => word.value = number /\ word.at = n /\ number < 2 ^ WordBits
            /\ word.error # "none" => word.error = "overflow"
            /\ (number < 2 ^ WordBits /\ VarInt(number) = SubSeq(input, 1, n)) => word.error = "none"
            /\ IF n <= WideGroups THEN wide.error = "none" /\ wide.value = number /\ wide.at = n
               ELSE wide.error = "long"

\* What is read is what was written, and what the bytes denote, or it is refused
\* (BufferWriter and BufferReader of io.ts).
IoExact == WriterReads /\ VarIntExact
=============================================================================
