----------------------------- MODULE TextLines -----------------------------
(***************************************************************************)
(* The text consumers of src/client.ts: decodeText() makes characters of   *)
(* the chunks of a body, streamLines() lines of the characters, and        *)
(* streamDecodeJsonEachRow() parses each of them.  Bytes are pairs as in   *)
(* HttpBody: "n" is a newline, "w" the first byte of a character of two    *)
(* and "v" its second, "b" begins what is not JSON, and any other byte is  *)
(* a character of its own.  A character is the sequence of its bytes.      *)
(***************************************************************************)
EXTENDS Naturals, SequencesExt

VARIABLES
  reading,     \* where the generator is
  halfChar,    \* the bytes the TextDecoder keeps for the next chunk
  lineBuffer,  \* buffer: the characters of a line that has not ended
  parts,       \* the lines that have, still to be yielded
  lines        \* the lines the application has been given

lineVars == <<reading, halfChar, lineBuffer, parts, lines>>

LinesInit ==
  reading = "waiting" /\ halfChar = <<>> /\ lineBuffer = <<>> /\ parts = <<>> /\ lines = <<>>

\* TextDecoder: a byte that belongs to no character becomes U+FFFD.
Replaced == <<<<"replaced", 0>>>>
LOCAL NextByte(decoded, byte) ==
  LET text == IF decoded.half # <<>> /\ byte[1] # "v" THEN Append(decoded.text, Replaced) ELSE decoded.text
  IN CASE byte[1] = "w" -> [half |-> <<byte>>, text |-> text]
       [] byte[1] = "v" ->
            [half |-> <<>>,
             text |-> Append(text, IF decoded.half = <<>> THEN Replaced ELSE Append(decoded.half, byte))]
       [] OTHER -> [half |-> <<>>, text |-> Append(text, <<byte>>)]

\* Mutant: every chunk is decoded by itself.
DecodeTextAnew(half, chunk) == FoldLeft(NextByte, [half |-> <<>>, text |-> <<>>], chunk)

\* decode() with stream: true takes up the bytes of the chunk before.
DecodeText(half, chunk) == FoldLeft(NextByte, [half |-> half, text |-> <<>>], chunk)

\* buffer.split(delimiter): at least one part, the last without a delimiter
Split(text) ==
  FoldLeft(LAMBDA split, char : IF char[1][1] = "n" THEN Append(split, <<>>)
                                ELSE [split EXCEPT ![Len(split)] = Append(@, char)],
           <<<<>>>>, text)

\* Empty lines are passed over, and the last part waits for its end.
Buffer(split) ==
  lineBuffer' = Last(split) /\ parts' = SelectSeq(Front(split), LAMBDA part : part # <<>>)

TakeBytes(chunk) ==
  /\ reading = "waiting" /\ reading' = "splitting"
  /\ \E decoded \in {DecodeText(halfChar, chunk)} :
       halfChar' = decoded.half /\ Buffer(Split(lineBuffer \o decoded.text))
  /\ UNCHANGED lines

\* What JSON.parse takes; streamDecodeJsonEachRow throws at any other line.
IsJson(line) == line[1] # Replaced /\ line[1][1][1] # "b"
Yield(line, json, next) ==
  IF json /\ ~IsJson(line) THEN reading' = "error" /\ UNCHANGED lines
  ELSE reading' = next /\ lines' = Append(lines, line)

YieldLine(json) ==
  /\ reading = "splitting"
  /\ IF parts = <<>> THEN reading' = "waiting" /\ UNCHANGED <<parts, lines>>
     ELSE Yield(Head(parts), json, "yield") /\ parts' = Tail(parts)
  /\ UNCHANGED <<halfChar, lineBuffer>>

NextLine ==
  /\ reading \in {"yield", "lastYield"}
  /\ reading' = IF reading = "yield" THEN "splitting" ELSE "done"
  /\ UNCHANGED <<halfChar, lineBuffer, parts, lines>>

\* The end of the chunks: the decoder gives up what it keeps, and what is left is
\* a line even without a newline.
LastLine(json) ==
  /\ reading = "waiting" /\ halfChar' = <<>> /\ lineBuffer' = <<>>
  /\ LET text == lineBuffer \o (IF halfChar = <<>> THEN <<>> ELSE <<Replaced>>)
     IN IF text = <<>> THEN reading' = "done" /\ UNCHANGED lines
        ELSE Yield(text, json, "lastYield")
  /\ UNCHANGED parts
=============================================================================
