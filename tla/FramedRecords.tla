--------------------------- MODULE FramedRecords ---------------------------
(***************************************************************************)
(* src/framing.ts: parseRecords() cuts a framed response into records at a *)
(* delimiter, wherever its chunks begin and end, and parses each into a    *)
(* packet; queryImpl makes of it what the application sees.  Bytes are     *)
(* pairs as in HttpBody.  The first byte of a record tells the kind of its *)
(* packet: output ("d"), progress ("p"), a counter that counts up ("i") or *)
(* is set ("g"), a log entry ("l"), an exception ("e"), or a kind not      *)
(* known ("u"), and its number the packet's value.                         *)
(***************************************************************************)
EXTENDS Naturals, Sequences

VARIABLES
  delimiter,   \* the kinds of the bytes that end a record
  parser,      \* where the generator is
  text, from,  \* pending, from
  record,      \* the record at hand
  packets,     \* the packets the application has been given
  progress,    \* what the progress packets have made of the summary
  counter      \* profileEvents: the value of one counter

\* parsers: what ends a record in each format
Delimiter ==
  [EventStream |-> <<"n", "n">>, JSONEachPacketBase64 |-> <<"n">>, JSONEachPacketString |-> <<"n">>]

framedVars == <<delimiter, parser, text, from, record, packets, progress, counter>>

FramedInit ==
  /\ parser = "waiting" /\ text = <<>> /\ from = 0 /\ record = <<>>
  /\ packets = <<>> /\ progress = 0 /\ counter = 0

Known == {"d", "p", "i", "g", "l", "e"}

\* pending.indexOf(delimiter, from): places are counted from 0
StandsAt(bytes, mark, k) ==
  /\ k + Len(mark) <= Len(bytes)
  /\ \A j \in DOMAIN mark : bytes[k + j][1] = mark[j]
DelimiterAt(k) == StandsAt(text, delimiter, k)
Delimiters == {k \in from .. Len(text) : DelimiterAt(k)}

TakeText(chunk) ==
  /\ parser = "waiting" /\ parser' = "scanning"
  /\ text' = text \o chunk
  /\ UNCHANGED <<delimiter, from, record, packets, progress, counter>>

\* A record that is empty or of an unknown kind makes no packet.
MakesPacket(r) == r # <<>> /\ r[1][1] \in Known

\* Progress replaces the summary, counters are added up or replaced.
Progressed(was, r) == IF r[1][1] = "p" THEN r[1][2] ELSE was
Counted(was, r) == CASE r[1][1] = "i" -> was + r[1][2] [] r[1][1] = "g" -> r[1][2] [] OTHER -> was

\* What queryImpl does with a packet: an exception is thrown, everything else is
\* yielded.
Deliver(r) ==
  /\ packets' = IF r[1][1] = "e" THEN packets ELSE Append(packets, r)
  /\ progress' = Progressed(progress, r) /\ counter' = Counted(counter, r)
  /\ parser' = IF r[1][1] = "e" THEN "exception" ELSE "yield"

CutRecord ==
  /\ parser = "scanning" /\ Delimiters # {}
  /\ LET end == CHOOSE k \in Delimiters : \A j \in Delimiters : k <= j
     IN /\ record' = SubSeq(text, 1, end)
        /\ text' = SubSeq(text, end + Len(delimiter) + 1, Len(text))
  /\ from' = 0
  /\ IF MakesPacket(record') THEN Deliver(record')
     ELSE UNCHANGED <<parser, packets, progress, counter>>
  /\ UNCHANGED delimiter

\* Mutant: the next scan starts behind what has been scanned.
NoRecordSkipping ==
  /\ parser = "scanning" /\ Delimiters = {}
  /\ parser' = "waiting" /\ from' = Len(text)
  /\ UNCHANGED <<delimiter, text, record, packets, progress, counter>>

\* A delimiter may span the boundary to the next chunk.
NoRecord ==
  /\ parser = "scanning" /\ Delimiters = {}
  /\ parser' = "waiting"
  /\ from' = IF Len(text) + 1 > Len(delimiter) THEN Len(text) + 1 - Len(delimiter) ELSE 0
  /\ UNCHANGED <<delimiter, text, record, packets, progress, counter>>

\* Text left over at the end was cut off.
TextEnds ==
  /\ parser = "waiting"
  /\ parser' = IF text = <<>> THEN "done" ELSE "truncated"
  /\ UNCHANGED <<delimiter, text, from, record, packets, progress, counter>>

\* The consumer asks for the next packet.
NextPacket ==
  /\ parser = "yield" /\ parser' = "scanning"
  /\ UNCHANGED <<delimiter, text, from, record, packets, progress, counter>>
=============================================================================
