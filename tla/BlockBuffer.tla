---------------------------- MODULE BlockBuffer ----------------------------
(***************************************************************************)
(* The BlockBuffer of src/native/io.ts: a growable buffer out of which     *)
(* blocks are cut, as a record.  The two ways to consume differ in what    *)
(* becomes of the bytes that have been handed out: startNextBlock leaves   *)
(* them alone, consume may write over them.  generation counts the memory  *)
(* blocks allocated, so that bytes of the same generation are the same     *)
(* bytes.                                                                  *)
(***************************************************************************)
EXTENDS Naturals, Sequences

Larger(m, n) == IF m >= n THEN m ELSE n
Blank(n) == [i \in 1 .. n |-> <<"-", 0>>]

\* A new buffer of n bytes.
Fresh(n) == [cells |-> Blank(n), from |-> 0, to |-> 0, size |-> n, generation |-> 0]

Available(b) == b.to - b.from
View(b) == SubSeq(b.cells, b.from + 1, b.to)

\* bytes at the start of a fresh memory block of a given capacity
Moved(b, bytes, capacity) ==
  [b EXCEPT !.cells = bytes \o Blank(capacity - Len(bytes)),
            !.from = 0, !.to = Len(bytes), !.generation = @ + 1]

\* ensureCapacity() and the copy of append()
Appended(b, chunk) ==
  IF b.to + Len(chunk) > Len(b.cells)
  THEN Moved(b, View(b) \o chunk, Larger(2 * Len(b.cells), b.to + Len(chunk)))
  ELSE [b EXCEPT !.cells = [i \in DOMAIN @ |->
                              IF i \in b.to + 1 .. b.to + Len(chunk) THEN chunk[i - b.to] ELSE @[i]],
                 !.to = @ + Len(chunk)]

\* In place: past half of the buffer the rest moves to its front.
Consumed(b, n) ==
  LET rest == SubSeq(b.cells, b.from + n + 1, b.to)
  IN IF 2 * (b.from + n) > Len(b.cells)
     THEN [b EXCEPT !.cells = [i \in DOMAIN @ |-> IF i <= Len(rest) THEN rest[i] ELSE @[i]],
                    !.from = 0, !.to = Len(rest)]
     ELSE [b EXCEPT !.from = @ + n]

\* Mutant: the rest moves to the front of the same memory.
NextBlockInPlace(b, n) ==
  LET rest == SubSeq(b.cells, b.from + n + 1, b.to)
  IN [b EXCEPT !.cells = [i \in DOMAIN @ |-> IF i <= Len(rest) THEN rest[i] ELSE @[i]],
               !.from = 0, !.to = Len(rest)]

\* Stable: the rest moves to fresh memory.
NextBlock(b, n) ==
  LET rest == SubSeq(b.cells, b.from + n + 1, b.to)
  IN Moved(b, rest, Larger(b.size, Len(rest)))
=============================================================================
