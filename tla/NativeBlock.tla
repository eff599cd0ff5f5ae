---------------------------- MODULE NativeBlock ----------------------------
(***************************************************************************)
(* decodeNativeBlockWithReader of src/native/index.ts: one attempt to      *)
(* decode a Native block from the bytes at hand, which may be resumed      *)
(* where an earlier attempt ran out of them.                               *)
(*                                                                         *)
(* A byte is its position in the stream it comes from.  cuts is the layout *)
(* of a block: cuts[1] is the length of its header, and cuts[k + 1] is     *)
(* where its k-th column ends.  What a column's bytes mean is the business *)
(* of its codec; here a column is decoded when its bytes are there, and is *)
(* the sequence of those bytes.                                            *)
(***************************************************************************)
EXTENDS Naturals, Sequences

IsCuts(cuts) ==
  /\ cuts \in Seq(Nat \ {0}) /\ cuts # <<>>
  /\ \A i, j \in DOMAIN cuts : i < j => cuts[i] < cuts[j]

\* PartialBlockState, and what there is of it before the header is parsed:
\* header is FALSE, and a retry starts from the beginning.
NoPartial == [header |-> FALSE, columns |-> <<>>, resumeOffset |-> 0]
HeaderOnly(cuts) == [header |-> TRUE, columns |-> <<>>, resumeOffset |-> cuts[1]]

\* Where the next n columns end, from the state p.
ColumnEnd(cuts, p, n) ==
  p.resumeOffset + (cuts[Len(p.columns) + 1 + n] - cuts[Len(p.columns) + 1])

\* The columns still to come that the bytes hold.
Complete(bytes, cuts, p) ==
  {n \in 1 .. Len(cuts) - 1 - Len(p.columns) : ColumnEnd(cuts, p, n) <= Len(bytes)}

Column(bytes, cuts, p, n) ==
  SubSeq(bytes, ColumnEnd(cuts, p, n - 1) + 1, ColumnEnd(cuts, p, n))

\* Mutant: the checkpoint is where the data ran out, not the column's start.
\* The state after the columns at hand: what a BlockUnderflowError carries when
\* some column is missing, and the finished block otherwise.
AdvanceUncut(bytes, cuts, p) ==
  LET got == Complete(bytes, cuts, p)
      n == IF got = {} THEN 0 ELSE CHOOSE m \in got : \A k \in got : k <= m
  IN [header |-> TRUE,
      columns |-> p.columns \o [k \in 1 .. n |-> Column(bytes, cuts, p, k)],
      resumeOffset |-> Len(bytes)]

Advance(bytes, cuts, p) ==
  LET got == Complete(bytes, cuts, p)
      n == IF got = {} THEN 0 ELSE CHOOSE m \in got : \A k \in got : k <= m
  IN [header |-> TRUE,
      columns |-> p.columns \o [k \in 1 .. n |-> Column(bytes, cuts, p, k)],
      resumeOffset |-> ColumnEnd(cuts, p, n)]

Attempt(bytes, cuts, p) ==
  IF p.header THEN Advance(bytes, cuts, p)
  ELSE IF cuts[1] <= Len(bytes) THEN Advance(bytes, cuts, HeaderOnly(cuts))
  ELSE NoPartial

IsWhole(cuts, p) == p.header /\ Len(p.columns) = Len(cuts) - 1
=============================================================================
