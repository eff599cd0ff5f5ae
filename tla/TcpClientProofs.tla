-------------------------- MODULE TcpClientProofs --------------------------
(***************************************************************************)
(* Theorems about TcpClient for every set of operations and sockets: the   *)
(* type invariant, that busy is exactly ownership of the connection        *)
(* (OneOwner), and that no socket outlives its use (NoLeakedSocket).       *)
(*                                                                         *)
(* A continuation of an operation does one of four things to what the      *)
(* operations share (Stays, Leaves, Drops, Releases).  The lemmas of the   *)
(* first part show that every helper the handlers end in is one of them;   *)
(* the second part that each of them, and each action that is not one,     *)
(* preserves the inductive invariant Inv.                                  *)
(***************************************************************************)
EXTENDS TcpClient, TLAPS

\* The operation waits on, at another point.
StayPoints == (Writing \cup Reading \cup Suspended) \ {"ping", "pong"}
Stays(o) ==
  /\ UNCHANGED <<client, net>>
  /\ \E p \in StayPoints : pc' = [pc EXCEPT ![o] = p]
  /\ via' = [via EXCEPT ![o] = socket]

\* It ends, and frees the client if the connection still is its own.
Leaves(o) ==
  /\ UNCHANGED <<socket, net>>
  /\ busy' = IF socket = own[o] THEN FALSE ELSE busy
  /\ pc' = [pc EXCEPT ![o] = "done"]
  /\ via' = [via EXCEPT ![o] = None]

\* It ends, and closes the connection, which is its own.
Drops(o) ==
  /\ socket = own[o]
  /\ Teardown
  /\ pc' = [pc EXCEPT ![o] = "done"]
  /\ via' = [via EXCEPT ![o] = None]

\* What a continuation of query or insert writes besides.
LocalsTyped ==
  /\ toServer' \in [Sockets -> Seq(ClientPackets)]
  /\ cancelled' \in [Ops -> BOOLEAN]
  /\ clock' \in [Ops -> {"off", "query", "grace", "spent"}]
  /\ ended' \in [Ops -> {"no", "eos", "exception"}]
  /\ delimited' \in [Ops -> BOOLEAN]

Moves(o) == (Stays(o) \/ Leaves(o) \/ Drops(o)) /\ LocalsTyped

-----------------------------------------------------------------------------
\* The inductive invariant.

\* An operation under way started on a socket that has been connected.
Rooted == \A o \in Ops : Active(o) => net[own[o]] # "unused"

\* The client's socket is one that has been connected and has not yet closed.
SocketLive == socket # None => net[socket] \in {"open", "ended", "destroyed"}

\* A ping is only ever at its two awaits, no other operation is, and what it
\* waits for is its own connection, which no other has replaced.
PingsApart ==
  \A o \in Ops :
    /\ Kind[o] = "ping" => pc[o] \in {"idle", "ping", "pong", "done"}
    /\ Kind[o] # "ping" => pc[o] \notin {"ping", "pong"}
    /\ Kind[o] = "ping" /\ Active(o) => via[o] = own[o] /\ socket \in {own[o], None}

\* The server is at work on a statement whenever it is not idle.
ServerBusyWith == \A c \in Sockets : server[c].phase # "idle" => server[c].op \in Ops

Ownership == Rooted /\ SocketLive /\ NoLeakedSocket /\ OneOwner /\ PingsApart
Inv == TypeOK /\ ServerBusyWith /\ Ownership
-----------------------------------------------------------------------------
\* What the four kinds of step preserve.

\* Waiting on at another point disturbs no ownership.
LEMMA StaysSafe ==
  ASSUME Inv, NEW o \in Ops, Kind[o] # "ping", Active(o), Stays(o), own' = own
  PROVE  Ownership'
<1> USE DEF Inv, Ownership, Stays, client
<1>1. PICK p \in StayPoints : pc' = [pc EXCEPT ![o] = p]
  OBVIOUS
<1>2. /\ p \notin {"idle", "done", "ping", "pong"}
      /\ \A q \in Ops : pc'[q] = IF q = o THEN p ELSE pc[q]
      /\ \A q \in Ops : via'[q] = IF q = o THEN socket ELSE via[q]
  BY <1>1 DEF StayPoints, Writing, Reading, Suspended, TypeOK
<1>3. \A q \in Ops : Active(q)' <=> Active(q)
  BY <1>2 DEF Active
<1>4. Rooted' /\ SocketLive' /\ NoLeakedSocket'
  BY <1>3 DEF Rooted, SocketLive, NoLeakedSocket, Readable
<1>5. OneOwner'
  BY <1>3 DEF OneOwner, Current
<1>6. PingsApart'
  BY <1>2, <1>3 DEF PingsApart
<1> QED BY <1>4, <1>5, <1>6

\* Ending frees the client exactly when the connection is the operation's own.
LEMMA LeavesSafe ==
  ASSUME Inv, NEW o \in Ops, Kind[o] # "ping", Active(o), Leaves(o), own' = own
  PROVE  Ownership'
<1> USE DEF Inv, Ownership, Leaves
<1>1. /\ \A q \in Ops : pc'[q] = IF q = o THEN "done" ELSE pc[q]
      /\ \A q \in Ops \ {o} : via'[q] = via[q]
  BY DEF TypeOK
<1>2. \A q \in Ops : Active(q)' <=> (Active(q) /\ q # o)
  BY <1>1 DEF Active
<1>3. Rooted' /\ SocketLive' /\ NoLeakedSocket'
  BY <1>2 DEF Rooted, SocketLive, NoLeakedSocket, Readable
<1>4. OneOwner'
  BY <1>2 DEF OneOwner, Current
<1>5. PingsApart'
  BY <1>1, <1>2 DEF PingsApart
<1> QED BY <1>3, <1>4, <1>5

\* teardown() leaves no owner and no live socket.
LEMMA TeardownSafe ==
  ASSUME Inv, Teardown, own' = own,
         \A q \in Ops : Active(q)' => Active(q)
  PROVE  Rooted' /\ SocketLive' /\ NoLeakedSocket' /\ OneOwner'
<1> USE DEF Inv, Ownership, Teardown
<1>1. \A c \in Sockets : net'[c] = IF c = socket /\ Readable(c) THEN "destroyed" ELSE net[c]
  OBVIOUS
<1>2. Rooted'
  BY <1>1 DEF Rooted, TypeOK
<1>3. NoLeakedSocket'
  BY <1>1 DEF NoLeakedSocket, Readable
<1>4. OneOwner'
  BY OpsAssumption DEF OneOwner, Current, TypeOK
<1> QED BY <1>2, <1>3, <1>4 DEF SocketLive

LEMMA DropsSafe ==
  ASSUME Inv, NEW o \in Ops, Kind[o] # "ping", Active(o), Drops(o), own' = own
  PROVE  Ownership'
<1>1. /\ \A q \in Ops : pc'[q] = IF q = o THEN "done" ELSE pc[q]
      /\ \A q \in Ops \ {o} : via'[q] = via[q]
  BY DEF Drops, Inv, TypeOK
<1>2. \A q \in Ops : Active(q)' <=> (Active(q) /\ q # o)
  BY <1>1 DEF Active
<1>3. Rooted' /\ SocketLive' /\ NoLeakedSocket' /\ OneOwner'
  BY <1>2, TeardownSafe DEF Drops
<1>4. PingsApart'
  BY <1>1, <1>2 DEF PingsApart, Inv, Ownership, Drops, Teardown
<1> QED BY <1>3, <1>4 DEF Ownership

LEMMA MovesSafe ==
  ASSUME Inv, NEW o \in Ops, Kind[o] # "ping", Active(o), Moves(o), own' = own
  PROVE  Ownership'
BY StaysSafe, LeavesSafe, DropsSafe DEF Moves

\* A continuation that moves leaves every variable with its type.
LEMMA MovesTyped ==
  ASSUME TypeOK, NEW o \in Ops, Active(o), Moves(o), UNCHANGED <<own, aborted>>,
         full' \in [Sockets -> BOOLEAN],
         toClient' \in [Sockets -> Seq(ServerPackets)],
         server' \in [Sockets -> [phase : Phases, op : Ops \cup {None}, chat : Nat]],
         sent' \in [Ops -> Nat]
  PROVE  TypeOK'
<1>1. socket' \in Sockets \cup {None} /\ busy' \in BOOLEAN
  BY DEF TypeOK, Moves, Stays, Leaves, Drops, Teardown, client
<1>2. net' \in [Sockets -> {"unused", "open", "ended", "destroyed", "closed"}]
  <2>1. CASE net' = net
    BY <2>1 DEF TypeOK
  <2>2. CASE Teardown
    BY <2>2 DEF TypeOK, Teardown
  <2> QED BY <2>1, <2>2 DEF Moves, Stays, Leaves, Drops
<1>3. via' \in [Ops -> Sockets \cup {None}]
  BY DEF TypeOK, Moves, Stays, Leaves, Drops
<1>4. \E p \in PCs \ {"idle"} : pc' = [pc EXCEPT ![o] = p]
  BY DEF Moves, Stays, Leaves, Drops, PCs, StayPoints, Writing, Reading, Suspended
<1>5. pc' \in [Ops -> PCs]
  BY <1>4 DEF TypeOK
<1>6. \A q \in Ops : Active(q)' => own'[q] \in Sockets
  BY <1>4 DEF TypeOK, Active
<1>7. LocalsTyped
  BY DEF Moves
<1> QED BY <1>1, <1>2, <1>3, <1>5, <1>6, <1>7 DEF TypeOK, LocalsTyped
-----------------------------------------------------------------------------
\* The helpers the handlers end in.

CoreMoves(o) == Stays(o) \/ Leaves(o) \/ Drops(o)

LEMMA WriteTyped ==
  ASSUME TypeOK, NEW c, NEW o \in Ops,
         NEW type \in {"Query", "Data", "Delimiter", "Cancel", "Ping"},
         Write(c, Msg(type, o))
  PROVE  toServer' \in [Sockets -> Seq(ClientPackets)]
<1>1. Msg(type, o) \in ClientPackets
  BY DEF Msg, ClientPackets, Packet
<1>2. \A x \in Sockets : Append(toServer[x], Msg(type, o)) \in Seq(ClientPackets)
  BY <1>1 DEF TypeOK
<1> QED BY <1>2 DEF Write, TypeOK

LEMMA TimerTyped ==
  ASSUME TypeOK, NEW o \in Ops, KeepTimer(o)
  PROVE  clock' \in [Ops -> {"off", "query", "grace", "spent"}]
BY DEF TypeOK, KeepTimer, Timer

\* A finished operation has left.
LEMMA FinishMoves ==
  ASSUME TypeOK, NEW o \in Ops, Finish(o)
  PROVE  Leaves(o) /\ clock' \in [Ops -> {"off", "query", "grace", "spent"}]
BY DEF TypeOK, Finish, Done, Leaves

LEMMA DrainFailedMoves ==
  ASSUME TypeOK, NEW o \in Ops, DrainFailed(o)
  PROVE  CoreMoves(o) /\ clock' \in [Ops -> {"off", "query", "grace", "spent"}]
<1>1. CASE socket = own[o]
  BY <1>1 DEF TypeOK, DrainFailed, Done, Drops, CoreMoves
<1>2. CASE socket # own[o]
  BY <1>2, FinishMoves DEF DrainFailed, CoreMoves
<1> QED BY <1>1, <1>2

LEMMA DrainMoves ==
  ASSUME TypeOK, NEW o \in Ops, Drain(o)
  PROVE  CoreMoves(o) /\ clock' \in [Ops -> {"off", "query", "grace", "spent"}]
<1>1. CASE ReaderTaken(o)
  BY <1>1, DrainFailedMoves DEF Drain
<1>2. CASE ~ReaderTaken(o)
  <2>1. Stays(o)
    BY <1>2 DEF Drain, Stays, StayPoints, Writing, Reading, Suspended
  <2> QED BY <1>2, <2>1, TimerTyped DEF Drain, CoreMoves
<1> QED BY <1>1, <1>2

LEMMA AbandonMoves ==
  ASSUME TypeOK, NEW o \in Ops, AbandonStream(o)
  PROVE  /\ CoreMoves(o)
         /\ clock' \in [Ops -> {"off", "query", "grace", "spent"}]
         /\ toServer' \in [Sockets -> Seq(ClientPackets)]
         /\ cancelled' \in [Ops -> BOOLEAN]
<1>1. CASE cancelled[o]
  BY <1>1, DrainMoves DEF AbandonStream, TypeOK
<1>2. CASE ~cancelled[o]
  <2>1. Stays(o)
    BY <1>2 DEF AbandonStream, Stays, StayPoints, Writing, Reading, Suspended
  <2>2. toServer' \in [Sockets -> Seq(ClientPackets)]
    BY <1>2, WriteTyped DEF AbandonStream
  <2> QED BY <1>2, <2>1, <2>2, TimerTyped DEF AbandonStream, TypeOK, CoreMoves
<1> QED BY <1>1, <1>2

\* The finally block abandons, closes, or leaves.
LEMMA FinallyMoves ==
  ASSUME TypeOK, NEW o \in Ops, NEW e \in {"no", "eos", "exception"}, NEW d \in BOOLEAN,
         Finally(o, e, d)
  PROVE  Moves(o)
<1>1. /\ ended' \in [Ops -> {"no", "eos", "exception"}]
      /\ delimited' \in [Ops -> BOOLEAN]
  BY DEF Finally, TypeOK
<1>2. CASE AbandonStream(o)
  BY <1>1, <1>2, AbandonMoves DEF Moves, LocalsTyped, CoreMoves
<1>3. CASE socket = own[o] /\ Teardown /\ Done(o) /\ UNCHANGED <<toServer, cancelled>>
  <2>1. Drops(o)
    BY <1>3 DEF Drops, Done
  <2> QED BY <1>1, <1>3, <2>1 DEF Moves, LocalsTyped, Done, TypeOK
<1>4. CASE Finish(o) /\ UNCHANGED <<toServer, cancelled>>
  BY <1>1, <1>4, FinishMoves DEF Moves, LocalsTyped, TypeOK
<1> QED BY <1>2, <1>3, <1>4 DEF Finally

LEMMA ThrowMoves ==
  ASSUME TypeOK, NEW o \in Ops, Throw(o)
  PROVE  Moves(o)
BY FinallyMoves DEF Throw, TypeOK

LEMMA SuspendMoves ==
  ASSUME TypeOK, NEW o \in Ops, NEW p \in StayPoints, Suspend(o, p), LocalsTyped
  PROVE  Moves(o)
BY DEF Suspend, Stays, Moves

\* Unchanged locals keep their types.
LEMMA SameLocals ==
  ASSUME TypeOK, UNCHANGED <<toServer, fate>>
  PROVE  LocalsTyped
BY DEF TypeOK, LocalsTyped, fate

LEMMA ReadMoves ==
  ASSUME TypeOK, NEW o \in Ops, NEW p \in StayPoints, Read(o, p)
  PROVE  Moves(o)
BY ThrowMoves, SuspendMoves, SameLocals DEF Read

LEMMA SendMoves ==
  ASSUME TypeOK, NEW o \in Ops, NEW p \in StayPoints,
         NEW type \in {"Query", "Data", "Delimiter", "Cancel", "Ping"}, Send(o, type, p)
  PROVE  Moves(o)
<1>1. CASE socket = None
  BY <1>1, ThrowMoves DEF Send
<1>2. CASE socket # None
  <2>1. LocalsTyped
    BY <1>2, WriteTyped DEF Send, LocalsTyped, fate, TypeOK
  <2> QED BY <1>2, <2>1, SuspendMoves DEF Send
<1> QED BY <1>1, <1>2
-----------------------------------------------------------------------------
\* The continuations of query and insert.

LEMMA AtPoint ==
  ASSUME Inv, NEW o \in Ops, pc[o] \in StayPoints
  PROVE  Active(o) /\ Kind[o] # "ping"
BY DEF Inv, Ownership, PingsApart, Active, StayPoints, Writing, Reading, Suspended

\* A step of query or insert.
OpStep(o) ==
  /\ pc[o] \in StayPoints
  /\ Moves(o)
  /\ UNCHANGED <<full, server, own, aborted>>
  /\ toClient' \in [Sockets -> Seq(ServerPackets)]
  /\ sent' \in [Ops -> Nat]

LEMMA OpStepSafe ==
  ASSUME Inv, NEW o \in Ops, OpStep(o)
  PROVE  Inv'
<1>1. Active(o) /\ Kind[o] # "ping"
  BY AtPoint DEF OpStep
<1>2. Ownership'
  BY <1>1, MovesSafe DEF OpStep
<1>3. TypeOK'
  <2>1. full' \in [Sockets -> BOOLEAN]
    BY DEF Inv, TypeOK, OpStep
  <2>2. server' \in [Sockets -> [phase : Phases, op : Ops \cup {None}, chat : Nat]]
    BY DEF Inv, TypeOK, OpStep
  <2> QED BY <1>1, <2>1, <2>2, MovesTyped DEF Inv, OpStep
<1>4. ServerBusyWith'
  BY DEF Inv, ServerBusyWith, OpStep
<1> QED BY <1>2, <1>3, <1>4 DEF Inv

LEMMA RestSteps ==
  ASSUME Inv, NEW o \in Ops, pc[o] \in StayPoints, Moves(o), UNCHANGED Rest
  PROVE  OpStep(o)
BY DEF OpStep, Rest, locals, Inv, TypeOK

\* A packet is taken off the head of what has arrived.
LEMMA ReadsSteps ==
  ASSUME Inv, NEW o \in Ops, NEW p \in StayPoints, Reads(o, p), Moves(o)
  PROVE  OpStep(o)
<1>1. toClient' \in [Sockets -> Seq(ServerPackets)]
  <2>1. \A c \in Sockets : toClient[c] # <<>> => Tail(toClient[c]) \in Seq(ServerPackets)
    BY DEF Inv, TypeOK
  <2> QED BY <2>1 DEF Reads, HasPacket, Take, Inv, TypeOK
<1> QED BY <1>1 DEF OpStep, Reads, locals, Inv, TypeOK

LEMMA QuerySentSteps == ASSUME Inv, NEW o \in Ops, QuerySent(o) PROVE OpStep(o)
<1>1. "query" \in StayPoints /\ "source" \in StayPoints /\ "delimiter" \in StayPoints
  BY DEF StayPoints, Writing, Reading, Suspended
<1>2. Moves(o)
  BY <1>1, ThrowMoves, SuspendMoves, SameLocals, SendMoves DEF QuerySent, Inv
<1> QED BY <1>1, <1>2, RestSteps DEF QuerySent, Written

LEMMA InsertSentSteps == ASSUME Inv, NEW o \in Ops, InsertSent(o) PROVE OpStep(o)
<1>1. "query" \in StayPoints /\ "begin" \in StayPoints
  BY DEF StayPoints, Writing, Reading, Suspended
<1>2. Moves(o)
  BY <1>1, SendMoves DEF InsertSent, Inv
<1> QED BY <1>1, <1>2, RestSteps DEF InsertSent, Written

LEMMA InsertBegunSteps == ASSUME Inv, NEW o \in Ops, InsertBegun(o) PROVE OpStep(o)
<1>1. "begin" \in StayPoints /\ "schema" \in StayPoints
  BY DEF StayPoints, Writing, Reading, Suspended
<1>2. Moves(o)
  BY <1>1, ThrowMoves, ReadMoves DEF InsertBegun, Inv
<1> QED BY <1>1, <1>2, RestSteps DEF InsertBegun, Written

LEMMA BatchReadySteps == ASSUME Inv, NEW o \in Ops, BatchReady(o) PROVE OpStep(o)
<1>1. "source" \in StayPoints /\ "batch" \in StayPoints
  BY DEF StayPoints, Writing, Reading, Suspended
<1>2. Moves(o)
  BY <1>1, ThrowMoves, SendMoves DEF BatchReady, Inv
<1>3. sent' \in [Ops -> Nat]
  BY DEF BatchReady, Inv, TypeOK
<1> QED BY <1>1, <1>2, <1>3 DEF OpStep, BatchReady, Pulled, Inv, TypeOK

LEMMA BatchSentSteps == ASSUME Inv, NEW o \in Ops, BatchSent(o) PROVE OpStep(o)
<1>1. "source" \in StayPoints /\ "batch" \in StayPoints
  BY DEF StayPoints, Writing, Reading, Suspended
<1>2. Moves(o)
  BY <1>1, ThrowMoves, SuspendMoves, SameLocals DEF BatchSent, Inv
<1> QED BY <1>1, <1>2, RestSteps DEF BatchSent, Written

LEMMA SourceDoneSteps == ASSUME Inv, NEW o \in Ops, SourceDone(o) PROVE OpStep(o)
<1>1. "source" \in StayPoints /\ "delimiter" \in StayPoints
  BY DEF StayPoints, Writing, Reading, Suspended
<1>2. Moves(o)
  BY <1>1, ThrowMoves, SendMoves DEF SourceDone, Inv
<1> QED BY <1>1, <1>2, RestSteps DEF SourceDone, Pulled

LEMMA SourceFailsSteps == ASSUME Inv, NEW o \in Ops, SourceFails(o) PROVE OpStep(o)
<1>1. "source" \in StayPoints
  BY DEF StayPoints, Writing, Reading, Suspended
<1> QED BY <1>1, ThrowMoves, RestSteps DEF SourceFails, Pulled, Inv

LEMMA DelimiterSentSteps == ASSUME Inv, NEW o \in Ops, DelimiterSent(o) PROVE OpStep(o)
<1>1. "delimiter" \in StayPoints /\ "reading" \in StayPoints
  BY DEF StayPoints, Writing, Reading, Suspended
<1> DEFINE d == Kind[o] = "insert"
<1>2. Moves(o)
  <2>1. CASE ~aborted[o] /\ CanRead(o)
    <3>1. Suspend(o, "reading") /\ LocalsTyped
      BY <2>1, TimerTyped DEF DelimiterSent, LocalsTyped, Inv, TypeOK
    <3> QED BY <1>1, <3>1, SuspendMoves DEF Inv
  <2>2. CASE ~(~aborted[o] /\ CanRead(o))
    <3>1. Finally(o, ended[o], d)
      BY <2>2 DEF DelimiterSent
    <3>2. d \in BOOLEAN /\ ended[o] \in {"no", "eos", "exception"}
      BY DEF Inv, TypeOK
    <3> HIDE DEF d
    <3> QED BY <3>1, <3>2, FinallyMoves DEF Inv
  <2> QED BY <2>1, <2>2
<1> QED BY <1>1, <1>2, RestSteps DEF DelimiterSent, Written

LEMMA EndOfStreamSteps == ASSUME Inv, NEW o \in Ops, EndOfStream(o) PROVE OpStep(o)
<1>1. "reading" \in StayPoints /\ "eos" \in StayPoints
  BY DEF StayPoints, Writing, Reading, Suspended
<1>2. LocalsTyped
  BY DEF EndOfStream, LocalsTyped, Inv, TypeOK
<1>3. Moves(o)
  BY <1>1, <1>2, SuspendMoves DEF EndOfStream, Inv
<1> QED BY <1>1, <1>3, ReadsSteps DEF EndOfStream

LEMMA ServerExceptionSteps == ASSUME Inv, NEW o \in Ops, ServerException(o) PROVE OpStep(o)
<1>1. "reading" \in StayPoints
  BY DEF StayPoints, Writing, Reading, Suspended
<1>2. Moves(o)
  BY FinallyMoves DEF ServerException, Inv, TypeOK
<1> QED BY <1>1, <1>2, ReadsSteps DEF ServerException

LEMMA ReadPacketSteps == ASSUME Inv, NEW o \in Ops, ReadPacket(o) PROVE OpStep(o)
<1>1. "reading" \in StayPoints /\ "yielded" \in StayPoints
  BY DEF StayPoints, Writing, Reading, Suspended
<1>2. Moves(o)
  BY <1>1, ThrowMoves, SuspendMoves, SameLocals, ReadMoves DEF ReadPacket, Inv
<1> QED BY <1>1, <1>2, ReadsSteps DEF ReadPacket

LEMMA SchemaPacketSteps == ASSUME Inv, NEW o \in Ops, SchemaPacket(o) PROVE OpStep(o)
<1>1. "schema" \in StayPoints /\ "source" \in StayPoints
  BY DEF StayPoints, Writing, Reading, Suspended
<1>2. \/ Throw(o)
      \/ Suspend(o, "source") /\ UNCHANGED <<toServer, fate>>
      \/ Read(o, "schema")
  BY DEF SchemaPacket
<1>3. Moves(o)
  BY <1>1, <1>2, ThrowMoves, SuspendMoves, SameLocals, ReadMoves DEF Inv
<1> QED BY <1>1, <1>3, ReadsSteps DEF SchemaPacket

LEMMA DrainPacketSteps == ASSUME Inv, NEW o \in Ops, DrainPacket(o) PROVE OpStep(o)
<1>1. "draining" \in StayPoints
  BY DEF StayPoints, Writing, Reading, Suspended
<1>2. CoreMoves(o) /\ clock' \in [Ops -> {"off", "query", "grace", "spent"}]
  BY <1>1, FinishMoves DEF DrainPacket, CoreMoves, Suspend, Stays, Inv, TypeOK
<1>3. Moves(o)
  BY <1>2 DEF DrainPacket, Moves, CoreMoves, LocalsTyped, Inv, TypeOK
<1> QED BY <1>1, <1>3, ReadsSteps DEF DrainPacket

LEMMA CancelSentSteps == ASSUME Inv, NEW o \in Ops, CancelSent(o) PROVE OpStep(o)
<1>1. "cancel" \in StayPoints
  BY DEF StayPoints, Writing, Reading, Suspended
<1>2. CoreMoves(o) /\ clock' \in [Ops -> {"off", "query", "grace", "spent"}]
  BY FinishMoves, DrainMoves DEF CancelSent, CoreMoves, Inv
<1>3. Moves(o)
  BY <1>2 DEF CancelSent, Moves, CoreMoves, LocalsTyped, Inv, TypeOK
<1> QED BY <1>1, <1>3, RestSteps DEF CancelSent, Written

LEMMA DecodeFailsSteps == ASSUME Inv, NEW o \in Ops, DecodeFails(o) PROVE OpStep(o)
<1>1. {"reading", "schema", "draining"} \subseteq StayPoints
  BY DEF StayPoints, Writing, Reading, Suspended
<1>2. CASE pc[o] = "draining"
  <2>1. CoreMoves(o) /\ clock' \in [Ops -> {"off", "query", "grace", "spent"}]
    BY <1>2, DrainFailedMoves DEF DecodeFails, Inv
  <2>2. Moves(o)
    BY <1>2, <2>1 DEF DecodeFails, Moves, CoreMoves, LocalsTyped, Inv, TypeOK
  <2> QED BY <1>1, <2>2, ReadsSteps DEF DecodeFails
<1>3. CASE pc[o] # "draining"
  BY <1>1, <1>3, ThrowMoves, ReadsSteps DEF DecodeFails, Inv
<1> QED BY <1>2, <1>3

LEMMA ConsumerSteps == ASSUME Inv, NEW o \in Ops, Consumer(o) PROVE OpStep(o)
<1>1. {"yielded", "eos", "reading"} \subseteq StayPoints
  BY DEF StayPoints, Writing, Reading, Suspended
<1>2. CASE Resume(o)
  BY <1>1, <1>2, ThrowMoves, ReadMoves, RestSteps DEF Resume, Pulled, Inv
<1>3. CASE Return(o)
  BY <1>1, <1>3, ThrowMoves, RestSteps DEF Return, Inv
<1> QED BY <1>2, <1>3 DEF Consumer
-----------------------------------------------------------------------------
\* ping().

\* A ping that ends frees the client, without asking whose connection it is:
\* no other can have taken its place while it waits.
Releases(o) ==
  /\ busy' = FALSE
  /\ pc' = [pc EXCEPT ![o] = "done"]
  /\ UNCHANGED <<socket, net, via, toServer, fate, full, server, locals>>
  /\ toClient' \in [Sockets -> Seq(ServerPackets)]

PingEnds(o) == pc[o] \in {"ping", "pong"} /\ Releases(o)

LEMMA PingEndsSafe ==
  ASSUME Inv, NEW o \in Ops, PingEnds(o)
  PROVE  Inv'
<1> USE DEF Inv, Ownership, PingEnds, Releases, locals, fate
<1>1. Kind[o] = "ping" /\ Active(o) /\ socket \in {own[o], None}
  BY DEF PingsApart, Active
<1>2. \A q \in Ops : pc'[q] = IF q = o THEN "done" ELSE pc[q]
  BY DEF TypeOK
<1>3. \A q \in Ops : Active(q)' <=> (Active(q) /\ q # o)
  BY <1>2 DEF Active
<1>4. TypeOK'
  BY <1>3 DEF TypeOK, PCs
<1>5. Rooted' /\ SocketLive' /\ NoLeakedSocket' /\ ServerBusyWith'
  BY <1>3 DEF Rooted, SocketLive, NoLeakedSocket, Readable, ServerBusyWith
<1>6. OneOwner'
  BY <1>1, <1>3, OpsAssumption DEF OneOwner, Current, TypeOK
<1>7. PingsApart'
  BY <1>2, <1>3 DEF PingsApart
<1> QED BY <1>4, <1>5, <1>6, <1>7

LEMMA PongReadEnds == ASSUME Inv, NEW o \in Ops, PongRead(o) PROVE PingEnds(o)
<1>1. toClient' \in [Sockets -> Seq(ServerPackets)]
  <2>1. \A c \in Sockets : toClient[c] # <<>> => Tail(toClient[c]) \in Seq(ServerPackets)
    BY DEF Inv, TypeOK
  <2> QED BY <2>1 DEF PongRead, Reads, HasPacket, Take, Inv, TypeOK
<1> QED BY <1>1 DEF PongRead, Reads, PingEnds, Releases

\* The Ping is out, and the Pong is waited for.
PingWaits(o) ==
  /\ pc[o] = "ping" /\ CanRead(o)
  /\ Suspend(o, "pong")
  /\ UNCHANGED <<Rest, toServer, fate>>

LEMMA PingWaitsSafe ==
  ASSUME Inv, NEW o \in Ops, PingWaits(o)
  PROVE  Inv'
<1> USE DEF Inv, Ownership, PingWaits, Suspend, client, Rest, locals, fate
<1>1. /\ \A q \in Ops : pc'[q] = IF q = o THEN "pong" ELSE pc[q]
      /\ \A q \in Ops : via'[q] = IF q = o THEN socket ELSE via[q]
  BY DEF TypeOK
<1>2. \A q \in Ops : Active(q)' <=> Active(q)
  BY <1>1 DEF Active
<1>3. TypeOK'
  <2>1. pc' \in [Ops -> PCs] /\ via' \in [Ops -> Sockets \cup {None}]
    BY DEF TypeOK, PCs, Reading
  <2> QED BY <1>2, <2>1 DEF TypeOK
<1>4. Rooted' /\ SocketLive' /\ NoLeakedSocket' /\ ServerBusyWith'
  BY <1>2 DEF Rooted, SocketLive, NoLeakedSocket, Readable, ServerBusyWith
<1>5. OneOwner'
  BY <1>2 DEF OneOwner, Current
<1>6. PingsApart'
  BY <1>1, <1>2 DEF PingsApart, CanRead, Active
<1> QED BY <1>3, <1>4, <1>5, <1>6

LEMMA PingSentSteps ==
  ASSUME Inv, NEW o \in Ops, PingSent(o)
  PROVE  PingWaits(o) \/ PingEnds(o)
BY DEF PingSent, Written, PingWaits, PingEnds, Releases, Rest, Inv, TypeOK

LEMMA AwaitFailsSteps ==
  ASSUME Inv, NEW o \in Ops, AwaitFails(o)
  PROVE  OpStep(o) \/ PingEnds(o)
<1>1. UNCHANGED Rest /\ Awaiting(o)
  BY DEF AwaitFails
<1>2. CASE Kind[o] = "ping"
  <2>1. pc[o] \in {"ping", "pong"}
    BY <1>1, <1>2 DEF Inv, Ownership, PingsApart, Awaiting, Writing, Reading
  <2> QED BY <1>1, <1>2, <2>1 DEF AwaitFails, PingEnds, Releases, Rest, Inv, TypeOK
<1>3. CASE Kind[o] # "ping"
  <2>1. pc[o] \in StayPoints
    BY <1>1, <1>3 DEF Inv, Ownership, PingsApart, Awaiting, StayPoints
  <2>2. CASE pc[o] \in {"cancel", "draining"}
    <3>1. DrainFailed(o) /\ UNCHANGED <<toServer, cancelled, ended, delimited>>
      BY <1>3, <2>2 DEF AwaitFails
    <3>2. Moves(o)
      BY <3>1, DrainFailedMoves DEF Moves, CoreMoves, LocalsTyped, Inv, TypeOK
    <3> QED BY <1>1, <2>1, <3>2, RestSteps
  <2>3. CASE pc[o] \notin {"cancel", "draining"}
    <3>1. Throw(o)
      BY <1>3, <2>3 DEF AwaitFails
    <3> QED BY <1>1, <2>1, <3>1, ThrowMoves, RestSteps DEF Inv
  <2> QED BY <2>2, <2>3
<1> QED BY <1>2, <1>3
-----------------------------------------------------------------------------
\* The start of an operation, signals and timers.

LEMMA StartSafe ==
  ASSUME Inv, NEW o \in Ops, NEW first \in {"Query", "Ping"}, NEW p,
         \/ first = "Query" /\ p = "query" /\ Kind[o] # "ping"
         \/ first = "Ping" /\ p = "ping" /\ Kind[o] = "ping",
         Start(o, first, p)
  PROVE  Inv'
<1> USE DEF Inv, Ownership, Start, fate
<1>1. p \in Writing
  BY DEF Writing
<1>2. /\ \A q \in Ops : pc'[q] = IF q = o THEN p ELSE pc[q]
      /\ \A q \in Ops : via'[q] = IF q = o THEN socket ELSE via[q]
      /\ \A q \in Ops : own'[q] = IF q = o THEN socket ELSE own[q]
  BY DEF TypeOK
<1>3. \A q \in Ops : Active(q)' <=> (Active(q) \/ q = o)
  BY <1>1, <1>2 DEF Active, Writing
<1>4. ~Active(o) /\ socket \in Sockets
  BY DEF Active, TypeOK
<1>5. TypeOK'
  <2>1. toServer' \in [Sockets -> Seq(ClientPackets)]
    BY WriteTyped
  <2>2. pc' \in [Ops -> PCs] /\ via' \in [Ops -> Sockets \cup {None}]
        /\ own' \in [Ops -> Sockets \cup {None}]
    BY <1>1, <1>4 DEF TypeOK, PCs
  <2> QED BY <1>2, <1>3, <1>4, <2>1, <2>2 DEF TypeOK
<1>6. Rooted' /\ SocketLive' /\ NoLeakedSocket' /\ ServerBusyWith'
  BY <1>2, <1>3, <1>4 DEF Rooted, SocketLive, NoLeakedSocket, Readable, ServerBusyWith
<1>7. OneOwner'
  BY <1>2, <1>3, <1>4 DEF OneOwner, Current
<1>8. PingsApart'
  BY <1>2, <1>3, <1>4 DEF PingsApart
<1> QED BY <1>5, <1>6, <1>7, <1>8

LEMMA BeginSafe == ASSUME Inv, NEW o \in Ops, Begin(o) PROVE Inv'
BY StartSafe DEF Begin, StartOp, StartPing

\* What moves no operation and changes no connection keeps ownership.
LEMMA SameOwnership ==
  ASSUME Inv, UNCHANGED <<client, net, pc, via, own>>
  PROVE  Ownership'
BY DEF Inv, Ownership, Rooted, SocketLive, NoLeakedSocket, OneOwner, PingsApart,
       Active, Current, Readable, client

LEMMA TryCancelTyped ==
  ASSUME TypeOK, NEW o \in Ops, TryCancel(o)
  PROVE  /\ toServer' \in [Sockets -> Seq(ClientPackets)]
         /\ cancelled' \in [Ops -> BOOLEAN]
BY WriteTyped DEF TryCancel, TypeOK

LEMMA AbortSafe == ASSUME Inv, NEW o \in Ops, Abort(o) PROVE Inv'
<1>1. Ownership' /\ ServerBusyWith'
  BY SameOwnership DEF Abort, Inv, ServerBusyWith
<1>2. /\ toServer' \in [Sockets -> Seq(ClientPackets)]
      /\ cancelled' \in [Ops -> BOOLEAN]
  BY TryCancelTyped DEF Abort, Inv, TypeOK
<1>3. TypeOK'
  BY <1>2 DEF Abort, Inv, TypeOK, Active, client
<1> QED BY <1>1, <1>3 DEF Inv

LEMMA QueryTimerSafe == ASSUME Inv, NEW o \in Ops, QueryTimer(o) PROVE Inv'
<1>1. Ownership' /\ ServerBusyWith'
  BY SameOwnership DEF QueryTimer, locals, Inv, ServerBusyWith
<1>2. /\ toServer' \in [Sockets -> Seq(ClientPackets)]
      /\ cancelled' \in [Ops -> BOOLEAN]
  BY TryCancelTyped DEF QueryTimer, Inv
<1>3. TypeOK'
  BY <1>2 DEF QueryTimer, Inv, TypeOK, Active, client, locals
<1> QED BY <1>1, <1>3 DEF Inv

\* destroy() of a socket ends its life and touches nothing else.
LEMMA DestroySafe ==
  ASSUME Inv, NEW c, Destroy(c) \/ UNCHANGED net,
         UNCHANGED <<client, wire, pc, via, locals, cancelled, ended, delimited>>,
         clock' \in [Ops -> {"off", "query", "grace", "spent"}]
  PROVE  Inv'
<1>0. net \in [Sockets -> {"unused", "open", "ended", "destroyed", "closed"}]
  BY DEF Inv, TypeOK
<1>1. \A d \in Sockets : net'[d] = net[d] \/ (Readable(d) /\ net'[d] = "destroyed")
  BY <1>0 DEF Destroy
<1>2. net' \in [Sockets -> {"unused", "open", "ended", "destroyed", "closed"}]
  <2>1. CASE Destroy(c)
    BY <1>0, <2>1 DEF Destroy
  <2>2. CASE UNCHANGED net
    BY <1>0, <2>2
  <2> QED BY <2>1, <2>2
<1> USE DEF Inv, Ownership, client, locals
<1>3. TypeOK'
  BY <1>2 DEF TypeOK, Active, wire
<1>4. Rooted' /\ SocketLive' /\ NoLeakedSocket' /\ ServerBusyWith'
  BY <1>1 DEF Rooted, SocketLive, NoLeakedSocket, ServerBusyWith, Readable, Active, TypeOK, wire
<1>5. OneOwner' /\ PingsApart'
  BY DEF OneOwner, PingsApart, Current, Active
<1> QED BY <1>3, <1>4, <1>5

LEMMA TimersSafe == ASSUME Inv, NEW o \in Ops, Timers(o) PROVE Inv'
<1>1. CASE QueryTimer(o)
  BY <1>1, QueryTimerSafe
<1>2. CASE GraceTimer(o)
  <2>1. clock' \in [Ops -> {"off", "query", "grace", "spent"}]
    BY <1>2 DEF GraceTimer, Inv, TypeOK
  <2> QED BY <1>2, <2>1, DestroySafe DEF GraceTimer
<1>3. CASE DrainTimer(o)
  <2>1. UNCHANGED fate /\ clock' \in [Ops -> {"off", "query", "grace", "spent"}]
    BY <1>3 DEF DrainTimer, fate, Inv, TypeOK
  <2> QED BY <1>3, <2>1, DestroySafe DEF DrainTimer, fate
<1> QED BY <1>1, <1>2, <1>3 DEF Timers

-----------------------------------------------------------------------------
\* The connection and the server.

LEMMA ConnectSafe == ASSUME Inv, NEW c \in Sockets, Connect(c) PROVE Inv'
<1> USE DEF Inv, Ownership, Connect, locals, fate, wire
<1>1. \A d \in Sockets : net'[d] = IF d = c THEN "open" ELSE net[d]
  BY DEF TypeOK
<1>2. \A o \in Ops : Active(o) => own[o] # c /\ own[o] \in Sockets
  BY DEF Rooted, TypeOK
<1>3. \A o \in Ops : Kind[o] = "ping" => ~Active(o)
  <2> SUFFICES ASSUME NEW o \in Ops, Kind[o] = "ping", Active(o) PROVE FALSE
    OBVIOUS
  <2>1. via[o] = own[o] /\ own[o] \in Sockets /\ Awaiting(o)
    BY DEF PingsApart, Active, Awaiting, Writing, Reading, TypeOK
  <2>2. net[own[o]] = "open"
    BY <2>1 DEF EventLoopSettled, Rooted, TypeOK
  <2> QED BY <2>1, <2>2, OpsAssumption DEF NoLeakedSocket, Readable
<1>4. TypeOK'
  BY DEF TypeOK, Active
<1>5. Rooted' /\ SocketLive' /\ NoLeakedSocket' /\ ServerBusyWith'
  BY <1>1, <1>2, OpsAssumption
     DEF Rooted, SocketLive, NoLeakedSocket, ServerBusyWith, Readable, Active
<1>6. OneOwner'
  BY <1>2, OpsAssumption DEF OneOwner, Current, Active
<1>7. PingsApart'
  BY <1>3 DEF PingsApart, Active
<1> QED BY <1>4, <1>5, <1>6, <1>7

LEMMA CloseSafe == ASSUME Inv, Close PROVE Inv'
<1> USE DEF Inv, Ownership, Close, locals, fate, wire
<1>1. Rooted' /\ SocketLive' /\ NoLeakedSocket' /\ OneOwner'
  BY TeardownSafe DEF Active
<1>2. PingsApart' /\ ServerBusyWith'
  BY DEF PingsApart, ServerBusyWith, Teardown, Active
<1>3. TypeOK'
  <2>1. net' \in [Sockets -> {"unused", "open", "ended", "destroyed", "closed"}]
    BY DEF TypeOK, Teardown
  <2> QED BY <2>1 DEF TypeOK, Teardown, Active
<1> QED BY <1>1, <1>2, <1>3

LEMMA HangupSafe == ASSUME Inv, NEW c \in Sockets, Hangup(c) PROVE Inv'
<1> USE DEF Inv, Ownership, Hangup, client, locals, fate, wire
<1>1. \A d \in Sockets : net'[d] = IF d = c THEN "ended" ELSE net[d]
  BY DEF TypeOK
<1>2. TypeOK'
  <2>1. Quiet \in [phase : Phases, op : Ops \cup {None}, chat : Nat]
    BY DEF Quiet, Phases
  <2>2. PICK n \in 0 .. Len(toClient[c]) : toClient' = [toClient EXCEPT ![c] = SubSeq(@, 1, n)]
    OBVIOUS
  <2>3. toClient[c] \in Seq(ServerPackets) /\ n \in 0 .. Len(toClient[c])
    BY DEF TypeOK
  <2>4. SubSeq(toClient[c], 1, n) \in Seq(ServerPackets) /\ <<>> \in Seq(ClientPackets)
    BY <2>3
  <2>5. toClient' \in [Sockets -> Seq(ServerPackets)]
    BY <2>2, <2>4 DEF TypeOK
  <2> QED BY <2>1, <2>4, <2>5 DEF TypeOK, Active
<1>3. Rooted' /\ SocketLive' /\ NoLeakedSocket'
  BY <1>1 DEF Rooted, SocketLive, NoLeakedSocket, Readable, Active
<1>4. OneOwner' /\ PingsApart'
  BY DEF OneOwner, PingsApart, Current, Active
<1>5. ServerBusyWith'
  BY DEF ServerBusyWith, Quiet, TypeOK
<1> QED BY <1>2, <1>3, <1>4, <1>5

LEMMA CloseEventSafe == ASSUME Inv, NEW c \in Sockets, CloseEvent(c) PROVE Inv'
<1> USE DEF Inv, Ownership, CloseEvent, locals, fate
<1>1. \A d \in Sockets : net'[d] = IF d = c THEN "closed" ELSE net[d]
  BY DEF TypeOK
<1>2. TypeOK'
  <2>1. Quiet \in [phase : Phases, op : Ops \cup {None}, chat : Nat]
    BY DEF Quiet, Phases
  <2>2. <<>> \in Seq(ClientPackets) /\ <<>> \in Seq(ServerPackets)
    OBVIOUS
  <2> QED BY <2>1, <2>2 DEF TypeOK, Active
<1>3. Rooted' /\ SocketLive' /\ NoLeakedSocket'
  BY <1>1 DEF Rooted, SocketLive, NoLeakedSocket, Readable, Active, TypeOK
<1>4. OneOwner' /\ PingsApart'
  BY OpsAssumption DEF OneOwner, PingsApart, Current, Active, TypeOK
<1>5. ServerBusyWith'
  BY DEF ServerBusyWith, Quiet, TypeOK
<1> QED BY <1>2, <1>3, <1>4, <1>5

LEMMA StallSafe == ASSUME Inv, NEW c \in Sockets, Stall(c) \/ Unstall(c) PROVE Inv'
<1>1. Ownership' /\ ServerBusyWith'
  BY SameOwnership DEF Stall, Unstall, locals, Inv, ServerBusyWith
<1>2. TypeOK'
  BY DEF Stall, Unstall, Inv, TypeOK, Active, client, locals, fate
<1> QED BY <1>1, <1>2 DEF Inv

\* The server's part of a step: what it takes, what it sends, where it gets to.
LEMMA ServerStepSafe ==
  ASSUME Inv, UNCHANGED <<client, net, full, pc, via, locals, fate>>,
         toServer' \in [Sockets -> Seq(ClientPackets)],
         toClient' \in [Sockets -> Seq(ServerPackets)],
         server' \in [Sockets -> [phase : Phases, op : Ops \cup {None}, chat : Nat]],
         ServerBusyWith'
  PROVE  Inv'
<1>1. Ownership'
  BY SameOwnership DEF locals
<1>2. TypeOK'
  BY DEF Inv, TypeOK, Active, client, locals, fate
<1> QED BY <1>1, <1>2 DEF Inv

LEMMA ReplyTyped ==
  ASSUME Inv, NEW c \in Sockets, NEW o \in Ops,
         NEW type \in {"Data", "Progress", "TimezoneUpdate", "TableColumns",
                       "EndOfStream", "Exception", "Pong"},
         toClient' = [toClient EXCEPT ![c] = Append(@, Msg(type, o))]
  PROVE  toClient' \in [Sockets -> Seq(ServerPackets)]
<1>1. Msg(type, o) \in ServerPackets
  BY DEF Msg, ServerPackets, Packet
<1>2. Append(toClient[c], Msg(type, o)) \in Seq(ServerPackets)
  BY <1>1 DEF Inv, TypeOK
<1> QED BY <1>2 DEF Inv, TypeOK

LEMMA EnterTyped ==
  ASSUME Inv, NEW c \in Sockets, NEW phase \in Phases, NEW o \in Ops, Enter(c, phase, o)
  PROVE  /\ server' \in [Sockets -> [phase : Phases, op : Ops \cup {None}, chat : Nat]]
         /\ ServerBusyWith'
<1>1. [phase |-> phase, op |-> o, chat |-> 0] \in [phase : Phases, op : Ops \cup {None}, chat : Nat]
  OBVIOUS
<1> QED BY <1>1 DEF Inv, TypeOK, ServerBusyWith, Enter

LEMMA ServerReceiveSafe == ASSUME Inv, NEW c \in Sockets, ServerReceive(c) PROVE Inv'
<1> DEFINE m == Head(toServer[c])
<1>1. m \in ClientPackets /\ m.op \in Ops
  <2>1. toServer[c] \in Seq(ClientPackets) /\ toServer[c] # <<>>
    BY DEF ServerReceive, Inv, TypeOK
  <2>2. m \in ClientPackets
    BY <2>1
  <2> QED BY <2>2 DEF ClientPackets, Packet
<1>2. toServer' \in [Sockets -> Seq(ClientPackets)]
  <2>1. Tail(toServer[c]) \in Seq(ClientPackets)
    BY DEF ServerReceive, Inv, TypeOK
  <2> QED BY <2>1 DEF ServerReceive, Inv, TypeOK
<1>3. \/ UNCHANGED toClient /\ \E phase \in Phases : Enter(c, phase, m.op)
      \/ UNCHANGED toClient /\ server[c].phase # "idle"
           /\ \E phase \in Phases : Enter(c, phase, server[c].op)
      \/ /\ toClient' = [toClient EXCEPT ![c] = Append(@, Msg("Pong", m.op))]
         /\ UNCHANGED server
      \/ UNCHANGED <<toClient, server>>
  BY DEF ServerReceive, Phases
<1> HIDE DEF m
<1>4. /\ toClient' \in [Sockets -> Seq(ServerPackets)]
      /\ server' \in [Sockets -> [phase : Phases, op : Ops \cup {None}, chat : Nat]]
      /\ ServerBusyWith'
  <2>1. CASE UNCHANGED toClient /\ \E phase \in Phases : Enter(c, phase, m.op)
    BY <1>1, <2>1, EnterTyped DEF Inv, TypeOK
  <2>2. CASE UNCHANGED toClient /\ server[c].phase # "idle"
               /\ \E phase \in Phases : Enter(c, phase, server[c].op)
    <3>1. server[c].op \in Ops
      BY <2>2 DEF Inv, ServerBusyWith
    <3> QED BY <2>2, <3>1, EnterTyped DEF Inv, TypeOK
  <2>3. CASE /\ toClient' = [toClient EXCEPT ![c] = Append(@, Msg("Pong", m.op))]
             /\ UNCHANGED server
    BY <1>1, <2>3, ReplyTyped DEF Inv, TypeOK, ServerBusyWith
  <2>4. CASE UNCHANGED <<toClient, server>>
    BY <2>4 DEF Inv, TypeOK, ServerBusyWith
  <2> QED BY <1>3, <2>1, <2>2, <2>3, <2>4
<1> QED BY <1>2, <1>4, ServerStepSafe DEF ServerReceive

LEMMA ServerHeaderSafe == ASSUME Inv, NEW c \in Sockets, ServerHeader(c) PROVE Inv'
<1>1. server[c].op \in Ops
  BY DEF ServerHeader, Inv, ServerBusyWith
<1>2. toClient' \in [Sockets -> Seq(ServerPackets)]
  BY <1>1, ReplyTyped DEF ServerHeader, Reply
<1>3. /\ server' \in [Sockets -> [phase : Phases, op : Ops \cup {None}, chat : Nat]]
      /\ ServerBusyWith'
  BY <1>1, EnterTyped DEF ServerHeader, Phases
<1> QED BY <1>2, <1>3, ServerStepSafe DEF ServerHeader, Inv, TypeOK

LEMMA ServerChatSafe == ASSUME Inv, NEW c \in Sockets, ServerChat(c) PROVE Inv'
<1>1. server[c].op \in Ops
  BY DEF ServerChat, Inv, ServerBusyWith
<1>2. toClient' \in [Sockets -> Seq(ServerPackets)]
  BY <1>1, BoundsAssumption, ReplyTyped, ZenonT(60) DEF ServerChat, Reply
<1>3. server' \in [Sockets -> [phase : Phases, op : Ops \cup {None}, chat : Nat]]
  <2>1. server[c] \in [phase : Phases, op : Ops \cup {None}, chat : Nat]
    BY DEF Inv, TypeOK
  <2>2. [server[c] EXCEPT !.chat = @ + 1] \in [phase : Phases, op : Ops \cup {None}, chat : Nat]
    BY <2>1
  <2> QED BY <2>2 DEF ServerChat, Inv, TypeOK
<1>4. ServerBusyWith'
  BY DEF ServerChat, Inv, TypeOK, ServerBusyWith
<1> QED BY <1>2, <1>3, <1>4, ServerStepSafe DEF ServerChat, Inv, TypeOK

LEMMA ServerFinishSafe == ASSUME Inv, NEW c \in Sockets, ServerFinish(c) PROVE Inv'
<1>1. server[c].op \in Ops
  BY DEF ServerFinish, Inv, ServerBusyWith
<1>2. toClient' \in [Sockets -> Seq(ServerPackets)]
  BY <1>1, ReplyTyped DEF ServerFinish, Reply
<1>3. server' \in [Sockets -> [phase : Phases, op : Ops \cup {None}, chat : Nat]]
  BY DEF ServerFinish, Quiet, Phases, Inv, TypeOK
<1>4. ServerBusyWith'
  BY DEF ServerFinish, Quiet, Inv, TypeOK, ServerBusyWith
<1> QED BY <1>2, <1>3, <1>4, ServerStepSafe DEF ServerFinish, Inv, TypeOK

-----------------------------------------------------------------------------
\* The theorems.

LEMMA InitInv == Init => Inv
<1> SUFFICES ASSUME Init PROVE Inv
  OBVIOUS
<1>1. TypeOK
  <2>1. <<>> \in Seq(ClientPackets) /\ <<>> \in Seq(ServerPackets)
    OBVIOUS
  <2>2. Quiet \in [phase : Phases, op : Ops \cup {None}, chat : Nat]
    BY DEF Quiet, Phases
  <2>3. \A o \in Ops : ~Active(o)
    BY DEF Init, Active
  <2> QED BY <2>1, <2>2, <2>3 DEF Init, TypeOK, PCs
<1>2. ServerBusyWith
  BY DEF Init, ServerBusyWith, Quiet
<1>3. Ownership
  BY OpsAssumption DEF Init, Ownership, Rooted, SocketLive, NoLeakedSocket, OneOwner,
                       PingsApart, Active, Current, Readable
<1> QED BY <1>1, <1>2, <1>3 DEF Inv

\* What each operation does by itself or for its consumer is one of these.
LEMMA ContinueSteps ==
  ASSUME Inv, NEW o \in Ops, Continue(o) \/ Source(o) \/ Consumer(o)
  PROVE  OpStep(o) \/ PingWaits(o) \/ PingEnds(o)
<1>1. CASE Source(o)
  BY <1>1, BatchReadySteps, SourceDoneSteps, SourceFailsSteps DEF Source
<1>2. CASE Continue(o)
  BY <1>2, QuerySentSteps, InsertSentSteps, InsertBegunSteps, BatchSentSteps,
     DelimiterSentSteps, EndOfStreamSteps, ServerExceptionSteps, ReadPacketSteps,
     SchemaPacketSteps, DrainPacketSteps, CancelSentSteps, PingSentSteps, PongReadEnds,
     AwaitFailsSteps, DecodeFailsSteps DEF Continue
<1> QED BY <1>1, <1>2, ConsumerSteps

\* Every step, of whichever actor, preserves the invariant.
LEMMA NextInv == Inv /\ [Next]_vars => Inv'
<1> SUFFICES ASSUME Inv, [Next]_vars PROVE Inv'
  OBVIOUS
<1>1. CASE Close
  BY <1>1, CloseSafe
<1>2. CASE \E c \in Sockets : Connection(c) \/ Server(c)
  BY <1>2, ConnectSafe, HangupSafe, CloseEventSafe, StallSafe,
     ServerReceiveSafe, ServerHeaderSafe, ServerChatSafe, ServerFinishSafe
     DEF Connection, Server
<1>3. CASE \E o \in Ops : Begin(o) \/ Timers(o) \/ Abort(o)
  BY <1>3, BeginSafe, TimersSafe, AbortSafe
<1>4. CASE \E o \in Ops : Continue(o) \/ Source(o) \/ Consumer(o)
  BY <1>4, ContinueSteps, OpStepSafe, PingWaitsSafe, PingEndsSafe
<1>5. CASE UNCHANGED vars
  <2>1. TypeOK'
    BY <1>5 DEF vars, client, wire, locals, fate, Inv, TypeOK, Active
  <2>2. Ownership'
    BY <1>5, SameOwnership DEF vars, client, locals
  <2>3. ServerBusyWith'
    BY <1>5 DEF vars, wire, Inv, ServerBusyWith
  <2> QED BY <2>1, <2>2, <2>3 DEF Inv
<1> QED BY <1>1, <1>2, <1>3, <1>4, <1>5 DEF Next

\* The inductive invariant holds in every reachable state.
THEOREM Invariance == Spec => []Inv
BY InitInv, NextInv, PTL DEF Spec

\* Every field of the client, every local of an operation and every packet in
\* flight keeps its type, and an operation under way knows the socket it started
\* on (ensureConnected() at its start).
THEOREM TypeCorrect == Spec => []TypeOK
<1>1. Inv => TypeOK
  BY DEF Inv
<1> QED BY <1>1, Invariance, PTL

\* this.busy is exactly ownership, whatever is aborted, timed out, abandoned,
\* hung up, closed or reconnected, and in whatever order: no two operations are
\* ever under way on the client's connection, and a client is never left busy
\* with none nor free with one.
THEOREM BusyIsOwnership == Spec => []OneOwner
<1>1. Inv => OneOwner
  BY DEF Inv, Ownership
<1> QED BY <1>1, Invariance, PTL

\* Once established, a connection is never forgotten alive: a socket that still
\* carries data is the one the client holds.
THEOREM SocketsNotLeaked == Spec => []NoLeakedSocket
<1>1. Inv => NoLeakedSocket
  BY DEF Inv, Ownership
<1> QED BY <1>1, Invariance, PTL
-----------------------------------------------------------------------------
\* TcpClient implements TcpSession.

LEMMA OwnerIs ==
  ASSUME OneOwner, NEW p \in Ops, Current(p)
  PROVE  Owner = p
BY DEF OneOwner, Owner

LEMMA OwnerIsNext ==
  ASSUME OneOwner', NEW p \in Ops, Current(p)'
  PROVE  Owner' = p
BY DEF OneOwner, Owner

\* Nobody starts, ends, connects or disconnects.
LEMMA SessionStutters ==
  ASSUME Inv, Inv', UNCHANGED <<socket, own>>,
         \A q \in Ops : (Active(q)' <=> Active(q)) /\ (pc'[q] = "idle" <=> pc[q] = "idle"),
         \A c \in Sockets : net'[c] = "unused" <=> net[c] = "unused"
  PROVE  UNCHANGED <<socket, Owner, {q \in Ops : pc[q] # "idle"},
                     {c \in Sockets : net[c] # "unused"}>>
<1>1. \A q \in Ops : Current(q)' <=> Current(q)
  BY DEF Current
<1>2. Owner' = Owner
  <2>1. CASE \E q \in Ops : Current(q)
    BY <1>1, <2>1, OwnerIs, OwnerIsNext DEF Inv, Ownership
  <2>2. CASE ~\E q \in Ops : Current(q)
    BY <1>1, <2>2 DEF Owner
  <2> QED BY <2>1, <2>2
<1> QED BY <1>2

\* One operation ends.
LEMMA SessionReleases ==
  ASSUME Inv, Inv', NEW o \in Ops, Active(o), UNCHANGED <<socket, own, net>>,
         pc' = [pc EXCEPT ![o] = "done"]
  PROVE  \/ Session!Release
         \/ UNCHANGED <<socket, Owner, {q \in Ops : pc[q] # "idle"},
                        {c \in Sockets : net[c] # "unused"}>>
<1>1. \A q \in Ops : pc'[q] = IF q = o THEN "done" ELSE pc[q]
  BY DEF Inv, TypeOK
<1>2. \A q \in Ops : Current(q)' <=> (Current(q) /\ q # o)
  BY <1>1 DEF Current, Active
<1>3. UNCHANGED <<{q \in Ops : pc[q] # "idle"}, {c \in Sockets : net[c] # "unused"}>>
  BY <1>1 DEF Active
<1>4. CASE Current(o)
  <2>1. Owner = o /\ Owner # None
    BY <1>4, OwnerIs, OpsAssumption DEF Inv, Ownership
  <2>2. Owner' = None
    BY <1>2, <1>4 DEF Owner, Inv, Ownership, OneOwner
  <2> QED BY <1>3, <2>1, <2>2 DEF Session!Release
<1>5. CASE ~Current(o)
  <2>1. Owner' = Owner
    <3>1. CASE \E q \in Ops : Current(q)
      BY <1>2, <1>5, <3>1, OwnerIs, OwnerIsNext DEF Inv, Ownership
    <3>2. CASE ~\E q \in Ops : Current(q)
      BY <1>2, <3>2 DEF Owner
    <3> QED BY <3>1, <3>2
  <2> QED BY <1>3, <2>1
<1> QED BY <1>4, <1>5

\* The client loses its connection.
LEMMA SessionDisconnects ==
  ASSUME Inv, Inv', socket # None, socket' = None,
         \A q \in Ops : pc'[q] = "idle" <=> pc[q] = "idle",
         \A c \in Sockets : net'[c] = "unused" <=> net[c] = "unused"
  PROVE  Session!Disconnect
<1>1. \A q \in Ops : ~Current(q)'
  BY OpsAssumption DEF Current, Inv, TypeOK
<1>2. Owner' = None
  BY <1>1 DEF Owner
<1> QED BY <1>2 DEF Session!Disconnect

LEMMA SessionAcquires ==
  ASSUME Inv, Inv', NEW o \in Ops, Begin(o)
  PROVE  Session!Acquire(o)
<1>1. PICK p \in Writing : pc' = [pc EXCEPT ![o] = p]
  BY DEF Begin, StartOp, StartPing, Start, Writing
<1>2. /\ pc[o] = "idle" /\ socket # None /\ ~busy
      /\ UNCHANGED <<socket, net>>
      /\ own' = [own EXCEPT ![o] = socket]
  BY DEF Begin, StartOp, StartPing, Start
<1>3. \A q \in Ops : pc'[q] = IF q = o THEN p ELSE pc[q]
  BY <1>1 DEF Inv, TypeOK
<1>4. Owner = None
  BY <1>2 DEF Owner, Inv, Ownership, OneOwner
<1>5. Owner' = o
  <2>1. Current(o)'
    BY <1>2, <1>3 DEF Current, Active, Inv, TypeOK, Writing
  <2> QED BY <2>1, OwnerIsNext DEF Inv, Ownership
<1>6. {q \in Ops : pc[q] # "idle"}' = {q \in Ops : pc[q] # "idle"} \cup {o}
  BY <1>3 DEF Writing
<1> QED BY <1>2, <1>4, <1>5, <1>6 DEF Session!Acquire

LEMMA SessionConnects ==
  ASSUME Inv, Inv', NEW c \in Sockets, Connect(c)
  PROVE  Session!Connect(c)
<1>1. \A d \in Sockets : net'[d] = IF d = c THEN "open" ELSE net[d]
  BY DEF Connect, Inv, TypeOK
<1>2. \A q \in Ops : ~Current(q) /\ ~Current(q)'
  BY OpsAssumption DEF Connect, Current, Active, locals, Inv, TypeOK, Ownership, Rooted
<1>3. Owner = None /\ Owner' = None
  BY <1>2 DEF Owner
<1>4. {d \in Sockets : net[d] # "unused"}' = {d \in Sockets : net[d] # "unused"} \cup {c}
  BY <1>1
<1> QED BY <1>3, <1>4 DEF Connect, Session!Connect

LEMMA InitImplements == Init => Session!Init
BY DEF Init, Session!Init, Owner, Current, Active

LEMMA NextImplements ==
  Inv /\ Inv' /\ [Next]_vars => [Session!Next]_(Session!session)
<1> SUFFICES ASSUME Inv, Inv', [Next]_vars PROVE [Session!Next]_(Session!session)
  OBVIOUS
<1> USE DEF Session!Next, Session!session
<1>1. CASE Close
  <2>1. \A c \in Sockets : net'[c] = "unused" <=> net[c] = "unused"
    BY <1>1 DEF Close, Teardown, Readable
  <2> QED BY <1>1, <2>1, SessionDisconnects DEF Close, Teardown
<1>2. CASE \E c \in Sockets : Connection(c) \/ Server(c)
  <2>1. PICK c \in Sockets : Connection(c) \/ Server(c)
    BY <1>2
  <2>2. CASE Connect(c)
    BY <2>2, SessionConnects
  <2>3. CASE CloseEvent(c)
    <3>1. \A d \in Sockets : net'[d] = "unused" <=> net[d] = "unused"
      BY <2>3 DEF CloseEvent, Inv, TypeOK
    <3>2. CASE socket = c
      BY <2>3, <3>1, <3>2, SessionDisconnects, OpsAssumption DEF CloseEvent
    <3>3. CASE socket # c
      BY <2>3, <3>1, <3>3, SessionStutters DEF CloseEvent, locals, Active
    <3> QED BY <3>2, <3>3
  <2>4. CASE Hangup(c)
    <3>1. \A d \in Sockets : net'[d] = "unused" <=> net[d] = "unused"
      BY <2>4 DEF Hangup, Inv, TypeOK
    <3> QED BY <2>4, <3>1, SessionStutters DEF Hangup, client, locals, Active
  <2>5. CASE Stall(c) \/ Unstall(c) \/ Server(c)
    BY <2>5, SessionStutters
       DEF Stall, Unstall, Server, ServerReceive, ServerHeader, ServerChat, ServerFinish,
           client, locals, Active
  <2> QED BY <2>1, <2>2, <2>3, <2>4, <2>5 DEF Connection
<1>3. CASE \E o \in Ops : Begin(o)
  BY <1>3, SessionAcquires
<1>4. CASE \E o \in Ops : Timers(o) \/ Abort(o)
  <2>1. UNCHANGED <<socket, own, pc>>
    BY <1>4 DEF Timers, QueryTimer, GraceTimer, DrainTimer, Abort, client, locals
  <2>2. \A d \in Sockets : net'[d] = "unused" <=> net[d] = "unused"
    <3>1. UNCHANGED net \/ \E c : Destroy(c)
      BY <1>4 DEF Timers, QueryTimer, GraceTimer, DrainTimer, Abort
    <3> QED BY <3>1, ZenonT(60) DEF Destroy, Readable, Inv, TypeOK
  <2> QED BY <2>1, <2>2, SessionStutters DEF Active
<1>5. CASE \E o \in Ops : Continue(o) \/ Source(o) \/ Consumer(o)
  <2>1. PICK o \in Ops : OpStep(o) \/ PingWaits(o) \/ PingEnds(o)
    BY <1>5, ContinueSteps
  <2>2. Active(o)
    BY <2>1, AtPoint DEF OpStep, PingWaits, PingEnds, Active
  <2>3. CASE (OpStep(o) /\ Stays(o)) \/ PingWaits(o)
    <3>1. PICK p \in PCs \ {"idle", "done"} : pc' = [pc EXCEPT ![o] = p]
      BY <2>3 DEF Stays, StayPoints, PingWaits, Suspend, PCs, Writing, Reading, Suspended
    <3>2. \A q \in Ops : pc'[q] = IF q = o THEN p ELSE pc[q]
      BY <3>1 DEF Inv, TypeOK
    <3>3. UNCHANGED <<socket, own, net>>
      BY <2>3 DEF OpStep, Stays, PingWaits, Suspend, client, Rest, locals
    <3> QED BY <2>2, <3>2, <3>3, SessionStutters DEF Active
  <2>4. CASE (OpStep(o) /\ Leaves(o)) \/ PingEnds(o)
    <3>1. UNCHANGED <<socket, own, net>> /\ pc' = [pc EXCEPT ![o] = "done"]
      BY <2>4 DEF OpStep, Leaves, PingEnds, Releases, locals
    <3> QED BY <2>2, <3>1, SessionReleases
  <2>5. CASE OpStep(o) /\ Drops(o)
    <3>1. \A q \in Ops : pc'[q] = IF q = o THEN "done" ELSE pc[q]
      BY <2>5 DEF Drops, Inv, TypeOK
    <3>2. \A d \in Sockets : net'[d] = "unused" <=> net[d] = "unused"
      BY <2>5 DEF Drops, Teardown, Readable
    <3>3. socket # None /\ socket' = None
      BY <2>2, <2>5, OpsAssumption DEF Drops, Teardown, Inv, TypeOK
    <3> QED BY <2>2, <3>1, <3>2, <3>3, SessionDisconnects DEF Active
  <2> QED BY <2>1, <2>3, <2>4, <2>5 DEF OpStep, Moves
<1>6. CASE UNCHANGED vars
  BY <1>6, SessionStutters DEF vars, client, locals, Active
<1> QED BY <1>1, <1>2, <1>3, <1>4, <1>5, <1>6 DEF Next

\* The client keeps the promise of TcpSession: one connection at a time, one
\* owner at a time, no second tenure, no hand-over without a release (busy, the
\* start sockets and the guarded releases of queryImpl, insertImpl and ping).
THEOREM Refinement == Spec => ImplementsSession
<1>1. Inv /\ Inv' /\ [Next]_vars => [Session!Next]_(Session!session)
  BY NextImplements
<1> QED BY <1>1, InitImplements, Invariance, PTL DEF Spec, ImplementsSession, Session!Spec
=============================================================================
