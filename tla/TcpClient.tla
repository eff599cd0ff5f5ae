----------------------------- MODULE TcpClient -----------------------------
(***************************************************************************)
(* The operations of src/tcp_client/client.ts (query, insert, ping) on the *)
(* connections of one TcpClient object: who owns a connection (busy), who  *)
(* reads and writes its packets, and what abort signals, query timeouts,   *)
(* abandoned generators, server hangups, close() and reconnects do to it.  *)
(*                                                                         *)
(* Each operation is one generator (or one ping() call); pc is the await   *)
(* or yield it is suspended at, and every action runs from one suspension  *)
(* point to the next, as JavaScript does.  A socket is never reused: a     *)
(* reconnect takes a fresh one.  How connect() itself proceeds is the      *)
(* subject of TcpConnect; here a connect that succeeds is one step, and    *)
(* this.socket, this.reader and this._serverHello are set and cleared      *)
(* together, so the one variable socket stands for the three.              *)
(***************************************************************************)
EXTENDS Naturals, Sequences

CONSTANTS
  Ops,           \* the operations the application may start, each once
  Sockets,       \* the sockets successive connects may create
  None,          \* JavaScript null
  Kind,          \* Kind[o] is "query", "insert" or "ping"
  WithTables,    \* the queries that carry external tables
  QueryTimeout,  \* queryTimeout > 0
  StaleResume,   \* the application may go on with an operation of an earlier
                 \* connection (pull its generator, feed its source) once the
                 \* client has reconnected
  MayStall,      \* the peer may stop reading, so that write() returns false
  Chatter,       \* the non-terminal packets the server sends (see ServerChat)
  MaxChatter,    \* bound: non-terminal packets per server-side query
  MaxBatches     \* bound: blocks a user iterable produces

ASSUME OpsAssumption == /\ None \notin Sockets
                        /\ None \notin Ops
                        /\ Kind \in [Ops -> {"query", "insert", "ping"}]
                        /\ WithTables \subseteq {o \in Ops : Kind[o] = "query"}
ASSUME FlagsAssumption == /\ QueryTimeout \in BOOLEAN
                          /\ StaleResume \in BOOLEAN
                          /\ MayStall \in BOOLEAN
ASSUME BoundsAssumption ==
  /\ Chatter \subseteq {"Data", "Progress", "TimezoneUpdate", "TableColumns"}
  /\ MaxChatter \in Nat
  /\ MaxBatches \in Nat

VARIABLES
  \* the fields of TcpClient
  socket,     \* this.socket (with this.reader and this._serverHello)
  busy,       \* this.busy
  \* the sockets and the server behind each of them
  net,        \* the socket's life
  full,       \* the socket's send buffer is over its high-water mark
  toServer,   \* client packets not yet processed by the server
  toClient,   \* server packets not yet read by an operation
  server,     \* the server's side of the connection
  \* the locals of each operation
  pc,         \* where the operation is suspended
  own,        \* startSocket
  via,        \* the socket the pending await reads or writes
  aborted,    \* signal.aborted
  cancelled,  \* cancelled: a Cancel packet has been written
  clock,      \* the query timer and, once it fired, the grace timer
  ended,      \* reachedEndOfStream / receivedException
  delimited,  \* sentDataDelimiter (insert)
  sent        \* blocks sent from the user's iterable

client == <<socket, busy>>
wire   == <<full, toServer, toClient, server>>
locals == <<own, aborted, sent>>
fate   == <<cancelled, clock, ended, delimited>>
vars   == <<client, net, wire, pc, via, locals, fate>>

Phases == {"idle", "tables", "plan", "receive", "run"}
Packet(types) == [type : types, op : Ops]
ClientPackets == Packet({"Query", "Data", "Delimiter", "Cancel", "Ping"})
ServerPackets == Packet({"Data", "Progress", "TimezoneUpdate", "TableColumns",
                         "EndOfStream", "Exception", "Pong"})

\* A suspended operation awaits a write (the OS may ask it to wait for
\* "drain"), a packet, the user's iterable, or its consumer (a yield).
Writing   == {"query", "begin", "batch", "delimiter", "cancel", "ping"}
Reading   == {"schema", "reading", "draining", "pong"}
Suspended == {"source", "yielded", "eos"}
PCs       == {"idle", "done"} \cup Writing \cup Reading \cup Suspended

Active(o)   == pc[o] \notin {"idle", "done"}
Awaiting(o) == pc[o] \in Writing \cup Reading
TimedOut(o) == clock[o] \in {"grace", "spent"}
Interrupted(o) == aborted[o] \/ TimedOut(o)
Msg(type, o) == [type |-> type, op |-> o]

TypeOK ==
  /\ socket \in Sockets \cup {None}
  /\ busy \in BOOLEAN
  /\ net \in [Sockets -> {"unused", "open", "ended", "destroyed", "closed"}]
  /\ full \in [Sockets -> BOOLEAN]
  /\ toServer \in [Sockets -> Seq(ClientPackets)]
  /\ toClient \in [Sockets -> Seq(ServerPackets)]
  /\ server \in [Sockets -> [phase : Phases, op : Ops \cup {None}, chat : Nat]]
  /\ pc \in [Ops -> PCs]
  /\ own \in [Ops -> Sockets \cup {None}]
  /\ via \in [Ops -> Sockets \cup {None}]
  /\ aborted \in [Ops -> BOOLEAN]
  /\ cancelled \in [Ops -> BOOLEAN]
  /\ clock \in [Ops -> {"off", "query", "grace", "spent"}]
  /\ ended \in [Ops -> {"no", "eos", "exception"}]
  /\ delimited \in [Ops -> BOOLEAN]
  /\ sent \in [Ops -> Nat]
  /\ \A o \in Ops : Active(o) => own[o] \in Sockets

Quiet == [phase |-> "idle", op |-> None, chat |-> 0]

Init ==
  /\ socket = None
  /\ busy = FALSE
  /\ net = [c \in Sockets |-> "unused"]
  /\ full = [c \in Sockets |-> FALSE]
  /\ toServer = [c \in Sockets |-> <<>>]
  /\ toClient = [c \in Sockets |-> <<>>]
  /\ server = [c \in Sockets |-> Quiet]
  /\ pc = [o \in Ops |-> "idle"]
  /\ own = [o \in Ops |-> None]
  /\ via = [o \in Ops |-> None]
  /\ aborted = [o \in Ops |-> FALSE]
  /\ cancelled = [o \in Ops |-> FALSE]
  /\ clock = [o \in Ops |-> "off"]
  /\ ended = [o \in Ops |-> "no"]
  /\ delimited = [o \in Ops |-> FALSE]
  /\ sent = [o \in Ops |-> 0]
-----------------------------------------------------------------------------
\* Shared pieces of the handlers.

Readable(c) == net[c] \in {"open", "ended"}

\* socket.write(): bytes written to a socket that is gone reach nobody.
Write(c, p) ==
  toServer' = IF net[c] = "open" THEN [toServer EXCEPT ![c] = Append(@, p)]
                                 ELSE toServer

\* StreamingReader refuses a second waiter ("Concurrent read").
ReaderTaken(o) == \E p \in Ops \ {o} : pc[p] \in Reading /\ via[p] = socket

\* Mutant: the socket is forgotten without destroy().
TeardownLeaks ==
  socket' = None /\ busy' = FALSE /\ UNCHANGED net

\* teardown(): forget the connection, free the client, destroy the socket.
Teardown ==
  /\ socket' = None
  /\ busy' = FALSE
  /\ net' = [c \in Sockets |-> IF c = socket /\ Readable(c) THEN "destroyed" ELSE net[c]]

\* The listener and the timers an operation holds are dropped as it ends.
Done(o) ==
  /\ pc' = [pc EXCEPT ![o] = "done"]
  /\ via' = [via EXCEPT ![o] = None]
  /\ clock' = [clock EXCEPT ![o] = "off"]

\* Mutant: the release does not ask whose connection it is.
FinishUnguarded(o) == busy' = FALSE /\ UNCHANGED <<socket, net>> /\ Done(o)

\* Mutant: the finally block forgets to release the client.
FinishUnreleased(o) == UNCHANGED <<client, net>> /\ Done(o)

\* The tail of both finally blocks.
Finish(o) ==
  /\ busy' = IF socket = own[o] THEN FALSE ELSE busy
  /\ UNCHANGED <<socket, net>>
  /\ Done(o)

\* The query timer starts with the delimiter out, before the signal is checked.
Timer(o) ==
  IF pc[o] = "delimiter" /\ Kind[o] = "query" /\ QueryTimeout THEN "query" ELSE clock[o]
KeepTimer(o) == clock' = [clock EXCEPT ![o] = Timer(o)]

\* The catch around drainPackets.
DrainFailed(o) ==
  IF socket = own[o] THEN Teardown /\ Done(o) ELSE Finish(o)

\* drainPackets() up to its first read.
Drain(o) ==
  IF ReaderTaken(o)
  THEN DrainFailed(o)
  ELSE /\ pc' = [pc EXCEPT ![o] = "draining"]
       /\ via' = [via EXCEPT ![o] = socket]
       /\ KeepTimer(o)
       /\ UNCHANGED <<client, net>>

\* The finally block gives up a result that is still coming: Cancel, then drain.
AbandonStream(o) ==
  IF cancelled[o]
  THEN Drain(o) /\ UNCHANGED <<toServer, cancelled>>
  ELSE /\ Write(socket, Msg("Cancel", o))
       /\ cancelled' = [cancelled EXCEPT ![o] = TRUE]
       /\ pc' = [pc EXCEPT ![o] = "cancel"]
       /\ via' = [via EXCEPT ![o] = socket]
       /\ KeepTimer(o)
       /\ UNCHANGED <<client, net>>

\* Mutant: an insert abandoned in the middle of its data keeps the connection.
FinallyMidData(o, e, d) ==
  /\ ended' = [ended EXCEPT ![o] = e]
  /\ delimited' = [delimited EXCEPT ![o] = d]
  /\ IF e = "no" /\ socket = own[o] /\ (Kind[o] = "query" \/ d \/ cancelled[o])
     THEN AbandonStream(o)
     ELSE Finish(o) /\ UNCHANGED <<toServer, cancelled>>

\* The finally block of queryImpl and insertImpl, entered with outcome e and
\* with sentDataDelimiter = d.
Finally(o, e, d) ==
  /\ ended' = [ended EXCEPT ![o] = e]
  /\ delimited' = [delimited EXCEPT ![o] = d]
  /\ IF e = "no" /\ socket = own[o]
     THEN IF Kind[o] = "query" \/ d \/ cancelled[o]
          THEN AbandonStream(o)
          ELSE Teardown /\ Done(o) /\ UNCHANGED <<toServer, cancelled>>
     ELSE Finish(o) /\ UNCHANGED <<toServer, cancelled>>

\* An error thrown out of the body.
Throw(o) == Finally(o, ended[o], delimited[o])

\* Suspend at the await (or yield) p on the current socket.
Suspend(o, p) ==
  /\ pc' = [pc EXCEPT ![o] = p]
  /\ via' = [via EXCEPT ![o] = socket]
  /\ UNCHANGED <<client, net>>

\* Call readServerPacket() from the body: this.reader is whatever the client
\* holds now, and is null when it is disconnected.
CanRead(o) == socket # None /\ ~ReaderTaken(o)
Read(o, p) ==
  IF CanRead(o)
  THEN Suspend(o, p) /\ UNCHANGED <<toServer, fate>>
  ELSE Throw(o)

\* writeWithBackpressure() on this.socket, null when disconnected.
Send(o, type, p) ==
  IF socket = None
  THEN Throw(o)
  ELSE /\ Write(socket, Msg(type, o))
       /\ Suspend(o, p)
       /\ UNCHANGED fate

-----------------------------------------------------------------------------
\* The connection.

\* close events, and the rejections they cause, run in the loop turn that
\* destroyed the socket, before any later connection can finish its handshake.
EventLoopSettled ==
  /\ \A c \in Sockets : net[c] \notin {"ended", "destroyed"}
  /\ \A o \in Ops : Awaiting(o) => net[via[o]] # "closed"

Connect(c) ==
  /\ socket = None
  /\ net[c] = "unused"
  /\ EventLoopSettled
  /\ socket' = c
  /\ net' = [net EXCEPT ![c] = "open"]
  /\ UNCHANGED <<busy, wire, pc, via, locals, fate>>

\* close(), called by the application at any time.
Close ==
  /\ socket # None
  /\ Teardown
  /\ UNCHANGED <<wire, pc, via, locals, fate>>

\* The server, or the network, hangs up ("end", "error"): what has arrived can
\* still be read, what was under way in either direction is lost.
Hangup(c) ==
  /\ net[c] = "open"
  /\ net' = [net EXCEPT ![c] = "ended"]
  /\ \E n \in 0 .. Len(toClient[c]) : toClient' = [toClient EXCEPT ![c] = SubSeq(@, 1, n)]
  /\ toServer' = [toServer EXCEPT ![c] = <<>>]
  /\ server' = [server EXCEPT ![c] = Quiet]
  /\ UNCHANGED <<client, full, pc, via, locals, fate>>

\* The "close" event of a socket: teardown, if it still is the client's.
CloseEvent(c) ==
  /\ net[c] \in {"ended", "destroyed"}
  /\ net' = [net EXCEPT ![c] = "closed"]
  /\ socket' = IF socket = c THEN None ELSE socket
  /\ busy' = IF socket = c THEN FALSE ELSE busy
  /\ toServer' = [toServer EXCEPT ![c] = <<>>]
  /\ toClient' = [toClient EXCEPT ![c] = <<>>]
  /\ server' = [server EXCEPT ![c] = Quiet]
  /\ full' = [full EXCEPT ![c] = FALSE]
  /\ UNCHANGED <<pc, via, locals, fate>>

\* Backpressure: the peer stops, and resumes, reading.
Stall(c) ==
  /\ MayStall /\ net[c] = "open" /\ ~full[c]
  /\ full' = [full EXCEPT ![c] = TRUE]
  /\ UNCHANGED <<client, net, toServer, toClient, server, pc, via, locals, fate>>

Unstall(c) ==
  /\ full[c]
  /\ full' = [full EXCEPT ![c] = FALSE]
  /\ UNCHANGED <<client, net, toServer, toClient, server, pc, via, locals, fate>>

-----------------------------------------------------------------------------
\* The start of an operation and the writes that open it.

\* Mutant: no busy check.
StartWhileBusy(o, first, p) ==
  /\ pc[o] = "idle" /\ socket # None
  /\ busy' = TRUE
  /\ own' = [own EXCEPT ![o] = socket]
  /\ via' = [via EXCEPT ![o] = socket]
  /\ pc' = [pc EXCEPT ![o] = p]
  /\ Write(socket, Msg(first, o))
  /\ UNCHANGED <<socket, net, full, toClient, server, aborted, sent, fate>>

\* Mutant: the start socket is not captured.
StartUncaptured(o, first, p) ==
  /\ pc[o] = "idle" /\ socket # None /\ ~busy
  /\ busy' = TRUE
  /\ via' = [via EXCEPT ![o] = socket]
  /\ pc' = [pc EXCEPT ![o] = p]
  /\ Write(socket, Msg(first, o))
  /\ UNCHANGED <<socket, net, full, toClient, server, locals, fate>>

Start(o, first, p) ==
  /\ pc[o] = "idle"
  /\ socket # None /\ ~busy
  /\ busy' = TRUE
  /\ own' = [own EXCEPT ![o] = socket]
  /\ via' = [via EXCEPT ![o] = socket]
  /\ pc' = [pc EXCEPT ![o] = p]
  /\ Write(socket, Msg(first, o))
  /\ UNCHANGED <<socket, net, full, toClient, server, aborted, sent, fate>>

StartOp(o) == Kind[o] # "ping" /\ Start(o, "Query", "query")
StartPing(o) == Kind[o] = "ping" /\ Start(o, "Ping", "ping")

\* A write the operation awaits is through.
Written(o, p) == pc[o] = p /\ ~full[via[o]] /\ net[via[o]] # "closed"

Rest == <<full, toClient, server, locals>>

QuerySent(o) ==
  /\ Written(o, "query") /\ Kind[o] = "query"
  /\ IF aborted[o] THEN Throw(o)
     ELSE IF o \in WithTables
     THEN Suspend(o, "source") /\ UNCHANGED <<toServer, fate>>
     ELSE Send(o, "Delimiter", "delimiter")
  /\ UNCHANGED Rest

\* insertImpl writes the query and its delimiter without looking at the signal.
InsertSent(o) ==
  /\ Written(o, "query") /\ Kind[o] = "insert"
  /\ Send(o, "Delimiter", "begin")
  /\ UNCHANGED Rest

InsertBegun(o) ==
  /\ Written(o, "begin")
  /\ IF cancelled[o] THEN Throw(o) ELSE Read(o, "schema")
  /\ UNCHANGED Rest

\* The application goes on with an operation whose connection was replaced.
Stale(o) == socket # None /\ socket # own[o]
Pulled(o, p) == pc[o] = p /\ (Stale(o) => StaleResume)

\* The user's iterable: external tables of a query, blocks of an insert.  The
\* external-table loop does not look at the signal, the insert loop does.
BatchReady(o) ==
  /\ Pulled(o, "source") /\ sent[o] < MaxBatches
  /\ IF Kind[o] = "insert" /\ aborted[o]
     THEN Throw(o) /\ UNCHANGED sent
     ELSE /\ Send(o, "Data", "batch")
          /\ sent' = [sent EXCEPT ![o] = @ + 1]
  /\ UNCHANGED <<full, toClient, server, own, aborted>>

BatchSent(o) ==
  /\ Written(o, "batch")
  /\ IF Kind[o] = "insert" /\ aborted[o] THEN Throw(o)
     ELSE Suspend(o, "source") /\ UNCHANGED <<toServer, fate>>
  /\ UNCHANGED Rest

\* The iterable ends; a non-empty insert loop does not look at the signal.
SourceDone(o) ==
  /\ Pulled(o, "source")
  /\ IF aborted[o] /\ (Kind[o] = "query" \/ sent[o] = 0)
     THEN Throw(o)
     ELSE Send(o, "Delimiter", "delimiter")
  /\ UNCHANGED Rest

SourceFails(o) ==
  /\ Pulled(o, "source")
  /\ Throw(o)
  /\ UNCHANGED Rest

\* The delimiter is out: a query arms its timer, an insert notes it.
DelimiterSent(o) ==
  /\ Written(o, "delimiter")
  /\ LET d == Kind[o] = "insert"
     IN IF ~aborted[o] /\ CanRead(o)
        THEN /\ Suspend(o, "reading")
             /\ KeepTimer(o)
             /\ delimited' = [delimited EXCEPT ![o] = d]
             /\ UNCHANGED <<toServer, cancelled, ended>>
        ELSE Finally(o, ended[o], d)
  /\ UNCHANGED Rest

-----------------------------------------------------------------------------
\* Reading packets.

HasPacket(o) == Readable(via[o]) /\ toClient[via[o]] # <<>>
Incoming(o) == Head(toClient[via[o]]).type
Take(o) == toClient' = [toClient EXCEPT ![via[o]] = Tail(@)]
Reads(o, p) == pc[o] = p /\ HasPacket(o) /\ Take(o)
             /\ UNCHANGED <<full, server, locals>>

\* Packets that end the statement, even when the signal or the timer fired.
EndOfStream(o) ==
  /\ Reads(o, "reading") /\ Incoming(o) = "EndOfStream"
  /\ ended' = [ended EXCEPT ![o] = "eos"]
  /\ Suspend(o, "eos")
  /\ UNCHANGED <<toServer, cancelled, clock, delimited>>

ServerException(o) ==
  /\ Reads(o, "reading") /\ Incoming(o) = "Exception"
  /\ Finally(o, "exception", delimited[o])

\* Packets handed to the consumer, packets refused; the others are swallowed.
\* "Data" is a block with rows, "Progress" any packet both kinds of statement
\* hand over (ProfileInfo, ProfileEvents, Log), "TimezoneUpdate" any packet a
\* query swallows (a block without rows among them).
Yields(kind)  == IF kind = "query" THEN {"Data", "Progress"} ELSE {"Progress"}
Refuses(kind) == IF kind = "query" THEN {"TableColumns", "Pong"} ELSE {}

ReadPacket(o) ==
  /\ Reads(o, "reading") /\ Incoming(o) \notin {"EndOfStream", "Exception"}
  /\ IF Interrupted(o) \/ Incoming(o) \in Refuses(Kind[o]) THEN Throw(o)
     ELSE IF Incoming(o) \in Yields(Kind[o])
     THEN Suspend(o, "yielded") /\ UNCHANGED <<toServer, fate>>
     ELSE Read(o, "reading")

\* sendInsertQueryAndGetSchema() after its delimiter: an Exception is thrown
\* without setting receivedException.
SchemaPacket(o) ==
  /\ Reads(o, "schema")
  /\ CASE Incoming(o) = "Data" ->
            IF aborted[o] THEN Throw(o)
                          ELSE Suspend(o, "source") /\ UNCHANGED <<toServer, fate>>
       [] Incoming(o) \in {"Progress", "TableColumns"} ->
            IF cancelled[o] THEN Throw(o) ELSE Read(o, "schema")
       [] OTHER -> Throw(o)

\* drainPackets(): to the terminal packet of the statement.
DrainPacket(o) ==
  /\ Reads(o, "draining")
  /\ IF Incoming(o) \in {"EndOfStream", "Exception"}
     THEN Finish(o)
     ELSE Suspend(o, "draining") /\ UNCHANGED clock
  /\ UNCHANGED <<toServer, cancelled, ended, delimited>>

\* Mutant: the Cancel is written and nothing is drained.
CancelSentUndrained(o) ==
  /\ Written(o, "cancel")
  /\ Finish(o)
  /\ UNCHANGED <<Rest, toServer, cancelled, ended, delimited>>

\* The Cancel of an abandoned statement is out; drainPackets() returns at once
\* when the client was disconnected meanwhile.
CancelSent(o) ==
  /\ Written(o, "cancel")
  /\ IF socket = None THEN Finish(o) ELSE Drain(o)
  /\ UNCHANGED <<Rest, toServer, cancelled, ended, delimited>>

PingSent(o) ==
  /\ Written(o, "ping")
  /\ IF CanRead(o)
     THEN Suspend(o, "pong")
     ELSE busy' = FALSE /\ pc' = [pc EXCEPT ![o] = "done"] /\ UNCHANGED <<socket, net, via>>
  /\ UNCHANGED <<Rest, toServer, fate>>

\* Mutant: ping() forgets to release the client.
PongReadUnreleased(o) ==
  /\ Reads(o, "pong")
  /\ pc' = [pc EXCEPT ![o] = "done"]
  /\ UNCHANGED <<client, net, via, toServer, fate>>

\* A Pong, or an unexpected packet: both release the client.
PongRead(o) ==
  /\ Reads(o, "pong")
  /\ busy' = FALSE
  /\ pc' = [pc EXCEPT ![o] = "done"]
  /\ UNCHANGED <<socket, net, via, toServer, fate>>

\* An await rejects: its socket has closed under it, or has ended and takes no
\* more, or has nothing left to read.  A Ping that is answered is written.
Rejects(o) ==
  \/ net[via[o]] = "closed"
  \/ net[via[o]] = "ended" /\ (pc[o] \in Writing \ {"ping"} \/ toClient[via[o]] = <<>>)
AwaitFails(o) ==
  /\ Awaiting(o) /\ Rejects(o)
  /\ CASE Kind[o] = "ping" ->
            /\ busy' = FALSE
            /\ pc' = [pc EXCEPT ![o] = "done"]
            /\ UNCHANGED <<socket, net, via, toServer, fate>>
       [] Kind[o] # "ping" /\ pc[o] \in {"cancel", "draining"} ->
            DrainFailed(o) /\ UNCHANGED <<toServer, cancelled, ended, delimited>>
       [] OTHER -> Throw(o)
  /\ UNCHANGED Rest

\* readBlock() throws on the body of a Data packet (a type without a codec, a
\* corrupt block).  An error in the body starts a drain, which may meet a
\* block it cannot parse either.
DecodeFails(o) ==
  /\ \E p \in {"reading", "schema", "draining"} : Reads(o, p)
  /\ Incoming(o) = "Data"
  /\ IF pc[o] = "draining"
     THEN DrainFailed(o) /\ UNCHANGED <<toServer, cancelled, ended, delimited>>
     ELSE Throw(o)

-----------------------------------------------------------------------------
\* The consumer of the generator.

\* next() on the generator, which goes round the read loop again.
Resume(o) ==
  /\ Pulled(o, "yielded")
  /\ IF Interrupted(o) THEN Throw(o) ELSE Read(o, "reading")
  /\ UNCHANGED Rest

\* next() after the final packet, and return() or a break at any yield.
Return(o) ==
  /\ pc[o] \in {"yielded", "eos"}
  /\ Throw(o)
  /\ UNCHANGED Rest

-----------------------------------------------------------------------------
\* Signals and timers.

\* Mutant: removeEventListener is forgotten.
ListeningForever(o) == pc[o] # "idle"

\* The abort listener is there while the operation is.
Listening(o) == Active(o)

\* Mutant: the Cancel goes to whatever socket the client has.
TryCancelAnywhere(o) ==
  IF socket # None /\ ~cancelled[o]
  THEN /\ Write(socket, Msg("Cancel", o))
       /\ cancelled' = [cancelled EXCEPT ![o] = TRUE]
  ELSE UNCHANGED <<toServer, cancelled>>

\* The cancellation both abortHandler and the query timer attempt.
TryCancel(o) ==
  IF socket = own[o] /\ ~cancelled[o]
  THEN /\ Write(own[o], Msg("Cancel", o))
       /\ cancelled' = [cancelled EXCEPT ![o] = TRUE]
  ELSE UNCHANGED <<toServer, cancelled>>

Abort(o) ==
  /\ Kind[o] # "ping" /\ pc[o] # "idle" /\ ~aborted[o]
  /\ aborted' = [aborted EXCEPT ![o] = TRUE]
  /\ IF Listening(o) THEN TryCancel(o) ELSE UNCHANGED <<toServer, cancelled>>
  /\ UNCHANGED <<client, net, full, toClient, server, pc, via, own, sent,
                 clock, ended, delimited>>

QueryTimer(o) ==
  /\ clock[o] = "query"
  /\ clock' = [clock EXCEPT ![o] = "grace"]
  /\ TryCancel(o)
  /\ UNCHANGED <<client, net, full, toClient, server, pc, via, locals, ended, delimited>>

Destroy(c) == net' = [net EXCEPT ![c] = IF Readable(c) THEN "destroyed" ELSE @]

\* Mutant: the grace period ends without closing the socket.
GraceTimerLenient(o) ==
  /\ clock[o] = "grace"
  /\ clock' = [clock EXCEPT ![o] = "spent"]
  /\ UNCHANGED <<client, net, wire, pc, via, locals, cancelled, ended, delimited>>

GraceTimer(o) ==
  /\ clock[o] = "grace"
  /\ clock' = [clock EXCEPT ![o] = "spent"]
  /\ IF socket = own[o] THEN Destroy(own[o]) ELSE UNCHANGED net
  /\ UNCHANGED <<client, wire, pc, via, locals, cancelled, ended, delimited>>

\* Mutant: drainPackets() has no timer.
DrainTimerNever(o) == pc[o] = "draining" /\ FALSE /\ UNCHANGED vars

\* The timer of drainPackets() destroys the socket it started draining.
DrainTimer(o) ==
  /\ pc[o] = "draining" /\ Readable(via[o])
  /\ Destroy(via[o])
  /\ UNCHANGED <<client, wire, pc, via, locals, fate>>

-----------------------------------------------------------------------------
\* The ClickHouse server, as the client relies on it.  It answers one statement
\* at a time: external tables (or nothing) up to the delimiter, then for an
\* insert the header block and the data up to the delimiter, then the result,
\* closed by exactly one EndOfStream or Exception (which may come in the middle
\* of the data).  A Cancel brings the result forward.  Client packets that no
\* longer fit (data sent after a Cancel or an Exception, a Cancel after the
\* result) are skipped.

Enter(c, phase, o) == server' = [server EXCEPT ![c] = [phase |-> phase, op |-> o, chat |-> 0]]
Reply(c, type) == toClient' = [toClient EXCEPT ![c] = Append(@, Msg(type, server[c].op))]

ServerReceive(c) ==
  /\ net[c] = "open" /\ toServer[c] # <<>>
  /\ toServer' = [toServer EXCEPT ![c] = Tail(@)]
  /\ LET m == Head(toServer[c])
         phase == server[c].phase
     IN CASE m.type = "Query" /\ phase = "idle" ->
               Enter(c, "tables", m.op) /\ UNCHANGED toClient
          [] m.type = "Ping" /\ phase = "idle" ->
               /\ toClient' = [toClient EXCEPT ![c] = Append(@, Msg("Pong", m.op))]
               /\ UNCHANGED server
          [] m.type = "Delimiter" /\ phase = "tables" ->
               /\ Enter(c, IF Kind[server[c].op] = "insert" THEN "plan" ELSE "run", server[c].op)
               /\ UNCHANGED toClient
          [] m.type \in {"Delimiter", "Cancel"} /\ phase = "receive" ->
               Enter(c, "run", server[c].op) /\ UNCHANGED toClient
          [] m.type = "Cancel" /\ phase \in {"tables", "plan"} ->
               Enter(c, "run", server[c].op) /\ UNCHANGED toClient
          [] OTHER -> UNCHANGED <<toClient, server>>
  /\ UNCHANGED <<client, net, full, pc, via, locals, fate>>

\* Header of an insert's target table: its columns, as an empty Data block.
ServerHeader(c) ==
  /\ net[c] = "open" /\ server[c].phase = "plan"
  /\ Reply(c, "Data")
  /\ Enter(c, "receive", server[c].op)
  /\ UNCHANGED <<client, net, full, toServer, pc, via, locals, fate>>

ServerChat(c) ==
  /\ net[c] = "open" /\ server[c].phase \in {"plan", "run"} /\ server[c].chat < MaxChatter
  /\ \E type \in Chatter :
        /\ server[c].phase = "plan" => type # "Data"
        /\ Reply(c, type)
  /\ server' = [server EXCEPT ![c].chat = @ + 1]
  /\ UNCHANGED <<client, net, full, toServer, pc, via, locals, fate>>

ServerFinish(c) ==
  /\ net[c] = "open"
  /\ \/ server[c].phase = "run" /\ Reply(c, "EndOfStream")
     \/ server[c].phase \in {"plan", "receive", "run"} /\ Reply(c, "Exception")
  /\ server' = [server EXCEPT ![c] = Quiet]
  /\ UNCHANGED <<client, net, full, toServer, pc, via, locals, fate>>

-----------------------------------------------------------------------------
Connection(c) == Connect(c) \/ Hangup(c) \/ CloseEvent(c) \/ Stall(c) \/ Unstall(c)

Server(c) == ServerReceive(c) \/ ServerHeader(c) \/ ServerChat(c) \/ ServerFinish(c)

\* What runs by itself once an operation has started.
Continue(o) ==
  \/ QuerySent(o) \/ InsertSent(o) \/ InsertBegun(o) \/ BatchSent(o) \/ DelimiterSent(o)
  \/ EndOfStream(o) \/ ServerException(o) \/ ReadPacket(o) \/ SchemaPacket(o)
  \/ DrainPacket(o) \/ CancelSent(o) \/ PingSent(o) \/ PongRead(o)
  \/ AwaitFails(o) \/ DecodeFails(o)

Timers(o) == QueryTimer(o) \/ GraceTimer(o) \/ DrainTimer(o)

\* What the application does.
Source(o)   == BatchReady(o) \/ SourceDone(o) \/ SourceFails(o)
Consumer(o) == Resume(o) \/ Return(o)
Begin(o)    == StartOp(o) \/ StartPing(o)

Next ==
  \/ Close
  \/ \E c \in Sockets : Connection(c) \/ Server(c)
  \/ \E o \in Ops : Begin(o) \/ Continue(o) \/ Timers(o) \/ Source(o) \/ Consumer(o) \/ Abort(o)

Spec == Init /\ [][Next]_vars

\* JavaScript runs every continuation and every timer, the OS reports every
\* close, and the consumer of a generator goes on or gives up.  Nothing makes
\* the server answer, a stalled peer resume, or the user's iterable produce.
ClientFairness ==
  /\ \A o \in Ops : /\ WF_vars(Continue(o)) /\ WF_vars(Consumer(o))
                    /\ WF_vars(QueryTimer(o)) /\ WF_vars(GraceTimer(o))
                    /\ WF_vars(DrainTimer(o))
  /\ \A c \in Sockets : WF_vars(CloseEvent(c))
FairSpec == Spec /\ ClientFairness

\* What the application and the server may add: a source that keeps producing, a
\* server that keeps answering.  A "drain" event resolves the write that waits
\* for it even when the peer stalls again at once: hence strong fairness.
Served ==
  /\ \A c \in Sockets : /\ WF_vars(ServerReceive(c)) /\ WF_vars(Unstall(c))
                        /\ WF_vars(ServerHeader(c) \/ ServerFinish(c))
  /\ \A o \in Ops : WF_vars(Source(o)) /\ SF_vars(Continue(o))

-----------------------------------------------------------------------------
\* Safety.

Current(o) == Active(o) /\ own[o] = socket

\* busy is exactly ownership: at most one operation is under way on the
\* client's connection, and the client is busy when and only when there is one
\* (the busy checks, the guarded releases of both finally blocks, and ping's
\* unguarded one).
OneOwner ==
  /\ \A o, p \in Ops : Current(o) /\ Current(p) => o = p
  /\ busy <=> \E o \in Ops : Current(o)

\* TcpClient implements TcpSession: what its busy flag, its start sockets and its
\* guarded releases amount to is one connection with one owner at a time, no
\* operation owning a second time and none taking over from another unreleased.
Owner == IF \E o \in Ops : Current(o) THEN CHOOSE o \in Ops : Current(o) ELSE None
Session == INSTANCE TcpSession WITH
  connection <- socket,
  owner <- Owner,
  begun <- {o \in Ops : pc[o] # "idle"},
  used <- {c \in Sockets : net[c] # "unused"}
ImplementsSession == Session!Spec

\* A connection free for the next operation is clean: no packet of an earlier
\* operation is left to read, and the server is not at work on one (the drain
\* of abandoned, aborted and timed-out statements, or else a closed socket).
CleanReuse ==
  socket # None /\ Readable(socket) /\ ~busy =>
    /\ toClient[socket] = <<>>
    /\ server[socket].phase = "idle"
    /\ \A i \in DOMAIN toServer[socket] : toServer[socket][i].type \notin {"Query", "Ping"}

\* An operation that awaits a packet only has packets of its own before it.
OwnPackets ==
  \A o \in Ops : pc[o] \in Reading /\ Readable(via[o]) =>
    \A i \in DOMAIN toClient[via[o]] : toClient[via[o]][i].op = o

\* A statement reaches an idle server, and a Cancel reaches the statement it is
\* meant for or none at all, never the one that follows.
CancelOwn ==
  \A c \in Sockets : toServer[c] # <<>> =>
    LET m == Head(toServer[c])
    IN /\ m.type \in {"Query", "Ping"} => server[c].phase = "idle"
       /\ m.type = "Cancel" => server[c].op \in {None, m.op}

\* "a stale operation never touches a successor connection": what is written to
\* a connection, and who reads it, are operations that started on it.
SuccessorUntouched ==
  /\ \A c \in Sockets : \A i \in DOMAIN toServer[c] : own[toServer[c][i].op] = c
  /\ \A o \in Ops : pc[o] \in Reading => via[o] = own[o]

\* No socket outlives its use: the only live one is the client's.
NoLeakedSocket == \A c \in Sockets : Readable(c) => c = socket

\* An operation that ends after its connection was replaced leaves the client
\* and every connection as they are.
StaleEndsQuietly ==
  [][\A o \in Ops : Active(o) /\ ~Active(o)' /\ own[o] # socket =>
       UNCHANGED <<client, net, toServer>>]_vars

\* A query that has reached the end of its stream no longer loses the
\* connection to its own timers.
TimersSpareFinished ==
  [][\A o \in Ops : ended[o] = "eos" /\ clock[o] = "grace" /\ clock'[o] = "spent" =>
       UNCHANGED net]_vars

-----------------------------------------------------------------------------
\* Liveness.

\* However silent the server, a query whose timer was started ends.
TimedQueryEnds == \A o \in Ops : clock[o] # "off" ~> pc[o] = "done"

\* However silent the server, a drain ends: with the terminal packet, or with
\* the socket destroyed.
DrainEnds == \A o \in Ops : pc[o] = "draining" ~> pc[o] = "done"

\* With a server that answers and a source that produces, the client is never
\* busy for good.
BusyEnds == Served => (busy ~> ~busy)
=============================================================================
