-------------------------- MODULE TcpChannelProofs --------------------------
(***************************************************************************)
(* Theorems about what passes over the connections of TcpClient, for every *)
(* set of operations and sockets: the next statement meets a clean         *)
(* connection (CleanReuse), an operation only has its own packets before   *)
(* it (OwnPackets), a Cancel reaches its own statement or none             *)
(* (CancelOwn), a successor connection is left alone (SuccessorUntouched), *)
(* and an operation of a connection that is gone ends without a trace      *)
(* (StaleEndsQuietly).                                                     *)
(*                                                                         *)
(* They need that the application does not go on with an operation once    *)
(* the client has reconnected (StaleResume).  The invariant describes the  *)
(* conversation on each socket, whose packets it carries, and whose are on *)
(* the client's own socket.  What nearly every step of an operation says   *)
(* and hears is described once (Manners), and a step that keeps to that    *)
(* keeps the invariant.                                                    *)
(***************************************************************************)
EXTENDS TcpClientProofs, SequenceTheorems

Openers  == {"Query", "Ping"}
Fillers  == {"Data", "Delimiter", "Cancel"}
Terminal == {"EndOfStream", "Exception", "Pong"}

-----------------------------------------------------------------------------
\* Streams of packets.

NoOpener(s) == \A i \in 1 .. Len(s) : s[i].type \notin Openers
AllOf(s, o) == \A i \in 1 .. Len(s) : s[i].op = o
OpenedBy(s, o) == \A i \in 1 .. Len(s) : s[i].type \in Openers => s[i].op = o

\* What opens a statement is followed by packets of that statement only.
Opens(s) ==
  \A i \in 1 .. Len(s) : s[i].type \in Openers =>
    \A j \in i + 1 .. Len(s) : s[j].op = s[i].op /\ s[j].type \notin Openers

\* What ends a result is the last of it.
Ends(s) == \A i \in 1 .. Len(s) : s[i].type \in Terminal => i = Len(s)

\* Pings are answered by a Pong, and nothing else is.
NoPingQuery(s) == \A i \in 1 .. Len(s) : s[i].type = "Query" => Kind[s[i].op] # "ping"
OnlyPongs(s) == \A i \in 1 .. Len(s) : s[i].type # "Pong" => Kind[s[i].op] # "ping"

LEMMA AppendFacts ==
  ASSUME NEW S, NEW s \in Seq(S), NEW e \in S
  PROVE  /\ Append(s, e) \in Seq(S) /\ Len(s) \in Nat
         /\ Len(Append(s, e)) = Len(s) + 1
         /\ \A i \in 1 .. Len(s) : Append(s, e)[i] = s[i]
         /\ Append(s, e)[Len(s) + 1] = e
<1>1. Len(s) \in Nat
  BY LenProperties
<1>2. /\ Append(s, e) \in Seq(S) /\ Len(Append(s, e)) = Len(s) + 1
      /\ \A i \in 1 .. Len(s) : Append(s, e)[i] = s[i]
      /\ Append(s, e)[Len(s) + 1] = e
  BY AppendProperties
<1> QED BY <1>1, <1>2

LEMMA TailFacts ==
  ASSUME NEW S, NEW s \in Seq(S), s # <<>>
  PROVE  /\ Tail(s) \in Seq(S) /\ Len(s) \in Nat \ {0} /\ Len(Tail(s)) = Len(s) - 1
         /\ \A i \in 1 .. Len(s) - 1 : Tail(s)[i] = s[i + 1]
         /\ Head(s) = s[1]
<1>1. Len(s) \in Nat \ {0}
  BY EmptySeq
<1>2. /\ Tail(s) \in Seq(S) /\ Len(Tail(s)) = Len(s) - 1
      /\ \A i \in 1 .. Len(Tail(s)) : Tail(s)[i] = s[i + 1]
  BY HeadTailProperties
<1>3. Head(s) = s[1]
  OBVIOUS
<1> QED BY <1>1, <1>2, <1>3

\* A filler adds no opener, and follows what was opened by its own operation.
LEMMA PutFacts ==
  ASSUME NEW S, NEW s \in Seq(S), NEW e \in S, e.type \notin Openers
  PROVE  /\ NoOpener(Append(s, e)) <=> NoOpener(s)
         /\ AllOf(s, e.op) => AllOf(Append(s, e), e.op)
         /\ \A o : OpenedBy(s, o) => OpenedBy(Append(s, e), o)
         /\ Opens(s) /\ OpenedBy(s, e.op) => Opens(Append(s, e))
         /\ NoPingQuery(s) => NoPingQuery(Append(s, e))
<1> DEFINE l == Len(s)
           t == Append(s, e)
<1>1. /\ l \in Nat /\ Len(t) = l + 1 /\ t[l + 1] = e
      /\ \A i \in 1 .. l : t[i] = s[i]
  BY AppendFacts
<1>2. \A i \in 1 .. l + 1 : i \in 1 .. l \/ i = l + 1
  BY <1>1
<1>3. e.type # "Query"
  BY DEF Openers
<1> HIDE DEF l, t
<1>4. 1 .. l \subseteq 1 .. l + 1 /\ l + 1 \in 1 .. l + 1
  BY <1>1
<1>5. NoOpener(t) <=> NoOpener(s)
  BY <1>1, <1>2, <1>4 DEF NoOpener, l
<1>6. AllOf(s, e.op) => AllOf(t, e.op)
  BY <1>1, <1>2 DEF AllOf, l
<1>7. \A o : OpenedBy(s, o) => OpenedBy(t, o)
  BY <1>1, <1>2 DEF OpenedBy, l
<1>8. ASSUME Opens(s), OpenedBy(s, e.op) PROVE Opens(t)
  <2>1. SUFFICES ASSUME NEW i \in 1 .. l + 1, t[i].type \in Openers, NEW j \in i + 1 .. l + 1
                 PROVE  t[j].op = t[i].op /\ t[j].type \notin Openers
    BY <1>1 DEF Opens
  <2>2. i \in 1 .. l
    BY <1>1, <1>2, <2>1
  <2>3. t[i] = s[i] /\ s[i].type \in Openers /\ s[i].op = e.op
    BY <1>1, <1>8, <2>1, <2>2 DEF OpenedBy, l
  <2>4. CASE j = l + 1
    BY <1>1, <2>3, <2>4
  <2>5. CASE j # l + 1
    <3>1. j \in i + 1 .. l /\ j \in 1 .. l
      BY <1>1, <2>1, <2>2, <2>5
    <3> QED BY <1>1, <1>8, <2>2, <2>3, <3>1 DEF Opens, l
  <2> QED BY <2>4, <2>5
<1>9. NoPingQuery(s) => NoPingQuery(t)
  BY <1>1, <1>2, <1>3 DEF NoPingQuery, l
<1> QED BY <1>5, <1>6, <1>7, <1>8, <1>9 DEF t

\* What is said of all of a stream is said of its tail; what ends a result was
\* all there was.
LEMMA TakeFacts ==
  ASSUME NEW S, NEW s \in Seq(S), s # <<>>
  PROVE  /\ NoOpener(s) => NoOpener(Tail(s))
         /\ \A o : AllOf(s, o) => AllOf(Tail(s), o)
         /\ \A o : OpenedBy(s, o) => OpenedBy(Tail(s), o)
         /\ Opens(s) => Opens(Tail(s))
         /\ Ends(s) => Ends(Tail(s))
         /\ NoPingQuery(s) => NoPingQuery(Tail(s))
         /\ OnlyPongs(s) => OnlyPongs(Tail(s))
         /\ Ends(s) /\ Head(s).type \in Terminal => Tail(s) = <<>>
         /\ Opens(s) /\ Head(s).type \in Openers =>
              NoOpener(Tail(s)) /\ AllOf(Tail(s), Head(s).op)
<1> DEFINE l == Len(s)
           t == Tail(s)
<1>1. /\ l \in Nat \ {0} /\ Len(t) = l - 1 /\ Head(s) = s[1]
      /\ \A i \in 1 .. l - 1 : t[i] = s[i + 1]
      /\ t \in Seq(S)
  BY TailFacts
<1> HIDE DEF l, t
<1>2. \A i \in 1 .. l - 1 : i + 1 \in 1 .. l /\ i + 1 \in 2 .. l
  BY <1>1
<1>3. NoOpener(s) => NoOpener(t)
  BY <1>1, <1>2 DEF NoOpener, l
<1>4. \A o : AllOf(s, o) => AllOf(t, o)
  BY <1>1, <1>2 DEF AllOf, l
<1>5. \A o : OpenedBy(s, o) => OpenedBy(t, o)
  BY <1>1, <1>2 DEF OpenedBy, l
<1>6. ASSUME Opens(s) PROVE Opens(t)
  <2>1. SUFFICES ASSUME NEW i \in 1 .. l - 1, t[i].type \in Openers, NEW j \in i + 1 .. l - 1
                 PROVE  t[j].op = t[i].op /\ t[j].type \notin Openers
    BY <1>1 DEF Opens
  <2>2. i + 1 \in 1 .. l /\ j + 1 \in (i + 1) + 1 .. l /\ j \in 1 .. l - 1
    BY <1>1
  <2>3. t[i] = s[i + 1] /\ t[j] = s[j + 1]
    BY <1>1, <2>2
  <2> QED BY <1>6, <2>1, <2>2, <2>3 DEF Opens, l
<1>7. ASSUME Ends(s) PROVE Ends(t)
  <2>1. SUFFICES ASSUME NEW i \in 1 .. l - 1, t[i].type \in Terminal PROVE i = l - 1
    BY <1>1 DEF Ends
  <2>2. i + 1 \in 1 .. l /\ s[i + 1].type \in Terminal
    BY <1>1, <2>1
  <2>3. i + 1 = l
    BY <1>7, <2>2 DEF Ends, l
  <2> QED BY <1>1, <2>3
<1>8. NoPingQuery(s) => NoPingQuery(t)
  BY <1>1, <1>2 DEF NoPingQuery, l
<1>9. OnlyPongs(s) => OnlyPongs(t)
  BY <1>1, <1>2 DEF OnlyPongs, l
<1>10. ASSUME Ends(s), Head(s).type \in Terminal PROVE t = <<>>
  <2>1. 1 \in 1 .. l /\ s[1].type \in Terminal
    BY <1>1, <1>10
  <2>2. 1 = l
    BY <1>10, <2>1 DEF Ends, l
  <2>3. Len(t) = 0
    BY <1>1, <2>2
  <2> QED BY <1>1, <2>3, EmptySeq
<1>11. ASSUME Opens(s), Head(s).type \in Openers PROVE NoOpener(t) /\ AllOf(t, Head(s).op)
  <2>1. 1 \in 1 .. l /\ s[1].type \in Openers /\ 1 + 1 = 2
    BY <1>1, <1>11
  <2>2. \A j \in 2 .. l : s[j].op = s[1].op /\ s[j].type \notin Openers
    BY <1>11, <2>1 DEF Opens, l
  <2>3. \A i \in 1 .. l - 1 : t[i].op = s[1].op /\ t[i].type \notin Openers
    BY <1>1, <1>2, <2>2
  <2> QED BY <1>1, <2>3 DEF NoOpener, AllOf
<1> QED BY <1>3, <1>4, <1>5, <1>6, <1>7, <1>8, <1>9, <1>10, <1>11 DEF t

\* A packet sent to an empty or unfinished stream.
LEMMA ReplyFacts ==
  ASSUME NEW S, NEW s \in Seq(S), NEW e \in S,
         \A i \in 1 .. Len(s) : s[i].type \notin Terminal
  PROVE  /\ Ends(Append(s, e))
         /\ e.type \notin Terminal =>
              \A i \in 1 .. Len(Append(s, e)) : Append(s, e)[i].type \notin Terminal
         /\ AllOf(s, e.op) => AllOf(Append(s, e), e.op)
         /\ OnlyPongs(s) /\ (e.type # "Pong" => Kind[e.op] # "ping") => OnlyPongs(Append(s, e))
<1> DEFINE l == Len(s)
           t == Append(s, e)
<1>1. /\ l \in Nat /\ Len(t) = l + 1 /\ t[l + 1] = e
      /\ \A i \in 1 .. l : t[i] = s[i]
  BY AppendFacts
<1>2. \A i \in 1 .. l : s[i].type \notin Terminal
  OBVIOUS
<1> HIDE DEF l, t
<1>3. \A i \in 1 .. l + 1 : i \in 1 .. l \/ i = l + 1
  BY <1>1
<1>4. Ends(t)
  BY <1>1, <1>2, <1>3 DEF Ends
<1>5. e.type \notin Terminal => \A i \in 1 .. Len(t) : t[i].type \notin Terminal
  BY <1>1, <1>2, <1>3
<1>6. AllOf(s, e.op) => AllOf(t, e.op)
  BY <1>1, <1>3 DEF AllOf, l
<1>7. OnlyPongs(s) /\ (e.type # "Pong" => Kind[e.op] # "ping") => OnlyPongs(t)
  BY <1>1, <1>3 DEF OnlyPongs, l
<1> QED BY <1>4, <1>5, <1>6, <1>7 DEF t

LEMMA EmptyFacts ==
  /\ NoOpener(<<>>) /\ Opens(<<>>) /\ Ends(<<>>) /\ NoPingQuery(<<>>) /\ OnlyPongs(<<>>)
  /\ \A o : AllOf(<<>>, o) /\ OpenedBy(<<>>, o)
<1>1. Len(<<>>) = 0 /\ 1 .. 0 = {}
  OBVIOUS
<1> QED BY <1>1 DEF NoOpener, Opens, Ends, NoPingQuery, OnlyPongs, AllOf, OpenedBy
-----------------------------------------------------------------------------
\* The inductive invariant.

\* Nothing of a statement is under way on c, in either direction.
Clean(c) == toClient[c] = <<>> /\ server[c].phase = "idle" /\ NoOpener(toServer[c])

\* A statement is on its way to the server, or the server is at work on it and
\* has not ended its result, or what is left of the result is on its way back:
\* one of the three, and with it packets of that statement only.
Conversation(c) ==
  /\ net[c] = "unused" => Clean(c) /\ toServer[c] = <<>>
  /\ net[c] = "ended" => server[c].phase = "idle" /\ toServer[c] = <<>>
  /\ server[c].phase = "idle" => server[c].op = None
  /\ server[c].phase # "idle" =>
       /\ NoOpener(toServer[c]) /\ AllOf(toServer[c], server[c].op)
       /\ \A i \in 1 .. Len(toClient[c]) : toClient[c][i].type \notin Terminal
       /\ Kind[server[c].op] # "ping"
  /\ ~NoOpener(toServer[c]) => server[c].phase = "idle" /\ toClient[c] = <<>>
  /\ Opens(toServer[c]) /\ NoPingQuery(toServer[c])
  /\ Ends(toClient[c]) /\ OnlyPongs(toClient[c])
Conversations == \A c \in Sockets : Conversation(c)

\* The conversation on the client's connection is its owner's, and is over when
\* the owner has seen the end of it.
Owned(o) ==
  /\ server[socket].op \in {None, o}
  /\ AllOf(toClient[socket], o)
  /\ OpenedBy(toServer[socket], o)
  /\ ended[o] # "no" => Clean(socket)
OwnTraffic ==
  socket # None /\ Readable(socket) => \A o \in Ops : Current(o) => Owned(o)
FreeClean == socket # None /\ Readable(socket) /\ ~busy => Clean(socket)

\* An await is on the operation's own connection, which nothing has replaced.
AwaitsOwn ==
  \A o \in Ops : Awaiting(o) => via[o] = own[o] /\ socket \in {own[o], None}
Unstarted == \A o \in Ops : pc[o] = "idle" => own[o] = None /\ ended[o] = "no"
Timed == \A o \in Ops : clock[o] # "off" => Active(o) /\ Kind[o] # "ping"

\* What is written to a connection comes from operations that started on it.
Addressed == \A c \in Sockets : \A i \in 1 .. Len(toServer[c]) : own[toServer[c][i].op] = c

Places == AwaitsOwn /\ Unstarted /\ Timed
ChInv == Inv /\ Conversations /\ OwnTraffic /\ FreeClean /\ Addressed /\ Places
-----------------------------------------------------------------------------
\* What a step of an operation says and hears.

Puts(o) ==
  \/ UNCHANGED toServer
  \/ socket = own[o] /\ \E type \in Fillers : Write(socket, Msg(type, o))

Takes(o) ==
  \/ UNCHANGED toClient
  \/ socket = own[o] /\ via[o] = own[o] /\ HasPacket(o) /\ Take(o)

LEMMA OwnSocket ==
  ASSUME ChInv, NEW o \in Ops, Active(o)
  PROVE  own[o] \in Sockets /\ own[o] # None
BY OpsAssumption DEF ChInv, Inv, TypeOK

\* What a step has put on a connection of its own.
LEMMA PutsWhat ==
  ASSUME ChInv, NEW o \in Ops, Active(o), Puts(o), NEW c \in Sockets
  PROVE  \/ toServer'[c] = toServer[c]
         \/ /\ c = own[o] /\ socket = c /\ net[c] = "open"
            /\ \E e \in ClientPackets : /\ e.type \in Fillers /\ e.op = o
                                        /\ toServer'[c] = Append(toServer[c], e)
<1>1. SUFFICES ASSUME NEW type \in Fillers, Write(socket, Msg(type, o)), socket = own[o],
                      net[socket] = "open"
               PROVE  \/ toServer'[c] = toServer[c]
                      \/ /\ c = own[o] /\ socket = c /\ net[c] = "open"
                         /\ \E e \in ClientPackets :
                              /\ e.type \in Fillers /\ e.op = o
                              /\ toServer'[c] = Append(toServer[c], e)
  BY DEF Puts, Write
<1>2. Msg(type, o) \in ClientPackets /\ Msg(type, o).type = type /\ Msg(type, o).op = o
  BY DEF Msg, ClientPackets, Packet, Fillers
<1>3. toServer' = [toServer EXCEPT ![socket] = Append(@, Msg(type, o))]
  BY <1>1 DEF Write
<1>4. toServer \in [Sockets -> Seq(ClientPackets)]
  BY DEF ChInv, Inv, TypeOK
<1>5. CASE c = socket
  <2>1. toServer'[c] = Append(toServer[c], Msg(type, o))
    BY <1>3, <1>4, <1>5
  <2> QED BY <1>1, <1>2, <1>5, <2>1
<1>6. CASE c # socket
  BY <1>3, <1>4, <1>6
<1> QED BY <1>5, <1>6

LEMMA TakesWhat ==
  ASSUME ChInv, NEW o \in Ops, Active(o), Takes(o), NEW c \in Sockets
  PROVE  \/ toClient'[c] = toClient[c]
         \/ /\ c = own[o] /\ socket = c /\ Readable(c) /\ toClient[c] # <<>>
            /\ toClient'[c] = Tail(toClient[c])
<1>1. toClient \in [Sockets -> Seq(ServerPackets)]
  BY DEF ChInv, Inv, TypeOK
<1> QED BY <1>1 DEF Takes, HasPacket, Take

\* The conversations and their addressees survive what a step puts and takes.
LEMMA TalkSafe ==
  ASSUME ChInv, NEW o \in Ops, Active(o), Puts(o), Takes(o), UNCHANGED <<server, own>>,
         \A d \in Sockets : net'[d] \in {"unused", "ended"} => net'[d] = net[d],
         NEW c \in Sockets
  PROVE  /\ Conversation(c)'
         /\ \A i \in 1 .. Len(toServer'[c]) : own[toServer'[c][i].op] = c
         /\ NoOpener(toServer'[c]) <=> NoOpener(toServer[c])
         /\ toClient[c] = <<>> => toClient'[c] = <<>>
         /\ \A p : AllOf(toClient[c], p) => AllOf(toClient'[c], p)
         /\ \A p : OpenedBy(toServer[c], p) => OpenedBy(toServer'[c], p)
<1>1. /\ toServer[c] \in Seq(ClientPackets) /\ toClient[c] \in Seq(ServerPackets)
      /\ Conversation(c)
      /\ \A i \in 1 .. Len(toServer[c]) : own[toServer[c][i].op] = c
  BY DEF ChInv, Inv, TypeOK, Conversations, Addressed
\* what is put
<1>2. /\ NoOpener(toServer'[c]) <=> NoOpener(toServer[c])
      /\ server[c].phase # "idle" => AllOf(toServer'[c], server[c].op)
      /\ \A p : OpenedBy(toServer[c], p) => OpenedBy(toServer'[c], p)
      /\ Opens(toServer'[c]) /\ NoPingQuery(toServer'[c])
      /\ net[c] # "open" => toServer'[c] = toServer[c]
      /\ \A i \in 1 .. Len(toServer'[c]) : own[toServer'[c][i].op] = c
  <2>1. CASE toServer'[c] = toServer[c]
    BY <1>1, <2>1 DEF Conversation
  <2>2. CASE toServer'[c] # toServer[c]
    <3>1. /\ c = own[o] /\ socket = c /\ net[c] = "open"
          /\ \E e \in ClientPackets : /\ e.type \in Fillers /\ e.op = o
                                      /\ toServer'[c] = Append(toServer[c], e)
      BY <2>2, PutsWhat
    <3>2. PICK e \in ClientPackets : /\ e.type \in Fillers /\ e.op = o
                                     /\ toServer'[c] = Append(toServer[c], e)
      BY <3>1
    <3>3. e.type \notin Openers
      BY <3>2 DEF Fillers, Openers
    <3>4. Owned(o)
      BY <3>1, OpsAssumption DEF ChInv, OwnTraffic, Current, Readable
    <3>5. server[c].phase # "idle" => server[c].op = o
      BY <3>1, <3>4, OpsAssumption DEF ChInv, Inv, ServerBusyWith, Owned
    <3>6. OpenedBy(toServer[c], e.op)
      BY <3>1, <3>2, <3>4 DEF Owned
    <3> DEFINE s == toServer[c]
    <3>7. /\ NoOpener(Append(s, e)) <=> NoOpener(s)
          /\ AllOf(s, e.op) => AllOf(Append(s, e), e.op)
          /\ \A p : OpenedBy(s, p) => OpenedBy(Append(s, e), p)
          /\ Opens(s) /\ OpenedBy(s, e.op) => Opens(Append(s, e))
          /\ NoPingQuery(s) => NoPingQuery(Append(s, e))
      BY <1>1, <3>3, PutFacts
    <3>8. \A i \in 1 .. Len(Append(s, e)) : own[Append(s, e)[i].op] = c
      <4>1. /\ Len(s) \in Nat /\ Len(Append(s, e)) = Len(s) + 1
            /\ \A i \in 1 .. Len(s) : Append(s, e)[i] = s[i]
            /\ Append(s, e)[Len(s) + 1] = e
        BY <1>1, AppendFacts
      <4> SUFFICES ASSUME NEW i \in 1 .. Len(s) + 1 PROVE own[Append(s, e)[i].op] = c
        BY <4>1
      <4>2. CASE i = Len(s) + 1
        BY <3>1, <3>2, <4>1, <4>2
      <4>3. CASE i # Len(s) + 1
        <5>1. i \in 1 .. Len(s)
          BY <4>1, <4>3
        <5> QED BY <1>1, <4>1, <5>1
      <4> QED BY <4>2, <4>3
    <3> QED BY <1>1, <3>1, <3>2, <3>5, <3>6, <3>7, <3>8 DEF Conversation
  <2> QED BY <2>1, <2>2
\* what is taken
<1>3. /\ toClient[c] = <<>> => toClient'[c] = <<>>
      /\ \A p : AllOf(toClient[c], p) => AllOf(toClient'[c], p)
      /\ Ends(toClient'[c]) /\ OnlyPongs(toClient'[c])
      /\ (\A i \in 1 .. Len(toClient[c]) : toClient[c][i].type \notin Terminal)
           => \A i \in 1 .. Len(toClient'[c]) : toClient'[c][i].type \notin Terminal
  <2>1. CASE toClient'[c] = toClient[c]
    BY <1>1, <2>1 DEF Conversation
  <2>2. CASE toClient'[c] # toClient[c]
    <3> DEFINE s == toClient[c]
    <3>1. s # <<>> /\ toClient'[c] = Tail(s)
      BY <2>2, TakesWhat
    <3>2. /\ \A p : AllOf(s, p) => AllOf(Tail(s), p)
          /\ Ends(s) => Ends(Tail(s))
          /\ OnlyPongs(s) => OnlyPongs(Tail(s))
      BY <1>1, <3>1, TakeFacts
    <3>3. /\ Len(s) \in Nat \ {0} /\ Len(Tail(s)) = Len(s) - 1
          /\ \A i \in 1 .. Len(s) - 1 : Tail(s)[i] = s[i + 1]
      BY <1>1, <3>1, TailFacts
    <3>4. \A i \in 1 .. Len(s) - 1 : i + 1 \in 1 .. Len(s)
      BY <3>3
    <3>5. (\A i \in 1 .. Len(s) : s[i].type \notin Terminal)
           => \A i \in 1 .. Len(Tail(s)) : Tail(s)[i].type \notin Terminal
      BY <3>3, <3>4
    <3> QED BY <1>1, <3>1, <3>2, <3>5 DEF Conversation
  <2> QED BY <2>1, <2>2
<1>4. Conversation(c)'
  BY <1>1, <1>2, <1>3 DEF Conversation, Clean
<1> QED BY <1>2, <1>3, <1>4
-----------------------------------------------------------------------------
\* Nearly every step of an operation has these manners.

\* Nothing of the operation's statement is left on its connection.
Settled(o) ==
  socket = own[o] /\ Readable(socket) =>
    toClient'[socket] = <<>> /\ server[socket].phase = "idle" /\ NoOpener(toServer[socket])

Manners(o) ==
  /\ Puts(o) /\ Takes(o)
  /\ Awaiting(o)' => socket = own[o]
  /\ \A q \in Ops \ {o} : clock'[q] = clock[q] /\ ended'[q] = ended[q]
  /\ clock'[o] # "off" => pc'[o] # "done" /\ Kind[o] # "ping"
  /\ (pc'[o] = "done" \/ ended'[o] # ended[o]) /\ socket' = own[o] => Settled(o)

Step(o) == OpStep(o) \/ PingWaits(o) \/ PingEnds(o)

LEMMA StepOutcome ==
  ASSUME ChInv, NEW o \in Ops, Step(o)
  PROVE  /\ Active(o) /\ UNCHANGED <<server, own>>
         /\ \A q \in Ops \ {o} : pc'[q] = pc[q] /\ via'[q] = via[q]
         /\ pc'[o] # "idle"
         /\ pc'[o] # "done" => UNCHANGED <<client, net>> /\ via'[o] = socket
         /\ UNCHANGED <<socket, net>> \/ (socket = own[o] /\ Teardown)
         /\ busy' = IF pc'[o] = "done" /\ socket = own[o] THEN FALSE ELSE busy
<1>0. pc \in [Ops -> PCs] /\ via \in [Ops -> Sockets \cup {None}] /\ Inv
  BY DEF ChInv, Inv, TypeOK
<1>1. CASE OpStep(o)
  <2>1. Active(o)
    BY <1>0, <1>1, AtPoint DEF OpStep
  <2>2. CASE Stays(o)
    <3>1. PICK p \in StayPoints : pc' = [pc EXCEPT ![o] = p]
      BY <2>2 DEF Stays
    <3>2. pc'[o] \notin {"idle", "done"}
      BY <1>0, <3>1 DEF StayPoints, Writing, Reading, Suspended
    <3> QED BY <1>0, <1>1, <2>1, <2>2, <3>1, <3>2 DEF Stays, OpStep, client
  <2>3. CASE Leaves(o)
    BY <1>0, <1>1, <2>1, <2>3 DEF Leaves, OpStep
  <2>4. CASE Drops(o)
    BY <1>0, <1>1, <2>1, <2>4 DEF Drops, Teardown, OpStep
  <2> QED BY <1>1, <2>2, <2>3, <2>4 DEF OpStep, Moves
<1>2. CASE PingWaits(o)
  BY <1>0, <1>2 DEF PingWaits, Suspend, Active, client, Rest, locals
<1>3. CASE PingEnds(o)
  <2>1. Active(o) /\ Kind[o] = "ping"
    BY <1>0, <1>3 DEF PingEnds, Inv, Ownership, PingsApart, Active
  <2>2. socket \in {own[o], None}
    BY <1>0, <2>1 DEF Inv, Ownership, PingsApart
  <2>3. socket # own[o] => busy = FALSE
    BY <1>0, <2>2, OpsAssumption DEF Inv, Ownership, OneOwner, Current, TypeOK
  <2> QED BY <1>0, <1>3, <2>1, <2>3 DEF PingEnds, Releases, locals
<1> QED BY <1>1, <1>2, <1>3 DEF Step

LEMMA MannersSafe ==
  ASSUME ChInv, Inv', NEW o \in Ops, Step(o), Manners(o)
  PROVE  ChInv'
<1>1. /\ Active(o) /\ UNCHANGED <<server, own>>
      /\ \A q \in Ops \ {o} : pc'[q] = pc[q] /\ via'[q] = via[q]
      /\ pc'[o] # "idle"
      /\ pc'[o] # "done" => UNCHANGED <<client, net>> /\ via'[o] = socket
      /\ UNCHANGED <<socket, net>> \/ (socket = own[o] /\ Teardown)
      /\ busy' = IF pc'[o] = "done" /\ socket = own[o] THEN FALSE ELSE busy
  BY StepOutcome
<1>2. /\ socket' \in {socket, None}
      /\ socket' # None => socket' = socket /\ net' = net
      /\ \A d \in Sockets : net'[d] \in {"unused", "ended"} => net'[d] = net[d]
  BY <1>1 DEF Teardown, Readable
<1>3. Puts(o) /\ Takes(o)
  BY DEF Manners
<1>4. \A c \in Sockets :
         /\ Conversation(c)'
         /\ \A i \in 1 .. Len(toServer'[c]) : own[toServer'[c][i].op] = c
         /\ NoOpener(toServer'[c]) <=> NoOpener(toServer[c])
         /\ toClient[c] = <<>> => toClient'[c] = <<>>
         /\ \A p : AllOf(toClient[c], p) => AllOf(toClient'[c], p)
         /\ \A p : OpenedBy(toServer[c], p) => OpenedBy(toServer'[c], p)
  BY <1>1, <1>2, <1>3, TalkSafe
<1>5. Conversations' /\ Addressed'
  BY <1>1, <1>4 DEF Conversations, Addressed
<1>6. /\ socket \in Sockets \cup {None}
      /\ \A q \in Ops : Active(q)' => Active(q)
      /\ \A q \in Ops : Current(q)' /\ socket' # None => Current(q)
  BY <1>1, <1>2 DEF ChInv, Inv, TypeOK, Current, Active
<1>7. OwnTraffic'
  <2> SUFFICES ASSUME socket' # None, Readable(socket)', NEW q \in Ops, Current(q)'
               PROVE  Owned(q)'
    BY DEF OwnTraffic
  <2>1. /\ socket' = socket /\ socket \in Sockets /\ Readable(socket) /\ Current(q)
        /\ Owned(q)
    BY <1>2, <1>6 DEF ChInv, OwnTraffic, Readable
  <2>2. Clean(socket) => Clean(socket)'
    BY <1>1, <1>4, <2>1 DEF Clean
  <2>3. ended'[q] # "no" => Clean(socket)'
    <3>1. CASE ended'[q] = ended[q]
      BY <2>1, <2>2, <3>1 DEF Owned
    <3>2. CASE ended'[q] # ended[q]
      <4>1. q = o
        BY <3>2 DEF Manners
      <4>2. Settled(o)
        BY <2>1, <3>2, <4>1 DEF Manners, Current
      <4> QED BY <1>1, <1>4, <2>1, <4>1, <4>2 DEF Settled, Current, Clean
    <3> QED BY <3>1, <3>2
  <2> QED BY <1>1, <1>4, <2>1, <2>3 DEF Owned
<1>8. FreeClean'
  <2> SUFFICES ASSUME socket' # None, Readable(socket)', ~busy' PROVE Clean(socket)'
    BY DEF FreeClean
  <2>1. socket' = socket /\ socket \in Sockets /\ Readable(socket)
    BY <1>2, <1>6 DEF Readable
  <2>2. CASE ~busy
    BY <1>1, <1>4, <2>1, <2>2 DEF ChInv, FreeClean, Clean
  <2>3. CASE busy
    <3>1. pc'[o] = "done" /\ socket = own[o]
      BY <1>1, <2>3
    <3>2. Settled(o)
      BY <2>1, <3>1 DEF Manners
    <3> QED BY <1>1, <1>4, <2>1, <3>1, <3>2 DEF Settled, Clean
  <2> QED BY <2>2, <2>3
<1>9. AwaitsOwn'
  <2> SUFFICES ASSUME NEW q \in Ops, Awaiting(q)'
               PROVE  via'[q] = own'[q] /\ socket' \in {own'[q], None}
    BY DEF AwaitsOwn
  <2>1. CASE q = o
    <3>1. pc'[o] # "done"
      BY <2>1 DEF Awaiting, Writing, Reading
    <3>2. socket = own[o]
      BY <2>1 DEF Manners
    <3> QED BY <1>1, <2>1, <3>1, <3>2 DEF client
  <2>2. CASE q # o
    BY <1>1, <1>2, <2>2 DEF ChInv, Places, AwaitsOwn, Awaiting
  <2> QED BY <2>1, <2>2
<1>10. Unstarted'
  BY <1>1 DEF ChInv, Places, Unstarted, Manners
<1>11. Timed'
  BY <1>1 DEF ChInv, Places, Timed, Manners, Active
<1> QED BY <1>5, <1>7, <1>8, <1>9, <1>10, <1>11 DEF ChInv, Places
-----------------------------------------------------------------------------
\* The helpers the handlers end in have these manners.

\* Nobody else reads the connection of an operation under way.
LEMMA NotTaken ==
  ASSUME ChInv, NEW o \in Ops, Active(o), socket = own[o]
  PROVE  ~ReaderTaken(o)
<1> SUFFICES ASSUME NEW p \in Ops \ {o}, pc[p] \in Reading, via[p] = socket PROVE FALSE
  BY DEF ReaderTaken
<1>1. Active(p) /\ Awaiting(p)
  BY DEF Active, Awaiting, Reading
<1>2. via[p] = own[p]
  BY <1>1 DEF ChInv, Places, AwaitsOwn
<1>3. Current(p) /\ Current(o)
  BY <1>1, <1>2 DEF Current
<1> QED BY <1>3 DEF ChInv, Inv, Ownership, OneOwner

\* Once the end of the stream has been seen, there is nothing to take.
LEMMA EndedSettled ==
  ASSUME ChInv, NEW o \in Ops, Active(o), Takes(o), ended[o] # "no"
  PROVE  Settled(o)
<1> SUFFICES ASSUME socket = own[o], Readable(socket)
             PROVE  /\ toClient'[socket] = <<>> /\ server[socket].phase = "idle"
                    /\ NoOpener(toServer[socket])
  BY DEF Settled
<1>1. own[o] \in Sockets /\ own[o] # None
  BY OwnSocket
<1>2. Clean(socket)
  BY <1>1 DEF ChInv, OwnTraffic, Current, Owned
<1>3. toClient'[socket] = <<>>
  BY <1>1, <1>2, TakesWhat DEF Clean
<1> QED BY <1>2, <1>3 DEF Clean

\* The packet that ends a result is the last of the conversation.
LEMMA TerminalSettled ==
  ASSUME ChInv, NEW o \in Ops, Active(o), socket = own[o], via[o] = own[o],
         HasPacket(o), Take(o), Incoming(o) \in Terminal
  PROVE  Settled(o)
<1>1. own[o] \in Sockets /\ toClient \in [Sockets -> Seq(ServerPackets)]
  BY OwnSocket DEF ChInv, Inv, TypeOK
<1> DEFINE s == toClient[socket]
<1>2. /\ s \in Seq(ServerPackets) /\ s # <<>> /\ Head(s).type \in Terminal
      /\ toClient'[socket] = Tail(s)
  BY <1>1 DEF HasPacket, Take, Incoming
<1>3. Conversation(socket)
  BY <1>1 DEF ChInv, Conversations
<1>4. Tail(s) = <<>>
  BY <1>2, <1>3, TakeFacts DEF Conversation
<1>5. NoOpener(toServer[socket])
  BY <1>2, <1>3 DEF Conversation
<1>6. server[socket].phase = "idle"
  <2>1. Head(s) = s[1] /\ Len(s) \in Nat \ {0}
    BY <1>2, TailFacts
  <2>2. 1 \in 1 .. Len(s) /\ s[1].type \in Terminal
    BY <1>2, <2>1
  <2> QED BY <1>3, <2>2 DEF Conversation
<1> QED BY <1>2, <1>4, <1>5, <1>6 DEF Settled

\* A read takes from the operation's own connection, which is the client's.
LEMMA ReadsOwn ==
  ASSUME ChInv, NEW o \in Ops, NEW p \in Reading, Reads(o, p)
  PROVE  Active(o) /\ socket = own[o] /\ via[o] = own[o] /\ Takes(o)
<1>1. Active(o) /\ Awaiting(o)
  BY DEF Reads, Active, Awaiting, Reading
<1>2. via[o] = own[o] /\ own[o] \in Sockets
  BY <1>1, OwnSocket DEF ChInv, Places, AwaitsOwn
<1>3. Readable(own[o])
  BY <1>2 DEF Reads, HasPacket
<1>4. socket = own[o]
  BY <1>2, <1>3 DEF ChInv, Inv, Ownership, NoLeakedSocket
<1> QED BY <1>1, <1>2, <1>4 DEF Takes, Reads

\* What the operation notes about the end of its stream is true.
EndSeen(o) ==
  /\ \A q \in Ops \ {o} : ended'[q] = ended[q]
  /\ ended'[o] # ended[o] => Settled(o)

LEMMA FinishManners ==
  ASSUME ChInv, NEW o \in Ops, Puts(o), Takes(o), EndSeen(o), Finish(o), Settled(o)
  PROVE  Manners(o)
<1>1. pc \in [Ops -> PCs] /\ clock \in [Ops -> {"off", "query", "grace", "spent"}]
  BY DEF ChInv, Inv, TypeOK
<1>2. pc'[o] = "done" /\ clock'[o] = "off" /\ \A q \in Ops \ {o} : clock'[q] = clock[q]
  BY <1>1 DEF Finish, Done
<1> QED BY <1>2 DEF Manners, EndSeen, Awaiting, Writing, Reading

LEMMA TeardownManners ==
  ASSUME ChInv, NEW o \in Ops, Active(o), Puts(o), Takes(o), EndSeen(o), Teardown, Done(o)
  PROVE  Manners(o)
<1>1. pc \in [Ops -> PCs] /\ clock \in [Ops -> {"off", "query", "grace", "spent"}]
  BY DEF ChInv, Inv, TypeOK
<1>2. pc'[o] = "done" /\ clock'[o] = "off" /\ \A q \in Ops \ {o} : clock'[q] = clock[q]
  BY <1>1 DEF Done
<1>3. socket' # own[o]
  BY OwnSocket DEF Teardown
<1> QED BY <1>2, <1>3 DEF Manners, EndSeen, Awaiting, Writing, Reading

LEMMA DrainFailedManners ==
  ASSUME ChInv, NEW o \in Ops, Active(o), Puts(o), Takes(o), EndSeen(o), DrainFailed(o)
  PROVE  Manners(o)
<1>1. CASE socket = own[o]
  BY <1>1, TeardownManners DEF DrainFailed
<1>2. CASE socket # own[o]
  BY <1>2, FinishManners DEF DrainFailed, Settled
<1> QED BY <1>1, <1>2

\* An operation that suspends elsewhere than at an await, or on its own socket.
LEMMA WaitManners ==
  ASSUME ChInv, NEW o \in Ops, Active(o), Kind[o] # "ping", Puts(o), Takes(o), EndSeen(o),
         NEW p \in StayPoints, Suspend(o, p), p \in Suspended \/ socket = own[o],
         KeepTimer(o) \/ UNCHANGED clock
  PROVE  Manners(o)
<1>1. pc \in [Ops -> PCs] /\ clock \in [Ops -> {"off", "query", "grace", "spent"}]
  BY DEF ChInv, Inv, TypeOK
<1>2. pc'[o] = p /\ p # "done" /\ \A q \in Ops \ {o} : clock'[q] = clock[q]
  BY <1>1 DEF Suspend, KeepTimer, StayPoints, Writing, Reading, Suspended
<1>3. Awaiting(o)' => socket = own[o]
  BY <1>2 DEF Awaiting, Writing, Reading, Suspended
<1> QED BY <1>2, <1>3 DEF Manners, EndSeen

LEMMA DrainManners ==
  ASSUME ChInv, NEW o \in Ops, Active(o), Kind[o] # "ping", Puts(o), Takes(o), EndSeen(o),
         socket = own[o], Drain(o)
  PROVE  Manners(o)
<1>1. Suspend(o, "draining") /\ KeepTimer(o)
  BY NotTaken DEF Drain, Suspend
<1> QED BY <1>1, WaitManners DEF StayPoints, Writing, Reading, Suspended

LEMMA AbandonManners ==
  ASSUME ChInv, NEW o \in Ops, Active(o), Kind[o] # "ping", Takes(o), EndSeen(o),
         socket = own[o], AbandonStream(o)
  PROVE  Manners(o)
<1>1. Puts(o)
  BY DEF AbandonStream, Puts, Fillers
<1>2. CASE cancelled[o]
  BY <1>1, <1>2, DrainManners DEF AbandonStream
<1>3. CASE ~cancelled[o]
  <2>1. Suspend(o, "cancel") /\ KeepTimer(o)
    BY <1>3 DEF AbandonStream, Suspend
  <2> QED BY <1>1, <2>1, WaitManners DEF StayPoints, Writing, Reading, Suspended
<1> QED BY <1>2, <1>3

LEMMA FinallyManners ==
  ASSUME ChInv, NEW o \in Ops, Active(o), Kind[o] # "ping", Takes(o),
         NEW e \in {"no", "eos", "exception"}, NEW d, Finally(o, e, d),
         e # "no" => Settled(o), e = "no" => ended[o] = "no"
  PROVE  Manners(o)
<1>1. ended \in [Ops -> {"no", "eos", "exception"}]
  BY DEF ChInv, Inv, TypeOK
<1>2. EndSeen(o)
  BY <1>1 DEF Finally, EndSeen
<1>3. CASE AbandonStream(o) /\ socket = own[o]
  BY <1>2, <1>3, AbandonManners
<1>4. CASE Teardown /\ Done(o) /\ UNCHANGED <<toServer, cancelled>>
  BY <1>2, <1>4, TeardownManners DEF Puts
<1>5. CASE Finish(o) /\ UNCHANGED <<toServer, cancelled>> /\ (e # "no" \/ socket # own[o])
  BY <1>2, <1>5, FinishManners DEF Puts, Settled
<1> QED BY <1>3, <1>4, <1>5 DEF Finally

LEMMA ThrowManners ==
  ASSUME ChInv, NEW o \in Ops, Active(o), Kind[o] # "ping", Takes(o), Throw(o)
  PROVE  Manners(o)
<1>1. ended[o] \in {"no", "eos", "exception"}
  BY DEF ChInv, Inv, TypeOK
<1> QED BY <1>1, EndedSettled, FinallyManners DEF Throw

LEMMA SameSeen ==
  ASSUME NEW o, UNCHANGED ended
  PROVE  EndSeen(o)
BY DEF EndSeen

LEMMA SendManners ==
  ASSUME ChInv, NEW o \in Ops, Active(o), Kind[o] # "ping", UNCHANGED toClient,
         socket \in {own[o], None}, NEW type \in Fillers, NEW p \in StayPoints, Send(o, type, p)
  PROVE  Manners(o)
<1>1. Takes(o)
  BY DEF Takes
<1>2. CASE socket = None
  BY <1>1, <1>2, ThrowManners DEF Send
<1>3. CASE socket # None
  <2>1. Puts(o) /\ EndSeen(o) /\ Suspend(o, p) /\ UNCHANGED clock
    BY <1>3, SameSeen DEF Send, Puts, fate
  <2> QED BY <1>1, <1>3, <2>1, WaitManners
<1> QED BY <1>2, <1>3

LEMMA ReadManners ==
  ASSUME ChInv, NEW o \in Ops, Active(o), Kind[o] # "ping", Takes(o),
         socket \in {own[o], None}, NEW p \in StayPoints, Read(o, p)
  PROVE  Manners(o)
<1>1. CASE CanRead(o)
  <2>1. Puts(o) /\ EndSeen(o) /\ Suspend(o, p) /\ UNCHANGED clock /\ socket = own[o]
    BY <1>1, SameSeen DEF Read, CanRead, Puts, fate
  <2> QED BY <2>1, WaitManners
<1>2. CASE ~CanRead(o)
  BY <1>2, ThrowManners DEF Read
<1> QED BY <1>1, <1>2

LEMMA YieldManners ==
  ASSUME ChInv, NEW o \in Ops, Active(o), Kind[o] # "ping", Takes(o),
         NEW p \in Suspended, Suspend(o, p), UNCHANGED <<toServer, fate>>
  PROVE  Manners(o)
<1>1. Puts(o) /\ EndSeen(o) /\ UNCHANGED clock /\ p \in StayPoints
  BY SameSeen DEF Puts, fate, StayPoints, Suspended
<1> QED BY <1>1, WaitManners
-----------------------------------------------------------------------------
\* The steps of query and insert.

\* An await that is through, and a pull of the application, are not stale.
LEMMA WrittenOwn ==
  ASSUME ChInv, NEW o \in Ops, NEW p \in Writing, Written(o, p)
  PROVE  Active(o) /\ socket \in {own[o], None}
<1>1. Active(o) /\ Awaiting(o)
  BY DEF Written, Active, Awaiting, Writing
<1> QED BY <1>1 DEF ChInv, Places, AwaitsOwn

LEMMA PulledOwn ==
  ASSUME ChInv, ~StaleResume, NEW o \in Ops, NEW p \in Suspended, Pulled(o, p)
  PROVE  Active(o) /\ socket \in {own[o], None}
BY DEF Pulled, Stale, Active, Suspended

LEMMA RestTakes ==
  ASSUME NEW o, UNCHANGED Rest
  PROVE  UNCHANGED toClient /\ Takes(o)
BY DEF Rest, Takes

LEMMA WritesManners ==
  ASSUME ChInv, NEW o \in Ops,
         QuerySent(o) \/ InsertSent(o) \/ InsertBegun(o) \/ BatchSent(o)
  PROVE  Manners(o)
<1>0. /\ {"query", "begin", "batch", "delimiter"} \subseteq Writing
      /\ {"query", "begin", "batch", "delimiter", "schema", "source"} \subseteq StayPoints
      /\ "source" \in Suspended /\ {"Delimiter", "Data"} \subseteq Fillers
  BY DEF Writing, Reading, Suspended, StayPoints, Fillers
<1>1. UNCHANGED Rest
  BY DEF QuerySent, InsertSent, InsertBegun, BatchSent
<1>2. pc[o] \in StayPoints /\ Active(o) /\ socket \in {own[o], None}
  BY <1>0, WrittenOwn DEF QuerySent, InsertSent, InsertBegun, BatchSent, Written
<1>3. Kind[o] # "ping"
  BY <1>2, AtPoint DEF ChInv
<1>4. \/ Throw(o)
      \/ Suspend(o, "source") /\ UNCHANGED <<toServer, fate>>
      \/ Send(o, "Delimiter", "delimiter") \/ Send(o, "Delimiter", "begin")
      \/ Read(o, "schema")
  BY DEF QuerySent, InsertSent, InsertBegun, BatchSent
<1> QED BY <1>0, <1>1, <1>2, <1>3, <1>4, RestTakes, ThrowManners, YieldManners,
           SendManners, ReadManners

LEMMA SourceManners ==
  ASSUME ChInv, ~StaleResume, NEW o \in Ops, Source(o)
  PROVE  Manners(o)
<1>0. /\ "source" \in Suspended /\ {"source", "batch", "delimiter"} \subseteq StayPoints
      /\ {"Delimiter", "Data"} \subseteq Fillers
  BY DEF Writing, Reading, Suspended, StayPoints, Fillers
<1>1. UNCHANGED toClient /\ Takes(o)
  BY DEF Source, BatchReady, SourceDone, SourceFails, Rest, Takes
<1>2. pc[o] \in StayPoints /\ Active(o) /\ socket \in {own[o], None}
  BY <1>0, PulledOwn DEF Source, BatchReady, SourceDone, SourceFails, Pulled
<1>3. Kind[o] # "ping"
  BY <1>2, AtPoint DEF ChInv
<1>4. Throw(o) \/ Send(o, "Data", "batch") \/ Send(o, "Delimiter", "delimiter")
  BY DEF Source, BatchReady, SourceDone, SourceFails
<1> QED BY <1>0, <1>1, <1>2, <1>3, <1>4, ThrowManners, SendManners

LEMMA ConsumerManners ==
  ASSUME ChInv, ~StaleResume, NEW o \in Ops, Consumer(o)
  PROVE  Manners(o)
<1>0. "yielded" \in Suspended /\ {"yielded", "eos", "reading"} \subseteq StayPoints
  BY DEF Writing, Reading, Suspended, StayPoints
<1>1. Takes(o)
  BY RestTakes DEF Consumer, Resume, Return
<1>2. pc[o] \in StayPoints
  BY <1>0 DEF Consumer, Resume, Return, Pulled
<1>3. Active(o) /\ Kind[o] # "ping"
  BY <1>2, AtPoint DEF ChInv
<1>4. CASE Throw(o)
  BY <1>1, <1>3, <1>4, ThrowManners
<1>5. CASE Pulled(o, "yielded") /\ Read(o, "reading")
  BY <1>0, <1>1, <1>3, <1>5, PulledOwn, ReadManners
<1> QED BY <1>4, <1>5 DEF Consumer, Resume, Return

LEMMA DelimiterSentManners ==
  ASSUME ChInv, NEW o \in Ops, DelimiterSent(o)
  PROVE  Manners(o)
<1>0. "delimiter" \in Writing /\ {"delimiter", "reading"} \subseteq StayPoints
  BY DEF Writing, Reading, Suspended, StayPoints
<1>1. Takes(o)
  BY RestTakes DEF DelimiterSent
<1>2. pc[o] \in StayPoints /\ Active(o) /\ socket \in {own[o], None}
  BY <1>0, WrittenOwn DEF DelimiterSent, Written
<1>3. Kind[o] # "ping"
  BY <1>2, AtPoint DEF ChInv
<1>4. CASE CanRead(o) /\ Suspend(o, "reading") /\ KeepTimer(o) /\ UNCHANGED <<toServer, ended>>
  <2>1. socket = own[o] /\ Puts(o) /\ EndSeen(o)
    BY <1>2, <1>4, SameSeen DEF CanRead, Puts
  <2> QED BY <1>0, <1>1, <1>2, <1>3, <1>4, <2>1, WaitManners
<1>5. CASE \E d \in BOOLEAN : Finally(o, ended[o], d)
  <2>1. ended[o] \in {"no", "eos", "exception"}
    BY DEF ChInv, Inv, TypeOK
  <2> QED BY <1>1, <1>2, <1>3, <1>5, <2>1, EndedSettled, FinallyManners
<1> QED BY <1>4, <1>5 DEF DelimiterSent

LEMMA CancelSentManners ==
  ASSUME ChInv, NEW o \in Ops, CancelSent(o)
  PROVE  Manners(o)
<1>0. "cancel" \in Writing /\ "cancel" \in StayPoints
  BY DEF Writing, Reading, Suspended, StayPoints
<1>1. Takes(o) /\ Puts(o) /\ EndSeen(o)
  BY RestTakes, SameSeen DEF CancelSent, Puts
<1>2. pc[o] \in StayPoints /\ Active(o) /\ socket \in {own[o], None}
  BY <1>0, WrittenOwn DEF CancelSent, Written
<1>3. Kind[o] # "ping"
  BY <1>2, AtPoint DEF ChInv
<1>4. CASE socket = None
  BY <1>1, <1>2, <1>4, OwnSocket, FinishManners DEF CancelSent, Settled
<1>5. CASE socket # None
  BY <1>1, <1>2, <1>3, <1>5, DrainManners DEF CancelSent
<1> QED BY <1>4, <1>5

\* The steps that take a packet.
LEMMA PacketManners ==
  ASSUME ChInv, NEW o \in Ops,
         EndOfStream(o) \/ ServerException(o) \/ ReadPacket(o) \/ SchemaPacket(o)
           \/ DrainPacket(o) \/ DecodeFails(o)
  PROVE  Manners(o)
<1>0. /\ {"reading", "schema", "draining"} \subseteq Reading
      /\ {"reading", "schema", "draining", "yielded", "source", "eos"} \subseteq StayPoints
      /\ {"yielded", "source", "eos"} \subseteq Suspended
      /\ {"EndOfStream", "Exception"} \subseteq Terminal
  BY DEF Writing, Reading, Suspended, StayPoints, Terminal
<1>1. PICK p \in {"reading", "schema", "draining"} : Reads(o, p)
  BY DEF EndOfStream, ServerException, ReadPacket, SchemaPacket, DrainPacket, DecodeFails
<1>2. Active(o) /\ socket = own[o] /\ via[o] = own[o] /\ Takes(o)
  BY <1>0, <1>1, ReadsOwn
<1>3. Kind[o] # "ping"
  BY <1>0, <1>1, AtPoint DEF ChInv, Reads
<1>4. Incoming(o) \in {"EndOfStream", "Exception"} => Settled(o)
  BY <1>0, <1>1, <1>2, TerminalSettled DEF Reads
<1>5. CASE EndOfStream(o)
  <2>1. /\ Settled(o) /\ Puts(o) /\ Suspend(o, "eos") /\ UNCHANGED clock
    BY <1>4, <1>5 DEF EndOfStream, Puts
  <2>2. EndSeen(o)
    BY <1>5, <2>1 DEF EndOfStream, EndSeen, ChInv, Inv, TypeOK
  <2> QED BY <1>0, <1>2, <1>3, <2>1, <2>2, WaitManners
<1>6. CASE ServerException(o)
  BY <1>2, <1>3, <1>4, <1>6, FinallyManners DEF ServerException
<1>7. CASE ReadPacket(o)
  BY <1>0, <1>2, <1>3, <1>7, ThrowManners, YieldManners, ReadManners DEF ReadPacket
<1>8. CASE SchemaPacket(o)
  <2>1. \/ Throw(o)
        \/ Suspend(o, "source") /\ UNCHANGED <<toServer, fate>>
        \/ Read(o, "schema")
    BY <1>8 DEF SchemaPacket
  <2> QED BY <1>0, <1>2, <1>3, <2>1, ThrowManners, YieldManners, ReadManners
<1>9. CASE DrainPacket(o)
  <2>1. Puts(o) /\ EndSeen(o)
    BY <1>9, SameSeen DEF DrainPacket, Puts
  <2>2. CASE Incoming(o) \in {"EndOfStream", "Exception"}
    BY <1>2, <1>4, <1>9, <2>1, <2>2, FinishManners DEF DrainPacket
  <2>3. CASE Incoming(o) \notin {"EndOfStream", "Exception"}
    <3>1. Suspend(o, "draining") /\ UNCHANGED clock
      BY <1>9, <2>3 DEF DrainPacket
    <3> QED BY <1>0, <1>2, <1>3, <2>1, <3>1, WaitManners
  <2> QED BY <2>2, <2>3
<1>10. CASE DecodeFails(o)
  <2>1. CASE pc[o] = "draining"
    <3>1. Puts(o) /\ EndSeen(o) /\ DrainFailed(o)
      BY <1>10, <2>1, SameSeen DEF DecodeFails, Puts
    <3> QED BY <1>2, <3>1, DrainFailedManners
  <2>2. CASE pc[o] # "draining"
    BY <1>2, <1>3, <1>10, <2>2, ThrowManners DEF DecodeFails
  <2> QED BY <2>1, <2>2
<1> QED BY <1>5, <1>6, <1>7, <1>8, <1>9, <1>10

\* An await that rejects was on the own connection of the operation.
LEMMA AwaitFailsManners ==
  ASSUME ChInv, NEW o \in Ops, AwaitFails(o), Kind[o] # "ping"
  PROVE  Manners(o)
<1>1. Takes(o)
  BY RestTakes DEF AwaitFails
<1>2. Active(o)
  BY DEF AwaitFails, Awaiting, Active, Writing, Reading
<1>3. CASE Throw(o)
  BY <1>1, <1>2, <1>3, ThrowManners
<1>4. CASE DrainFailed(o) /\ UNCHANGED <<toServer, cancelled, ended, delimited>>
  <2>1. Puts(o) /\ EndSeen(o)
    BY <1>4, SameSeen DEF Puts
  <2> QED BY <1>1, <1>2, <1>4, <2>1, DrainFailedManners
<1> QED BY <1>3, <1>4 DEF AwaitFails
-----------------------------------------------------------------------------
\* ping(), the start of an operation, signals and timers.

LEMMA PingPoint ==
  ASSUME ChInv, NEW o \in Ops, Active(o), Kind[o] = "ping"
  PROVE  /\ socket \in {own[o], None} /\ via[o] = own[o] /\ own[o] \in Sockets
         /\ pc[o] \in {"ping", "pong"} /\ clock[o] = "off"
BY OwnSocket DEF ChInv, Inv, Ownership, PingsApart, Active, Places, Timed

LEMMA PingManners ==
  ASSUME ChInv, NEW o \in Ops, Kind[o] = "ping",
         PingSent(o) \/ PongRead(o) \/ AwaitFails(o)
  PROVE  Manners(o)
<1>0. pc \in [Ops -> PCs]
  BY DEF ChInv, Inv, TypeOK
<1>1. Active(o)
  BY DEF PingSent, PongRead, AwaitFails, Written, Reads, Awaiting, Active, Writing, Reading
<1>2. /\ socket \in {own[o], None} /\ via[o] = own[o] /\ own[o] \in Sockets
      /\ pc[o] \in {"ping", "pong"} /\ clock[o] = "off"
  BY <1>1, PingPoint
<1>3. UNCHANGED <<toServer, fate>>
  BY <1>2 DEF PingSent, PongRead, AwaitFails
<1>4. Puts(o) /\ UNCHANGED ended /\ UNCHANGED clock /\ clock'[o] = "off"
  BY <1>2, <1>3 DEF Puts, fate
<1>5. CASE PingSent(o) /\ CanRead(o)
  <2>1. Takes(o) /\ socket = own[o] /\ pc'[o] = "pong"
    BY <1>0, <1>2, <1>5, RestTakes DEF PingSent, CanRead, Suspend
  <2> QED BY <1>4, <2>1 DEF Manners
<1>6. CASE PingSent(o) /\ ~CanRead(o)
  <2>1. socket # own[o]
    BY <1>1, <1>2, <1>6, NotTaken, OwnSocket DEF CanRead
  <2>2. pc'[o] = "done" /\ Takes(o)
    BY <1>0, <1>6, RestTakes DEF PingSent
  <2> QED BY <1>4, <2>1, <2>2 DEF Manners, Settled, Awaiting, Writing, Reading
<1>7. CASE PongRead(o)
  <2>1. "pong" \in Reading /\ Reads(o, "pong") /\ pc'[o] = "done"
    BY <1>0, <1>7 DEF PongRead, Reading
  <2>2. socket = own[o] /\ via[o] = own[o] /\ Takes(o) /\ HasPacket(o) /\ Take(o)
    BY <2>1, ReadsOwn DEF Reads
  <2> DEFINE s == toClient[own[o]]
  <2>3. s \in Seq(ServerPackets) /\ s # <<>> /\ Incoming(o) = Head(s).type
    BY <1>2, <2>2 DEF HasPacket, Incoming, ChInv, Inv, TypeOK
  <2>4. Len(s) \in Nat \ {0} /\ Head(s) = s[1]
    BY <2>3, TailFacts
  <2>5. 1 \in 1 .. Len(s)
    BY <2>4
  <2>6. Owned(o)
    BY <1>1, <1>2, <2>2, OpsAssumption DEF HasPacket, ChInv, OwnTraffic, Current
  <2>7. s[1].op = o /\ OnlyPongs(s)
    BY <1>2, <2>2, <2>5, <2>6 DEF Owned, AllOf, ChInv, Conversations, Conversation
  <2>8. Incoming(o) \in Terminal
    BY <2>3, <2>4, <2>5, <2>7 DEF OnlyPongs, Terminal
  <2>9. Settled(o)
    BY <1>1, <2>2, <2>8, TerminalSettled
  <2> QED BY <1>4, <2>1, <2>2, <2>9 DEF Manners, Awaiting, Writing, Reading
<1>8. CASE AwaitFails(o)
  <2>1. pc'[o] = "done" /\ Takes(o) /\ UNCHANGED toClient
    BY <1>0, <1>2, <1>8, RestTakes DEF AwaitFails, Rest
  <2>2. net[own[o]] = "closed" \/ (net[own[o]] = "ended" /\ toClient[own[o]] = <<>>)
    <3>1. Rejects(o)
      BY <1>8 DEF AwaitFails
    <3>2. pc[o] \notin Writing \ {"ping"}
      BY <1>2 DEF Writing
    <3> QED BY <1>2, <3>1, <3>2 DEF Rejects
  <2>3. net[own[o]] = "ended" => server[own[o]].phase = "idle" /\ NoOpener(toServer[own[o]])
    BY <1>2, EmptyFacts DEF ChInv, Conversations, Conversation
  <2>4. Settled(o)
    BY <2>1, <2>2, <2>3 DEF Settled, Readable
  <2> QED BY <1>4, <2>1, <2>4 DEF Manners, Awaiting, Writing, Reading
<1> QED BY <1>5, <1>6, <1>7, <1>8

\* Whatever runs by itself or for the consumer has manners.
LEMMA AllManners ==
  ASSUME ChInv, ~StaleResume, NEW o \in Ops, Continue(o) \/ Source(o) \/ Consumer(o)
  PROVE  Step(o) /\ Manners(o)
<1>1. Step(o)
  BY ContinueSteps DEF ChInv, Step
<1>2. ASSUME Continue(o) PROVE Manners(o)
  <2>1. CASE Kind[o] = "ping" /\ (PingSent(o) \/ PongRead(o) \/ AwaitFails(o))
    BY <2>1, PingManners
  <2>2. CASE Kind[o] # "ping" /\ AwaitFails(o)
    BY <2>2, AwaitFailsManners
  <2>3. CASE PingSent(o) \/ PongRead(o)
    <3>1. pc[o] \in {"ping", "pong"}
      BY <2>3 DEF PingSent, PongRead, Written, Reads
    <3>2. Kind[o] = "ping"
      BY <3>1 DEF ChInv, Inv, Ownership, PingsApart
    <3> QED BY <2>1, <2>3, <3>2
  <2> QED BY <1>2, <2>1, <2>2, <2>3, WritesManners, DelimiterSentManners, PacketManners,
             CancelSentManners DEF Continue
<1> QED BY <1>1, <1>2, SourceManners, ConsumerManners

\* A Cancel that a signal or a timer sends.
LEMMA PutSafe ==
  ASSUME ChInv, Inv', NEW o \in Ops, Active(o), Puts(o), Timed',
         UNCHANGED <<client, net, toClient, server, pc, via, own, ended>>
  PROVE  ChInv'
<1>1. /\ UNCHANGED <<server, own>> /\ Takes(o)
      /\ \A d \in Sockets : net'[d] \in {"unused", "ended"} => net'[d] = net[d]
  BY DEF Takes
<1>2. \A c \in Sockets :
         /\ Conversation(c)'
         /\ \A i \in 1 .. Len(toServer'[c]) : own[toServer'[c][i].op] = c
         /\ NoOpener(toServer'[c]) <=> NoOpener(toServer[c])
         /\ \A p : OpenedBy(toServer[c], p) => OpenedBy(toServer'[c], p)
  BY <1>1, TalkSafe
<1>3. Conversations' /\ Addressed'
  BY <1>2 DEF Conversations, Addressed
<1>4. UNCHANGED <<socket, busy>> /\ socket \in Sockets \cup {None}
  BY DEF client, ChInv, Inv, TypeOK
<1>5. socket \in Sockets => (Clean(socket)' <=> Clean(socket))
  BY <1>2, <1>4 DEF Clean
<1>6. OwnTraffic'
  <2> SUFFICES ASSUME socket' # None, Readable(socket)', NEW q \in Ops, Current(q)'
               PROVE  Owned(q)'
    BY DEF OwnTraffic
  <2>1. Owned(q) /\ socket \in Sockets
    BY <1>4 DEF ChInv, OwnTraffic, Readable, Current, Active
  <2> QED BY <1>2, <1>4, <1>5, <2>1 DEF Owned
<1>7. FreeClean'
  BY <1>4, <1>5 DEF ChInv, FreeClean, Readable
<1>8. AwaitsOwn' /\ Unstarted'
  BY <1>4 DEF ChInv, Places, AwaitsOwn, Unstarted, Awaiting
<1> QED BY <1>3, <1>6, <1>7, <1>8 DEF ChInv, Places

\* Nothing is said, and nobody moves.
LEMMA SilentSafe ==
  ASSUME ChInv, Inv', Timed',
         UNCHANGED <<client, toServer, toClient, server, pc, via, own, ended>>,
         \A d \in Sockets : /\ net'[d] \in {"unused", "ended"} => net'[d] = net[d]
                            /\ Readable(d)' => Readable(d)
  PROVE  ChInv'
<1>1. UNCHANGED <<socket, busy>> /\ socket \in Sockets \cup {None}
  BY DEF client, ChInv, Inv, TypeOK
<1>2. \A c : Clean(c)' <=> Clean(c)
  BY DEF Clean
<1>3. Conversations'
  BY <1>2 DEF ChInv, Conversations, Conversation
<1>4. OwnTraffic' /\ FreeClean'
  BY <1>1, <1>2 DEF ChInv, OwnTraffic, FreeClean, Current, Active, Owned
<1>5. Addressed' /\ AwaitsOwn' /\ Unstarted'
  BY <1>1 DEF ChInv, Addressed, Places, AwaitsOwn, Unstarted, Awaiting
<1> QED BY <1>3, <1>4, <1>5 DEF ChInv, Places

LEMMA TryCancelPuts ==
  ASSUME NEW o, TryCancel(o)
  PROVE  Puts(o)
BY DEF TryCancel, Puts, Fillers

LEMMA AbortKeeps == ASSUME ChInv, Inv', NEW o \in Ops, Abort(o) PROVE ChInv'
<1>1. Timed'
  BY DEF Abort, ChInv, Places, Timed, Active
<1>2. UNCHANGED <<client, net, toClient, server, pc, via, own, ended>>
  BY DEF Abort
<1>3. CASE Active(o)
  BY <1>1, <1>2, <1>3, TryCancelPuts, PutSafe DEF Abort, Listening
<1>4. CASE ~Active(o)
  BY <1>1, <1>2, <1>4, SilentSafe DEF Abort, Listening, Readable
<1> QED BY <1>3, <1>4

LEMMA TimersKeep == ASSUME ChInv, Inv', NEW o \in Ops, Timers(o) PROVE ChInv'
<1>0. /\ clock \in [Ops -> {"off", "query", "grace", "spent"}]
      /\ net \in [Sockets -> {"unused", "open", "ended", "destroyed", "closed"}]
  BY DEF ChInv, Inv, TypeOK
<1>1. UNCHANGED <<client, toClient, server, pc, via, own, ended>>
  BY DEF Timers, QueryTimer, GraceTimer, DrainTimer, wire, locals, fate
<1>2. \A q \in Ops : clock'[q] # "off" => clock[q] # "off"
  <2>1. CASE UNCHANGED clock
    BY <2>1
  <2>2. CASE clock[o] # "off" /\ \E t : clock' = [clock EXCEPT ![o] = t]
    BY <1>0, <2>2
  <2> QED BY <2>1, <2>2 DEF Timers, QueryTimer, GraceTimer, DrainTimer, fate
<1>3. Timed'
  BY <1>1, <1>2 DEF ChInv, Places, Timed, Active
<1>4. CASE QueryTimer(o)
  <2>1. Active(o) /\ Puts(o) /\ UNCHANGED net
    BY <1>4, TryCancelPuts DEF QueryTimer, ChInv, Places, Timed
  <2> QED BY <1>1, <1>3, <2>1, PutSafe
<1>5. CASE GraceTimer(o) \/ DrainTimer(o)
  <2>1. UNCHANGED toServer /\ (UNCHANGED net \/ \E c : Destroy(c))
    BY <1>5 DEF GraceTimer, DrainTimer, wire
  <2>2. \A d \in Sockets : /\ net'[d] \in {"unused", "ended"} => net'[d] = net[d]
                           /\ Readable(d)' => Readable(d)
    BY <1>0, <2>1 DEF Destroy, Readable
  <2> QED BY <1>1, <1>3, <2>1, <2>2, SilentSafe
<1> QED BY <1>4, <1>5 DEF Timers
-----------------------------------------------------------------------------
\* The start of an operation, and the connection.

\* The client is free, so its connection is clean: the statement that is now
\* written to it is the whole conversation.
LEMMA StartKeeps ==
  ASSUME ChInv, Inv', NEW o \in Ops, NEW first, NEW p,
         \/ first = "Query" /\ p = "query" /\ Kind[o] # "ping"
         \/ first = "Ping" /\ p = "ping" /\ Kind[o] = "ping",
         Start(o, first, p)
  PROVE  ChInv'
<1>0. /\ pc \in [Ops -> PCs] /\ own \in [Ops -> Sockets \cup {None}]
      /\ via \in [Ops -> Sockets \cup {None}]
      /\ toServer \in [Sockets -> Seq(ClientPackets)]
  BY DEF ChInv, Inv, TypeOK
<1>1. /\ pc[o] = "idle" /\ socket \in Sockets /\ socket # None /\ ~busy /\ busy'
      /\ UNCHANGED <<socket, net, toClient, server, clock, ended>>
      /\ first \in Openers /\ p \in Writing
  BY DEF Start, fate, Openers, Writing, ChInv, Inv, TypeOK
<1>2. /\ \A q \in Ops : own'[q] = IF q = o THEN socket ELSE own[q]
      /\ \A q \in Ops : via'[q] = IF q = o THEN socket ELSE via[q]
      /\ \A q \in Ops : pc'[q] = IF q = o THEN p ELSE pc[q]
  BY <1>0 DEF Start
<1>3. own[o] = None /\ ended[o] = "no"
  BY <1>1 DEF ChInv, Places, Unstarted
<1> DEFINE m == Msg(first, o)
<1>4. m \in ClientPackets /\ m.type = first /\ m.op = o
  BY <1>1 DEF Msg, ClientPackets, Packet, Openers
<1>5. \A c \in Sockets :
        \/ toServer'[c] = toServer[c]
        \/ c = socket /\ net[c] = "open" /\ toServer'[c] = Append(toServer[c], m)
  BY <1>0 DEF Start, Write
<1> HIDE DEF m
<1>6. net[socket] = "open" => Clean(socket)
  BY <1>1 DEF ChInv, FreeClean, Readable
<1>7. \A c \in Sockets :
        /\ Conversation(c)'
        /\ \A i \in 1 .. Len(toServer'[c]) : own'[toServer'[c][i].op] = c
        /\ c = socket /\ Readable(c) => OpenedBy(toServer'[c], o)
  <2> SUFFICES ASSUME NEW c \in Sockets
               PROVE  /\ Conversation(c)'
                      /\ \A i \in 1 .. Len(toServer'[c]) : own'[toServer'[c][i].op] = c
                      /\ c = socket /\ Readable(c) => OpenedBy(toServer'[c], o)
    OBVIOUS
  <2>1. /\ Conversation(c) /\ toServer[c] \in Seq(ClientPackets)
        /\ \A i \in 1 .. Len(toServer[c]) : own[toServer[c][i].op] = c
    BY <1>0 DEF ChInv, Conversations, Addressed
  <2>2. \A i \in 1 .. Len(toServer[c]) : own'[toServer[c][i].op] = c
    <3> SUFFICES ASSUME NEW i \in 1 .. Len(toServer[c]) PROVE own'[toServer[c][i].op] = c
      OBVIOUS
    <3>1. toServer[c][i] \in ClientPackets
      BY <2>1
    <3>2. toServer[c][i].op \in Ops
      BY <3>1 DEF ClientPackets, Packet
    <3>3. toServer[c][i].op # o
      BY <1>3, <2>1, OpsAssumption
    <3> QED BY <1>2, <2>1, <3>2, <3>3
  <2>3. c = socket /\ Readable(c) => NoOpener(toServer[c])
    BY <1>1 DEF ChInv, FreeClean, Clean
  <2>4. CASE toServer'[c] = toServer[c]
    <3>1. Conversation(c)'
      BY <1>1, <2>1, <2>4 DEF Conversation, Clean
    <3>2. c = socket /\ Readable(c) => OpenedBy(toServer'[c], o)
      BY <2>3, <2>4 DEF NoOpener, OpenedBy
    <3> QED BY <2>2, <2>4, <3>1, <3>2
  <2>5. CASE c = socket /\ net[c] = "open" /\ toServer'[c] = Append(toServer[c], m)
    <3> DEFINE s == toServer[c]
               t == Append(s, m)
               l == Len(s)
    <3>1. /\ l \in Nat /\ Len(t) = l + 1 /\ t[l + 1] = m
          /\ \A i \in 1 .. l : t[i] = s[i]
      BY <1>4, <2>1, AppendFacts
    <3>2. \A i \in 1 .. l : s[i].type \notin Openers
      BY <1>6, <2>5 DEF Clean, NoOpener
    <3>3. \A i \in 1 .. l : own'[s[i].op] = c
      BY <2>2
    <3>4. \A i \in 1 .. l : s[i].type = "Query" => Kind[s[i].op] # "ping"
      BY <3>2 DEF Openers
    <3>5. toServer'[c] = t
      BY <2>5
    <3> HIDE DEF t, l, s
    <3>6. \A i \in 1 .. l + 1 : i \in 1 .. l \/ i = l + 1
      BY <3>1
    <3>7. Opens(t)
      <4>1. \A j \in (l + 1) + 1 .. l + 1 : FALSE
        BY <3>1
      <4>2. \A i \in 1 .. l + 1 : t[i].type \in Openers => i = l + 1
        BY <3>1, <3>2, <3>6
      <4> QED BY <3>1, <4>1, <4>2 DEF Opens
    <3>8. OpenedBy(t, o)
      BY <1>4, <3>1, <3>2, <3>6 DEF OpenedBy
    <3>9. NoPingQuery(t)
      BY <1>4, <3>1, <3>4, <3>6 DEF NoPingQuery
    <3>10. \A i \in 1 .. Len(t) : own'[t[i].op] = c
      BY <1>2, <1>4, <2>5, <3>1, <3>3, <3>6
    <3>11. Conversation(c)'
      BY <1>1, <1>6, <2>1, <2>5, <3>5, <3>7, <3>9 DEF Conversation, Clean
    <3> QED BY <3>5, <3>8, <3>10, <3>11
  <2> QED BY <1>5, <2>4, <2>5
<1>8. Conversations' /\ Addressed'
  BY <1>7 DEF Conversations, Addressed
<1>9. \A q \in Ops : Current(q)' => q = o
  BY <1>1, <1>2 DEF ChInv, Inv, Ownership, OneOwner, Current, Active
<1>10. OwnTraffic'
  <2> SUFFICES ASSUME Readable(socket), NEW q \in Ops, Current(q)' PROVE Owned(q)'
    BY <1>1 DEF OwnTraffic, Readable
  <2>1. q = o /\ Clean(socket)
    BY <1>1, <1>9 DEF ChInv, FreeClean
  <2>2. server[socket].op = None /\ toClient[socket] = <<>>
    BY <1>1, <2>1 DEF ChInv, Conversations, Conversation, Clean
  <2>3. OpenedBy(toServer'[socket], o)
    BY <1>1, <1>7
  <2> QED BY <1>1, <1>3, <2>1, <2>2, <2>3, EmptyFacts DEF Owned
<1>11. FreeClean'
  BY <1>1 DEF FreeClean
<1>12. AwaitsOwn'
  BY <1>1, <1>2 DEF ChInv, Places, AwaitsOwn, Awaiting
<1>13. Unstarted'
  BY <1>1, <1>2 DEF ChInv, Places, Unstarted, Writing
<1>14. Timed'
  BY <1>1, <1>2 DEF ChInv, Places, Timed, Active
<1> QED BY <1>8, <1>10, <1>11, <1>12, <1>13, <1>14 DEF ChInv, Places

\* A connection starts clean, and nobody awaits anything on an earlier one.
LEMMA ConnectKeeps == ASSUME ChInv, Inv', NEW c \in Sockets, Connect(c) PROVE ChInv'
<1>1. /\ socket = None /\ socket' = c /\ c # None /\ net[c] = "unused"
      /\ UNCHANGED <<busy, toServer, toClient, server, pc, via, own, ended, clock>>
      /\ \A d \in Sockets : net'[d] = IF d = c THEN "open" ELSE net[d]
  BY OpsAssumption DEF Connect, wire, locals, fate, ChInv, Inv, TypeOK
<1>2. Clean(c) /\ Clean(c)'
  BY <1>1 DEF ChInv, Conversations, Conversation, Clean
<1>3. Conversations' /\ Addressed'
  BY <1>1 DEF ChInv, Conversations, Conversation, Clean, Addressed
<1>4. \A o \in Ops : ~Current(o)'
  BY <1>1 DEF ChInv, Inv, Ownership, Rooted, Current, Active
<1>5. OwnTraffic' /\ FreeClean'
  BY <1>1, <1>2, <1>4 DEF OwnTraffic, FreeClean
<1>6. \A o \in Ops : ~Awaiting(o)
  <2> SUFFICES ASSUME NEW o \in Ops, Awaiting(o) PROVE FALSE
    OBVIOUS
  <2>1. Active(o) /\ own[o] \in Sockets /\ via[o] = own[o]
    BY OwnSocket DEF Active, Awaiting, Writing, Reading, ChInv, Places, AwaitsOwn
  <2>2. net[own[o]] = "open"
    BY <2>1 DEF Connect, EventLoopSettled, ChInv, Inv, TypeOK, Ownership, Rooted
  <2> QED BY <1>1, <2>1, <2>2, OpsAssumption DEF ChInv, Inv, Ownership, NoLeakedSocket, Readable
<1>7. AwaitsOwn' /\ Unstarted' /\ Timed'
  BY <1>1, <1>6 DEF ChInv, Places, AwaitsOwn, Unstarted, Timed, Awaiting, Active
<1> QED BY <1>3, <1>5, <1>7 DEF ChInv, Places

LEMMA CloseKeeps == ASSUME ChInv, Inv', Close PROVE ChInv'
<1>1. /\ socket' = None
      /\ UNCHANGED <<toServer, toClient, server, pc, via, own, ended, clock>>
      /\ \A d \in Sockets : net'[d] \in {"unused", "ended"} => net'[d] = net[d]
  BY DEF Close, Teardown, wire, locals, fate
<1>2. Conversations' /\ Addressed'
  BY <1>1 DEF ChInv, Conversations, Conversation, Clean, Addressed
<1>3. OwnTraffic' /\ FreeClean'
  BY <1>1 DEF OwnTraffic, FreeClean
<1>4. AwaitsOwn' /\ Unstarted' /\ Timed'
  BY <1>1 DEF ChInv, Places, AwaitsOwn, Unstarted, Timed, Awaiting, Active
<1> QED BY <1>2, <1>3, <1>4 DEF ChInv, Places

\* The conversation on a connection that has closed is forgotten.
LEMMA CloseEventKeeps == ASSUME ChInv, Inv', NEW c \in Sockets, CloseEvent(c) PROVE ChInv'
<1>1. /\ socket' \in {socket, None} /\ socket' # c
      /\ socket' # None => socket' = socket /\ busy' = busy
      /\ UNCHANGED <<pc, via, own, ended, clock>>
  BY OpsAssumption DEF CloseEvent, locals, fate
<1>2. /\ net'[c] = "closed" /\ toServer'[c] = <<>> /\ toClient'[c] = <<>> /\ server'[c] = Quiet
      /\ \A d \in Sockets \ {c} :
           /\ net'[d] = net[d] /\ toServer'[d] = toServer[d]
           /\ toClient'[d] = toClient[d] /\ server'[d] = server[d]
  BY DEF CloseEvent, ChInv, Inv, TypeOK
<1>3. \A d \in Sockets : Conversation(d)'
  <2> SUFFICES ASSUME NEW d \in Sockets PROVE Conversation(d)'
    OBVIOUS
  <2>1. CASE d = c
    BY <1>2, <2>1, EmptyFacts DEF Conversation, Clean, Quiet
  <2>2. CASE d # c
    BY <1>2, <2>2 DEF ChInv, Conversations, Conversation, Clean
  <2> QED BY <2>1, <2>2
<1>4. Addressed'
  <2> SUFFICES ASSUME NEW d \in Sockets, NEW i \in 1 .. Len(toServer'[d])
               PROVE  own[toServer'[d][i].op] = d
    BY <1>1 DEF Addressed
  <2>1. d # c
    <3>1. Len(<<>>) = 0 /\ 1 .. 0 = {}
      OBVIOUS
    <3> QED BY <1>2, <3>1
  <2> QED BY <1>2, <2>1 DEF ChInv, Addressed
<1>5. OwnTraffic' /\ FreeClean'
  <2> SUFFICES ASSUME socket' # None, Readable(socket)' PROVE OwnTraffic' /\ FreeClean'
    BY DEF OwnTraffic, FreeClean
  <2>1. socket' = socket /\ busy' = busy /\ socket \in Sockets \ {c}
    BY <1>1 DEF ChInv, Inv, TypeOK
  <2>2. Readable(socket) /\ (Clean(socket)' <=> Clean(socket))
    BY <1>2, <2>1 DEF Readable, Clean
  <2>3. \A q \in Ops : Current(q)' => Current(q)
    BY <1>1, <2>1 DEF Current, Active
  <2>4. OwnTraffic'
    BY <1>1, <1>2, <2>1, <2>2, <2>3 DEF ChInv, OwnTraffic, Owned
  <2> QED BY <2>1, <2>2, <2>4 DEF ChInv, FreeClean
<1>6. AwaitsOwn' /\ Unstarted' /\ Timed'
  BY <1>1 DEF ChInv, Places, AwaitsOwn, Unstarted, Timed, Awaiting, Active
<1> QED BY <1>3, <1>4, <1>5, <1>6 DEF ChInv, Places, Conversations

\* What has arrived is a beginning of what was sent.
LEMMA ArrivedFacts ==
  ASSUME NEW S, NEW s \in Seq(S), NEW n \in 0 .. Len(s)
  PROVE  /\ \A o : AllOf(s, o) => AllOf(SubSeq(s, 1, n), o)
         /\ Ends(s) => Ends(SubSeq(s, 1, n))
         /\ OnlyPongs(s) => OnlyPongs(SubSeq(s, 1, n))
         /\ s = <<>> => SubSeq(s, 1, n) = <<>>
<1> DEFINE l == Len(s)
           t == SubSeq(s, 1, n)
<1>1. /\ l \in Nat /\ n \in Nat /\ n <= l /\ Len(t) = n
      /\ \A i \in 1 .. n : t[i] = s[i]
      /\ l = 0 => t = <<>>
  OBVIOUS
<1> HIDE DEF l, t
<1>2. \A i \in 1 .. n : i \in 1 .. l
  BY <1>1
<1>3. \A o : AllOf(s, o) => AllOf(t, o)
  BY <1>1, <1>2 DEF AllOf, l
<1>4. ASSUME Ends(s) PROVE Ends(t)
  <2>1. SUFFICES ASSUME NEW i \in 1 .. n, t[i].type \in Terminal PROVE i = n
    BY <1>1 DEF Ends
  <2>2. i \in 1 .. l /\ s[i].type \in Terminal
    BY <1>1, <1>2, <2>1
  <2>3. i = l
    BY <1>4, <2>2 DEF Ends, l
  <2> QED BY <1>1, <2>1, <2>3
<1>5. OnlyPongs(s) => OnlyPongs(t)
  BY <1>1, <1>2 DEF OnlyPongs, l
<1>6. s = <<>> => t = <<>>
  BY <1>1 DEF l
<1> QED BY <1>3, <1>4, <1>5, <1>6 DEF t

\* A connection that has ended carries what has arrived, and nothing more.
LEMMA HangupKeeps == ASSUME ChInv, Inv', NEW c \in Sockets, Hangup(c) PROVE ChInv'
<1>1. UNCHANGED <<client, pc, via, own, ended, clock>>
  BY DEF Hangup, locals, fate
<1>2. PICK n \in 0 .. Len(toClient[c]) : toClient' = [toClient EXCEPT ![c] = SubSeq(@, 1, n)]
  BY DEF Hangup
<1>3. /\ net[c] = "open" /\ net'[c] = "ended" /\ toServer'[c] = <<>> /\ server'[c] = Quiet
      /\ toClient'[c] = SubSeq(toClient[c], 1, n)
      /\ \A d \in Sockets \ {c} :
           /\ net'[d] = net[d] /\ toServer'[d] = toServer[d]
           /\ toClient'[d] = toClient[d] /\ server'[d] = server[d]
  BY <1>2 DEF Hangup, ChInv, Inv, TypeOK
<1>4. /\ \A o : AllOf(toClient[c], o) => AllOf(toClient'[c], o)
      /\ Ends(toClient'[c]) /\ OnlyPongs(toClient'[c])
      /\ toClient[c] = <<>> => toClient'[c] = <<>>
  <2>1. toClient[c] \in Seq(ServerPackets) /\ Ends(toClient[c]) /\ OnlyPongs(toClient[c])
    BY DEF ChInv, Inv, TypeOK, Conversations, Conversation
  <2> QED BY <1>3, <2>1, ArrivedFacts
<1>5. \A d \in Sockets : Conversation(d)'
  <2> SUFFICES ASSUME NEW d \in Sockets PROVE Conversation(d)'
    OBVIOUS
  <2>1. CASE d = c
    <3>1. server'[c].phase = "idle" /\ server'[c].op = None
      BY <1>3 DEF Quiet
    <3>2. NoOpener(toServer'[c]) /\ Opens(toServer'[c]) /\ NoPingQuery(toServer'[c])
      BY <1>3, EmptyFacts
    <3> QED BY <1>3, <1>4, <2>1, <3>1, <3>2 DEF Conversation
  <2>2. CASE d # c
    BY <1>3, <2>2 DEF ChInv, Conversations, Conversation, Clean
  <2> QED BY <2>1, <2>2
<1>6. Addressed'
  <2> SUFFICES ASSUME NEW d \in Sockets, NEW i \in 1 .. Len(toServer'[d])
               PROVE  own[toServer'[d][i].op] = d
    BY <1>1 DEF Addressed
  <2>1. d # c
    <3>1. Len(<<>>) = 0 /\ 1 .. 0 = {}
      OBVIOUS
    <3> QED BY <1>3, <3>1
  <2> QED BY <1>3, <2>1 DEF ChInv, Addressed
<1>7. OwnTraffic' /\ FreeClean'
  <2> SUFFICES ASSUME socket # None, Readable(socket)' PROVE OwnTraffic' /\ FreeClean'
    BY <1>1 DEF OwnTraffic, FreeClean, client
  <2>1. socket \in Sockets /\ Readable(socket) /\ (Clean(socket) => Clean(socket)')
    BY <1>1, <1>3, <1>4, EmptyFacts DEF Readable, Clean, Quiet, client, ChInv, Inv, TypeOK
  <2>2. \A q \in Ops : Current(q)' => Current(q)
    BY <1>1 DEF Current, Active, client
  <2>3. \A q \in Ops : Owned(q) => Owned(q)'
    <3>1. CASE socket = c
      <4>1. server'[c].op = None /\ \A q \in Ops : OpenedBy(toServer'[c], q)
        BY <1>3, EmptyFacts DEF Quiet
      <4> QED BY <1>1, <1>4, <2>1, <3>1, <4>1 DEF Owned, client
    <3>2. CASE socket # c
      BY <1>1, <1>3, <2>1, <3>2 DEF Owned, client
    <3> QED BY <3>1, <3>2
  <2> QED BY <1>1, <2>1, <2>2, <2>3 DEF ChInv, OwnTraffic, FreeClean, client
<1>8. AwaitsOwn' /\ Unstarted' /\ Timed'
  BY <1>1 DEF ChInv, Places, AwaitsOwn, Unstarted, Timed, Awaiting, Active, client
<1> QED BY <1>5, <1>6, <1>7, <1>8 DEF ChInv, Places, Conversations

LEMMA ConnectionKeeps == ASSUME ChInv, Inv', NEW c \in Sockets, Connection(c) PROVE ChInv'
<1>1. CASE Stall(c) \/ Unstall(c)
  <2>1. UNCHANGED <<client, net, toServer, toClient, server, pc, via, own, ended, clock>>
    BY <1>1 DEF Stall, Unstall, locals, fate
  <2>2. Timed'
    BY <2>1 DEF ChInv, Places, Timed, Active
  <2>3. \A d \in Sockets : /\ net'[d] \in {"unused", "ended"} => net'[d] = net[d]
                           /\ Readable(d)' => Readable(d)
    BY <2>1 DEF Readable
  <2> QED BY <2>1, <2>2, <2>3, SilentSafe
<1> QED BY <1>1, ConnectKeeps, CloseEventKeeps, HangupKeeps DEF Connection
-----------------------------------------------------------------------------
\* The server.

\* A live server is behind the client's own connection; its step changes the
\* conversation there and nothing else.
LEMMA ServerKeeps ==
  ASSUME ChInv, Inv', NEW c \in Sockets, net[c] = "open",
         UNCHANGED <<client, net, pc, via, own, ended, clock>>,
         \A d \in Sockets \ {c} : /\ toServer'[d] = toServer[d] /\ toClient'[d] = toClient[d]
                                  /\ server'[d] = server[d],
         Conversation(c)',
         \A i \in 1 .. Len(toServer'[c]) : own[toServer'[c][i].op] = c,
         Clean(c) => Clean(c)',
         \A q \in Ops : Current(q) /\ Owned(q) =>
           /\ server'[c].op \in {None, q} /\ AllOf(toClient'[c], q) /\ OpenedBy(toServer'[c], q)
  PROVE  ChInv'
<1>1. socket = c /\ c # None /\ Readable(c) /\ socket' = socket /\ busy' = busy
  BY OpsAssumption DEF ChInv, Inv, Ownership, NoLeakedSocket, Readable, client
<1>2. Conversations'
  <2> SUFFICES ASSUME NEW d \in Sockets, d # c PROVE Conversation(d)'
    BY DEF Conversations
  <2> QED BY DEF ChInv, Conversations, Conversation, Clean
<1>3. Addressed'
  <2> SUFFICES ASSUME NEW d \in Sockets PROVE \A i \in 1 .. Len(toServer'[d]) : own[toServer'[d][i].op] = d
    BY DEF Addressed
  <2> QED BY DEF ChInv, Addressed
<1>4. \A q \in Ops : Current(q)' <=> Current(q)
  BY <1>1 DEF Current, Active
<1>5. OwnTraffic'
  <2> SUFFICES ASSUME NEW q \in Ops, Current(q) PROVE Owned(q)'
    BY <1>4 DEF OwnTraffic
  <2>1. Owned(q)
    BY <1>1 DEF ChInv, OwnTraffic
  <2> QED BY <1>1, <2>1 DEF Owned
<1>6. FreeClean'
  BY <1>1 DEF ChInv, FreeClean
<1>7. AwaitsOwn' /\ Unstarted' /\ Timed'
  BY <1>1 DEF ChInv, Places, AwaitsOwn, Unstarted, Timed, Awaiting, Active
<1> QED BY <1>2, <1>3, <1>5, <1>6, <1>7 DEF ChInv, Places

\* The server takes a packet: it begins the statement, goes on with the one it
\* is at, answers a Ping, or skips it.
LEMMA ServerReceiveKeeps == ASSUME ChInv, Inv', NEW c \in Sockets, ServerReceive(c) PROVE ChInv'
<1> DEFINE s == toServer[c]
           m == Head(toServer[c])
           pong == Msg("Pong", m.op)
<1>0. /\ toServer \in [Sockets -> Seq(ClientPackets)]
      /\ toClient \in [Sockets -> Seq(ServerPackets)]
      /\ server \in [Sockets -> [phase : Phases, op : Ops \cup {None}, chat : Nat]]
  BY DEF ChInv, Inv, TypeOK
<1>1. /\ net[c] = "open" /\ s \in Seq(ClientPackets) /\ s # <<>>
      /\ toServer' = [toServer EXCEPT ![c] = Tail(s)]
      /\ UNCHANGED <<client, net, pc, via, own, ended, clock>>
  BY <1>0 DEF ServerReceive, locals, fate
<1>2. toServer'[c] = Tail(s) /\ \A d \in Sockets \ {c} : toServer'[d] = toServer[d]
  BY <1>0, <1>1
<1>3. /\ NoOpener(s) => NoOpener(Tail(s))
      /\ \A o : AllOf(s, o) => AllOf(Tail(s), o)
      /\ \A o : OpenedBy(s, o) => OpenedBy(Tail(s), o)
      /\ Opens(s) => Opens(Tail(s))
      /\ NoPingQuery(s) => NoPingQuery(Tail(s))
      /\ Opens(s) /\ m.type \in Openers => NoOpener(Tail(s)) /\ AllOf(Tail(s), m.op)
  BY <1>1, TakeFacts
<1>4. /\ Len(s) \in Nat \ {0} /\ Len(Tail(s)) = Len(s) - 1
      /\ \A i \in 1 .. Len(s) - 1 : Tail(s)[i] = s[i + 1]
      /\ m = s[1]
  BY <1>1, TailFacts
<1>5. 1 \in 1 .. Len(s) /\ \A i \in 1 .. Len(s) - 1 : i + 1 \in 1 .. Len(s)
  BY <1>4
<1>6. \A i \in 1 .. Len(Tail(s)) : own[Tail(s)[i].op] = c
  BY <1>4, <1>5 DEF ChInv, Addressed
<1>7. Conversation(c)
  BY DEF ChInv, Conversations
<1>8. m \in ClientPackets
  BY <1>1
<1>9. m.op \in Ops /\ pong \in ServerPackets /\ pong.type = "Pong" /\ pong.op = m.op
  BY <1>8 DEF Msg, ClientPackets, ServerPackets, Packet
<1>10. m.type \in Openers => /\ ~NoOpener(s) /\ server[c].phase = "idle" /\ toClient[c] = <<>>
                             /\ \A q : OpenedBy(s, q) => m.op = q
  BY <1>4, <1>5, <1>7 DEF NoOpener, OpenedBy, Conversation
<1>11. CASE /\ m.type = "Query" /\ server[c].phase = "idle"
            /\ Enter(c, "tables", m.op) /\ UNCHANGED toClient
  <2>1. /\ server'[c].phase = "tables" /\ server'[c].op = m.op
        /\ \A d \in Sockets \ {c} : server'[d] = server[d]
    BY <1>0, <1>11 DEF Enter
  <2>2. m.type \in Openers
    BY <1>11 DEF Openers
  <2>3. Kind[m.op] # "ping"
    BY <1>4, <1>5, <1>7, <1>11 DEF Conversation, NoPingQuery
  <2>4. \A i \in 1 .. Len(toClient'[c]) : toClient'[c][i].type \notin Terminal
    <3>1. Len(<<>>) = 0 /\ 1 .. 0 = {}
      OBVIOUS
    <3> QED BY <1>10, <1>11, <2>2, <3>1
  <2>5. Conversation(c)'
    BY <1>1, <1>2, <1>3, <1>7, <1>11, <2>1, <2>2, <2>3, <2>4 DEF Conversation
  <2>6. ~Clean(c)
    BY <1>10, <2>2 DEF Clean
  <2>7. \A q \in Ops : Current(q) /\ Owned(q) =>
          /\ server'[c].op \in {None, q} /\ AllOf(toClient'[c], q) /\ OpenedBy(toServer'[c], q)
    <3>1. socket = c
      BY <1>1 DEF ChInv, Inv, Ownership, NoLeakedSocket, Readable
    <3> QED BY <1>2, <1>3, <1>10, <1>11, <2>1, <2>2, <3>1 DEF Owned
  <2> QED BY <1>1, <1>2, <1>6, <1>11, <2>1, <2>5, <2>6, <2>7, ServerKeeps, ZenonT(60)
<1>12. CASE /\ m.type = "Ping" /\ server[c].phase = "idle"
            /\ toClient' = [toClient EXCEPT ![c] = Append(@, pong)] /\ UNCHANGED server
  <2>1. m.type \in Openers
    BY <1>12 DEF Openers
  <2>2. /\ toClient'[c] = Append(<<>>, pong)
        /\ \A d \in Sockets \ {c} : toClient'[d] = toClient[d]
    BY <1>0, <1>10, <1>12, <2>1
  <2>3. <<>> \in Seq(ServerPackets) /\ \A i \in 1 .. Len(<<>>) : <<>>[i].type \notin Terminal
    OBVIOUS
  <2>4. /\ Ends(Append(<<>>, pong)) /\ OnlyPongs(Append(<<>>, pong))
        /\ AllOf(Append(<<>>, pong), m.op)
    BY <1>9, <2>3, EmptyFacts, ReplyFacts
  <2>5. Conversation(c)'
    BY <1>1, <1>2, <1>3, <1>7, <1>12, <2>1, <2>2, <2>4 DEF Conversation
  <2>6. ~Clean(c)
    BY <1>10, <2>1 DEF Clean
  <2>7. \A q \in Ops : Current(q) /\ Owned(q) =>
          /\ server'[c].op \in {None, q} /\ AllOf(toClient'[c], q) /\ OpenedBy(toServer'[c], q)
    <3>1. socket = c
      BY <1>1 DEF ChInv, Inv, Ownership, NoLeakedSocket, Readable
    <3> QED BY <1>2, <1>3, <1>10, <1>12, <2>1, <2>2, <2>4, <3>1 DEF Owned
  <2> QED BY <1>1, <1>2, <1>6, <1>12, <2>2, <2>5, <2>6, <2>7, ServerKeeps, ZenonT(60)
<1>13. CASE /\ UNCHANGED toClient
            /\ \/ UNCHANGED server
               \/ /\ server[c].phase # "idle"
                  /\ \E phase \in Phases \ {"idle"} : Enter(c, phase, server[c].op)
  <2>1. /\ server'[c].op = server[c].op
        /\ server'[c].phase = "idle" <=> server[c].phase = "idle"
        /\ \A d \in Sockets \ {c} : server'[d] = server[d]
    BY <1>0, <1>13 DEF Enter
  <2>2. Conversation(c)'
    BY <1>1, <1>2, <1>3, <1>7, <1>13, <2>1 DEF Conversation, Clean
  <2>3. Clean(c) => Clean(c)'
    BY <1>2, <1>3, <1>13, <2>1 DEF Clean
  <2>4. \A q \in Ops : Current(q) /\ Owned(q) =>
          /\ server'[c].op \in {None, q} /\ AllOf(toClient'[c], q) /\ OpenedBy(toServer'[c], q)
    <3>1. socket = c
      BY <1>1 DEF ChInv, Inv, Ownership, NoLeakedSocket, Readable
    <3> QED BY <1>2, <1>3, <1>13, <2>1, <3>1 DEF Owned
  <2> QED BY <1>1, <1>2, <1>6, <1>13, <2>1, <2>2, <2>3, <2>4, ServerKeeps
<1> QED BY <1>11, <1>12, <1>13 DEF ServerReceive, Phases

\* The server speaks about the statement it is at, and is done with it when it
\* has ended its result.
Speaks(c, type) ==
  /\ net[c] = "open" /\ server[c].phase # "idle" /\ type # "Pong"
  /\ Reply(c, type)
  /\ IF type \in Terminal
     THEN server' = [server EXCEPT ![c] = Quiet]
     ELSE /\ server'[c].op = server[c].op /\ server'[c].phase # "idle"
          /\ \A d \in Sockets \ {c} : server'[d] = server[d]
  /\ UNCHANGED <<client, net, toServer, pc, via, own, ended, clock>>

LEMMA SpeaksKeeps ==
  ASSUME ChInv, Inv', NEW c \in Sockets,
         NEW type \in {"Data", "Progress", "TimezoneUpdate", "TableColumns",
                       "EndOfStream", "Exception"},
         Speaks(c, type)
  PROVE  ChInv'
<1> DEFINE s == toClient[c]
           m == Msg(type, server[c].op)
<1>0. /\ toClient \in [Sockets -> Seq(ServerPackets)]
      /\ server \in [Sockets -> [phase : Phases, op : Ops \cup {None}, chat : Nat]]
  BY DEF ChInv, Inv, TypeOK
<1>1. /\ net[c] = "open" /\ server[c].phase # "idle" /\ server[c].op \in Ops
      /\ UNCHANGED <<client, net, toServer, pc, via, own, ended, clock>>
  BY DEF Speaks, ChInv, Inv, ServerBusyWith
<1>2. m \in ServerPackets /\ m.type = type /\ m.op = server[c].op
  BY <1>1 DEF Msg, ServerPackets, Packet
<1>3. Conversation(c)
  BY DEF ChInv, Conversations
<1>4. /\ s \in Seq(ServerPackets) /\ \A i \in 1 .. Len(s) : s[i].type \notin Terminal
      /\ OnlyPongs(s)
  BY <1>0, <1>1, <1>3 DEF Conversation
<1>5. /\ toClient'[c] = Append(s, m)
      /\ \A d \in Sockets \ {c} : toClient'[d] = toClient[d]
  BY <1>0 DEF Speaks, Reply
<1>6. /\ Ends(Append(s, m))
      /\ type \notin Terminal =>
           \A i \in 1 .. Len(Append(s, m)) : Append(s, m)[i].type \notin Terminal
      /\ AllOf(s, m.op) => AllOf(Append(s, m), m.op)
      /\ OnlyPongs(s) /\ (m.type # "Pong" => Kind[m.op] # "ping") => OnlyPongs(Append(s, m))
  BY <1>2, <1>4, ReplyFacts
<1>7. Kind[m.op] # "ping"
  BY <1>1, <1>2, <1>3 DEF Conversation
<1> HIDE DEF m
<1>8. \A d \in Sockets \ {c} : server'[d] = server[d]
  BY <1>0 DEF Speaks
<1>9. type \in Terminal => server'[c] = Quiet
  BY <1>0 DEF Speaks
<1>10. type \notin Terminal => server'[c].op = server[c].op /\ server'[c].phase # "idle"
  BY DEF Speaks
<1>11. Conversation(c)'
  <2>1. CASE type \in Terminal
    BY <1>1, <1>3, <1>4, <1>5, <1>6, <1>7, <1>9, <2>1 DEF Conversation, Quiet
  <2>2. CASE type \notin Terminal
    BY <1>1, <1>3, <1>4, <1>5, <1>6, <1>7, <1>10, <2>2 DEF Conversation
  <2> QED BY <2>1, <2>2
<1>12. ~Clean(c)
  BY <1>1 DEF Clean
<1>13. \A q \in Ops : Current(q) /\ Owned(q) =>
        /\ server'[c].op \in {None, q} /\ AllOf(toClient'[c], q) /\ OpenedBy(toServer'[c], q)
  <2> SUFFICES ASSUME NEW q \in Ops, Owned(q)
               PROVE  /\ server'[c].op \in {None, q} /\ AllOf(toClient'[c], q)
                      /\ OpenedBy(toServer'[c], q)
    OBVIOUS
  <2>1. socket = c
    BY <1>1 DEF ChInv, Inv, Ownership, NoLeakedSocket, Readable
  <2>2. server[c].op = q
    BY <1>1, <2>1, OpsAssumption DEF Owned
  <2>3. AllOf(toClient'[c], q)
    BY <1>2, <1>5, <1>6, <2>1, <2>2 DEF Owned
  <2>4. server'[c].op \in {None, q}
    BY <1>9, <1>10, <2>2 DEF Quiet
  <2> QED BY <1>1, <2>1, <2>3, <2>4 DEF Owned
<1>14. \A i \in 1 .. Len(toServer'[c]) : own[toServer'[c][i].op] = c
  BY <1>1 DEF ChInv, Addressed
<1> QED BY <1>1, <1>5, <1>8, <1>11, <1>12, <1>13, <1>14, ServerKeeps

LEMMA ServerSteps == ASSUME ChInv, Inv', NEW c \in Sockets, Server(c) PROVE ChInv'
<1> DEFINE Types == {"Data", "Progress", "TimezoneUpdate", "TableColumns",
                     "EndOfStream", "Exception"}
<1>0. server \in [Sockets -> [phase : Phases, op : Ops \cup {None}, chat : Nat]]
  BY DEF ChInv, Inv, TypeOK
<1>1. CASE ServerHeader(c)
  <2>1. /\ server'[c].op = server[c].op /\ server'[c].phase # "idle"
        /\ \A d \in Sockets \ {c} : server'[d] = server[d]
    BY <1>0, <1>1 DEF ServerHeader, Enter
  <2>2. Speaks(c, "Data")
    BY <1>1, <2>1 DEF ServerHeader, Speaks, Terminal, locals, fate
  <2> QED BY <2>2, SpeaksKeeps
<1>2. CASE ServerChat(c)
  <2>1. PICK type \in Chatter : Reply(c, type)
    BY <1>2 DEF ServerChat
  <2>2. type \in {"Data", "Progress", "TimezoneUpdate", "TableColumns"}
    BY BoundsAssumption
  <2>3. /\ server'[c].op = server[c].op /\ server'[c].phase = server[c].phase
        /\ \A d \in Sockets \ {c} : server'[d] = server[d]
    BY <1>0, <1>2 DEF ServerChat
  <2>4. Speaks(c, type)
    BY <1>2, <2>1, <2>2, <2>3 DEF ServerChat, Speaks, Terminal, locals, fate
  <2> QED BY <2>2, <2>4, SpeaksKeeps
<1>3. CASE ServerFinish(c)
  <2>1. Speaks(c, "EndOfStream") \/ Speaks(c, "Exception")
    BY <1>3 DEF ServerFinish, Speaks, Terminal, locals, fate
  <2> QED BY <2>1, SpeaksKeeps
<1> QED BY <1>1, <1>2, <1>3, ServerReceiveKeeps DEF Server
-----------------------------------------------------------------------------
\* The theorems.

LEMMA InitChannels == Init => ChInv
<1> SUFFICES ASSUME Init PROVE ChInv
  OBVIOUS
<1>1. Inv
  BY InitInv
<1>2. Len(<<>>) = 0 /\ 1 .. 0 = {}
  OBVIOUS
<1>3. Conversations /\ Addressed
  BY <1>2, EmptyFacts DEF Init, Conversations, Conversation, Clean, Quiet, Addressed
<1>4. OwnTraffic /\ FreeClean
  BY DEF Init, OwnTraffic, FreeClean
<1>5. Places
  BY DEF Init, Places, AwaitsOwn, Unstarted, Timed, Awaiting, Writing, Reading
<1> QED BY <1>1, <1>3, <1>4, <1>5 DEF ChInv

\* Every step, of whichever actor, preserves the invariant.
LEMMA NextChannels ==
  ASSUME ~StaleResume, ChInv, [Next]_vars
  PROVE  ChInv'
<1>1. Inv'
  BY NextInv DEF ChInv
<1>2. CASE Close
  BY <1>1, <1>2, CloseKeeps
<1>3. CASE \E c \in Sockets : Connection(c) \/ Server(c)
  BY <1>1, <1>3, ConnectionKeeps, ServerSteps
<1>4. CASE \E o \in Ops : Begin(o)
  BY <1>1, <1>4, StartKeeps DEF Begin, StartOp, StartPing
<1>5. CASE \E o \in Ops : Timers(o) \/ Abort(o)
  BY <1>1, <1>5, TimersKeep, AbortKeeps
<1>6. CASE \E o \in Ops : Continue(o) \/ Source(o) \/ Consumer(o)
  BY <1>1, <1>6, AllManners, MannersSafe
<1>7. CASE UNCHANGED vars
  <2>1. UNCHANGED <<client, toServer, toClient, server, pc, via, own, ended, clock, net>>
    BY <1>7 DEF vars, wire, locals, fate
  <2>2. Timed'
    BY <2>1 DEF ChInv, Places, Timed, Active
  <2> QED BY <1>1, <2>1, <2>2, SilentSafe DEF Readable
<1> QED BY <1>2, <1>3, <1>4, <1>5, <1>6, <1>7 DEF Next

\* The conversations keep their order, unless the application goes on with an
\* operation of a connection that was replaced.
THEOREM ChannelInvariant ==
  ASSUME ~StaleResume
  PROVE  Spec => []ChInv
<1>1. ChInv /\ [Next]_vars => ChInv'
  BY NextChannels
<1> QED BY <1>1, InitChannels, PTL DEF Spec

LEMMA Positions ==
  ASSUME ChInv, NEW c \in Sockets
  PROVE  /\ DOMAIN toServer[c] = 1 .. Len(toServer[c])
         /\ DOMAIN toClient[c] = 1 .. Len(toClient[c])
BY LenProperties DEF ChInv, Inv, TypeOK

\* Whatever became of the operation before (ended, drained after an abandon, an
\* abort or a timeout, or failed), the next one that finds the client free and
\* connected meets a connection on which nothing is left of it: no packet to
\* read, no statement at the server or on its way there.
THEOREM ReuseIsClean ==
  ASSUME ~StaleResume
  PROVE  Spec => []CleanReuse
<1>1. ASSUME ChInv PROVE CleanReuse
  BY <1>1, Positions DEF ChInv, Inv, TypeOK, FreeClean, Clean, NoOpener, Openers, CleanReuse
<1> QED BY <1>1, ChannelInvariant, PTL

\* No operation ever reads a packet of another: what is before one that awaits
\* a packet is its own.
THEOREM ReadsOwnPackets ==
  ASSUME ~StaleResume
  PROVE  Spec => []OwnPackets
<1>1. ASSUME ChInv PROVE OwnPackets
  <2> SUFFICES ASSUME NEW o \in Ops, pc[o] \in Reading, Readable(via[o])
               PROVE  \A i \in DOMAIN toClient[via[o]] : toClient[via[o]][i].op = o
    BY DEF OwnPackets
  <2>1. Active(o) /\ Awaiting(o)
    BY DEF Active, Awaiting, Reading
  <2>2. via[o] = own[o] /\ own[o] \in Sockets
    BY <1>1, <2>1, OwnSocket DEF ChInv, Places, AwaitsOwn
  <2>3. socket = own[o]
    BY <1>1, <2>2 DEF ChInv, Inv, Ownership, NoLeakedSocket
  <2>4. Owned(o)
    BY <1>1, <2>1, <2>2, <2>3, OpsAssumption DEF ChInv, OwnTraffic, Current
  <2> QED BY <1>1, <2>2, <2>3, <2>4, Positions DEF Owned, AllOf
<1> QED BY <1>1, ChannelInvariant, PTL

\* A statement finds the server idle, and a Cancel, sent by a signal, a timer or
\* an abandoned generator, finds its own statement or none: never the next one.
THEOREM CancelReachesOwn ==
  ASSUME ~StaleResume
  PROVE  Spec => []CancelOwn
<1>1. ASSUME ChInv PROVE CancelOwn
  <2> SUFFICES ASSUME NEW c \in Sockets, toServer[c] # <<>>
               PROVE  LET m == Head(toServer[c])
                      IN /\ m.type \in {"Query", "Ping"} => server[c].phase = "idle"
                         /\ m.type = "Cancel" => server[c].op \in {None, m.op}
    BY DEF CancelOwn
  <2>1. Conversation(c) /\ toServer[c] \in Seq(ClientPackets)
    BY <1>1 DEF ChInv, Conversations, Inv, TypeOK
  <2>2. Len(toServer[c]) \in Nat \ {0} /\ Head(toServer[c]) = toServer[c][1]
    BY <2>1, TailFacts
  <2>3. 1 \in 1 .. Len(toServer[c])
    BY <2>2
  <2> QED BY <2>1, <2>2, <2>3 DEF Conversation, NoOpener, AllOf, Openers
<1> QED BY <1>1, ChannelInvariant, PTL

\* A stale operation never touches a successor connection: what is written to a
\* connection, and who reads it, are operations that started on it.
THEOREM SuccessorLeftAlone ==
  ASSUME ~StaleResume
  PROVE  Spec => []SuccessorUntouched
<1>1. ASSUME ChInv PROVE SuccessorUntouched
  <2>1. \A c \in Sockets : \A i \in DOMAIN toServer[c] : own[toServer[c][i].op] = c
    BY <1>1, Positions DEF ChInv, Addressed
  <2>2. \A o \in Ops : pc[o] \in Reading => via[o] = own[o]
    BY <1>1 DEF ChInv, Places, AwaitsOwn, Awaiting
  <2> QED BY <2>1, <2>2 DEF SuccessorUntouched
<1> QED BY <1>1, ChannelInvariant, PTL

\* An operation whose connection is gone when it ends (its await rejected, its
\* consumer let go) frees, closes and writes nothing of the client's.
THEOREM StaleEndIsQuiet ==
  ASSUME ~StaleResume
  PROVE  Spec => StaleEndsQuietly
<1>1. ASSUME ChInv, [Next]_vars, NEW o \in Ops, Active(o), ~Active(o)', own[o] # socket
      PROVE  UNCHANGED <<client, net, toServer>>
  <2>1. pc \in [Ops -> PCs] /\ pc'[o] # pc[o]
    BY <1>1 DEF ChInv, Inv, TypeOK, Active
  <2>2. ~(Close \/ (\E c \in Sockets : Connection(c) \/ Server(c)) \/ UNCHANGED vars
            \/ \E q \in Ops : Timers(q) \/ Abort(q))
    <3> SUFFICES ASSUME \/ Close \/ UNCHANGED vars
                        \/ \E c \in Sockets : Connection(c) \/ Server(c)
                        \/ \E q \in Ops : Timers(q) \/ Abort(q)
                 PROVE  pc' = pc
      BY <2>1
    <3> QED BY DEF Close, Connection, Connect, Hangup, CloseEvent, Stall, Unstall, Server,
                   ServerReceive, ServerHeader, ServerChat, ServerFinish, Timers, QueryTimer,
                   GraceTimer, DrainTimer, Abort, vars
  <2>3. ASSUME NEW q \in Ops, Begin(q) PROVE FALSE
    <3>1. pc[q] = "idle" /\ \E p : pc' = [pc EXCEPT ![q] = p]
      BY <2>3 DEF Begin, StartOp, StartPing, Start
    <3>2. q # o
      BY <1>1, <3>1 DEF Active
    <3> QED BY <2>1, <3>1, <3>2
  <2>4. PICK q \in Ops : Continue(q) \/ Source(q) \/ Consumer(q)
    BY <1>1, <2>2, <2>3 DEF Next
  <2>5. Step(q) /\ Manners(q)
    BY <1>1, <2>4, AllManners
  <2>6. q = o /\ pc'[o] = "done"
    <3>1. q = o
      BY <1>1, <2>1, <2>5, StepOutcome
    <3> QED BY <1>1, <2>5, <3>1, StepOutcome DEF Active
  <2>7. UNCHANGED <<socket, busy, net>>
    BY <1>1, <2>5, <2>6, StepOutcome
  <2>8. UNCHANGED toServer
    BY <1>1, <2>5, <2>6 DEF Manners, Puts
  <2> QED BY <2>7, <2>8 DEF client
<1>2. ChInv /\ [Next]_vars =>
        [\A o \in Ops : Active(o) /\ ~Active(o)' /\ own[o] # socket =>
           UNCHANGED <<client, net, toServer>>]_vars
  BY <1>1
<1> QED BY <1>2, ChannelInvariant, PTL DEF Spec, StaleEndsQuietly
=============================================================================
