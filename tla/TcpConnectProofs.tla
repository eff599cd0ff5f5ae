-------------------------- MODULE TcpConnectProofs --------------------------
(***************************************************************************)
(* Theorems about connect() for any number of attempts: types hold however *)
(* attempts overlap, and where the application calls connect() only after  *)
(* earlier calls have returned or close() has given them up, nothing is    *)
(* left half connected, no socket is forgotten alive, a resolved connect() *)
(* is usable and no connection is replaced.                                *)
(***************************************************************************)
EXTENDS TcpConnect, TLAPS

-----------------------------------------------------------------------------
\* Types.

LEMMA DestroyTyped ==
  ASSUME TypeOK, NEW c,
         NEW n \in [Attempts -> {"unused", "live", "ended", "destroyed", "closed"}]
  PROVE  Destroy(c, n) \in [Attempts -> {"unused", "live", "ended", "destroyed", "closed"}]
BY DEF Destroy, TypeOK

LEMMA RejectTyped ==
  ASSUME TypeOK, NEW lost, NEW torn,
         NEW n \in [Attempts -> {"unused", "live", "ended", "destroyed", "closed"}],
         Reject(lost, n, torn), UNCHANGED <<via, aborted>>
  PROVE  TypeOK'
BY DestroyTyped DEF Reject, TypeOK, Forget, held

LEMMA LoseTyped ==
  ASSUME TypeOK, NEW a \in Attempts, Lose(a), aborted' \in [Attempts -> BOOLEAN]
  PROVE  TypeOK'
BY DestroyTyped DEF Lose, Teardown, TypeOK, Forget

LEMMA TypeNext == TypeOK /\ [Next]_vars => TypeOK'
<1> SUFFICES ASSUME TypeOK, [Next]_vars PROVE TypeOK'
  OBVIOUS
<1>1. CASE Close
  BY <1>1, DestroyTyped DEF Close, Teardown, Forget, TypeOK
<1>2. ASSUME NEW a \in Attempts, Attempt(a) PROVE TypeOK'
  <2>1. CASE Call(a) \/ Dial(a) \/ InitFails(a) \/ AddendumSent(a)
    BY <2>1 DEF Call, Dial, InitFails, AddendumSent, TypeOK, held
  <2>2. CASE Connected(a)
    <3>1. CASE aborted[a] \/ socket = None
      BY <2>2, <3>1, RejectTyped DEF Connected, TypeOK
    <3>2. CASE ~(aborted[a] \/ socket = None)
      BY <2>2, <3>2 DEF Connected, TypeOK
    <3> QED BY <3>1, <3>2
  <2>3. CASE Greeting(a)
    <3>1. CASE reader = None
      BY <2>3, <3>1, RejectTyped DEF Greeting, TypeOK
    <3>2. CASE reader # None
      BY <2>3, <3>2 DEF Greeting, TypeOK
    <3> QED BY <3>1, <3>2
  <2>4. CASE GreetingRefused(a)
    BY <2>4, RejectTyped DEF GreetingRefused, TypeOK
  <2>5. CASE Timer(a)
    BY <2>5, LoseTyped DEF Timer, TypeOK
  <2>6. CASE Abort(a)
    <3>1. aborted' \in [Attempts -> BOOLEAN]
      BY <2>6 DEF Abort, TypeOK
    <3>2. CASE race[a] = "waiting"
      BY <2>6, <3>1, <3>2, LoseTyped DEF Abort
    <3>3. CASE race[a] # "waiting"
      BY <2>6, <3>1, <3>3 DEF Abort, TypeOK, held
    <3> QED BY <3>2, <3>3
  <2> QED BY <1>2, <2>1, <2>2, <2>3, <2>4, <2>5, <2>6 DEF Attempt
<1>3. ASSUME NEW c \in Attempts, Network(c) PROVE TypeOK'
  <2>1. CASE SocketError(c)
    BY <2>1, RejectTyped DEF SocketError, TypeOK
  <2>2. CASE Hangup(c)
    BY <2>2, RejectTyped DEF Hangup, TypeOK
  <2>3. CASE CloseEvent(c)
    BY <2>3, RejectTyped DEF CloseEvent, TypeOK
  <2> QED BY <1>3, <2>1, <2>2, <2>3 DEF Network
<1>4. CASE UNCHANGED vars
  BY <1>4 DEF vars, held, TypeOK
<1> QED BY <1>1, <1>2, <1>3, <1>4 DEF Next

LEMMA TypeInit == Init => TypeOK
BY DEF Init, TypeOK

\* Every field keeps its type, however calls of connect() overlap (the fields of
\* TcpClient and the locals of connect()).
THEOREM ConnectTypes == Spec => []TypeOK
<1> QED BY TypeInit, TypeNext, PTL DEF Spec

-----------------------------------------------------------------------------
\* The inductive invariant.

\* While an attempt is still loading compression the client holds nothing, and no
\* other attempt is at that point.
LoadsAlone ==
  \A a \in Attempts : race[a] = "init" =>
    /\ socket = None /\ reader = None /\ hello = None
    /\ \A b \in Attempts : race[b] = "init" => b = a

\* onConnected() talks over the socket its own attempt created, and once greeted
\* it has left its greeting with that socket.
OverOwnSocket ==
  \A a \in Attempts :
    /\ inner[a] \in {"greeting", "addendum"} => via[a] = a
    /\ inner[a] = "addendum" /\ socket = a => hello = a

Inv == TypeOK /\ LoadsAlone /\ OverOwnSocket /\ WholeOrNothing /\ NoOrphan

\* What most steps are: attempts fail or handshakes give up, sockets die, and
\* either the client keeps what it holds or it forgets all of it.
Shrinks ==
  /\ UNCHANGED held \/ Forget
  /\ \A c \in Attempts : net'[c] \in Alive => net[c] \in Alive /\ UNCHANGED held
  /\ \A a \in Attempts : race'[a] = race[a] \/ (race'[a] = "failed" /\ socket' # a)
  /\ \A a \in Attempts : inner'[a] \in {inner[a], "over"}
  /\ UNCHANGED via

LEMMA ShrinksSafe == ASSUME Inv, TypeOK', Shrinks PROVE Inv'
<1> USE DEF Inv, Shrinks
<1>1. LoadsAlone'
  BY DEF LoadsAlone, held, Forget
<1>2. OverOwnSocket'
  BY AttemptsAssumption DEF OverOwnSocket, held, Forget
<1>3. WholeOrNothing'
  BY DEF WholeOrNothing, held, Forget, TypeOK
<1>4. NoOrphan'
  BY DEF NoOrphan, held
<1> QED BY <1>1, <1>2, <1>3, <1>4

LEMMA RejectShrinks ==
  ASSUME Inv, NEW lost, NEW torn,
         NEW n \in [Attempts -> {"unused", "live", "ended", "destroyed", "closed"}],
         \A c \in Attempts : n[c] \in Alive => net[c] \in Alive,
         Reject(lost, n, torn), UNCHANGED via
  PROVE  Shrinks
<1> DEFINE failing == {a \in lost : race[a] = "waiting"}
<1>1. \A a \in Attempts : inner'[a] \in {inner[a], "over"}
  BY DEF Reject
<1>2. CASE torn \/ failing # {}
  <2>1. Forget /\ net' = Destroy(socket, n)
    BY <1>2 DEF Reject
  <2>2. \A c \in Attempts : net'[c] \notin Alive
    BY <2>1 DEF Destroy, Inv, NoOrphan, Alive
  <2>3. \A a \in Attempts : race'[a] = race[a] \/ (race'[a] = "failed" /\ socket' # a)
    BY <2>1, AttemptsAssumption DEF Reject, Forget
  <2> QED BY <1>1, <2>1, <2>2, <2>3 DEF Shrinks
<1>3. CASE ~(torn \/ failing # {})
  <2>1. net' = n /\ UNCHANGED held
    BY <1>3 DEF Reject
  <2>2. \A a \in Attempts : race'[a] = race[a]
    BY <1>3 DEF Reject
  <2> QED BY <1>1, <2>1, <2>2 DEF Shrinks
<1> QED BY <1>2, <1>3

LEMMA TeardownShrinks ==
  ASSUME Inv, Teardown
  PROVE  Forget /\ \A c \in Attempts : net'[c] \notin Alive
BY DEF Teardown, Destroy, Inv, NoOrphan, Alive

LEMMA LoseShrinks == ASSUME Inv, NEW a \in Attempts, Lose(a) PROVE Shrinks
<1>1. \A b \in Attempts : race'[b] = race[b] \/ race'[b] = "failed"
  BY DEF Lose, Inv, TypeOK
<1> QED BY <1>1, TeardownShrinks, AttemptsAssumption DEF Lose, Shrinks, Forget

\* connect() is called only when nothing is at the same point, and looks at all
\* three fields.
LEMMA CallSafe ==
  ASSUME Inv, TypeOK', NEW a \in Attempts, Call(a), Overlap = "given up" PROVE Inv'
<1> USE DEF Inv
<1>1. \A b \in Attempts : race[b] # "init"
  BY DEF Call, MayCall, Pending, GivenUp
<1>2. UNCHANGED <<socket, reader, hello, net, inner, via>>
  BY DEF Call, held
<1>3. \A b \in Attempts \ {a} : race'[b] = race[b]
  <2> DEFINE answer == IF socket = None /\ reader = None /\ hello = None THEN "init" ELSE "failed"
  <2>1. race' = [race EXCEPT ![a] = answer]
    BY DEF Call
  <2>2. DOMAIN race = Attempts
    BY DEF TypeOK
  <2> QED BY <2>1, <2>2, Zenon
<1>4. race'[a] = "init" => socket = None /\ reader = None /\ hello = None
  BY DEF Call, TypeOK
<1>5. LoadsAlone'
  BY <1>1, <1>2, <1>3, <1>4 DEF LoadsAlone
<1>6. WholeOrNothing'
  BY <1>2, <1>3 DEF WholeOrNothing, Call, TypeOK
<1>7. OverOwnSocket' /\ NoOrphan'
  BY <1>2 DEF OverOwnSocket, NoOrphan
<1> QED BY <1>5, <1>6, <1>7

\* A socket is created only while the client holds nothing.
LEMMA DialSafe == ASSUME Inv, TypeOK', NEW a \in Attempts, Dial(a) PROVE Inv'
<1> USE DEF Inv, Dial
<1>1. socket = None /\ reader = None /\ hello = None /\ \A b \in Attempts \ {a} : race[b] # "init"
  BY DEF LoadsAlone
<1>2. \A c \in Attempts : net[c] \notin Alive
  BY <1>1, AttemptsAssumption DEF NoOrphan
<1>3. LoadsAlone'
  BY <1>1 DEF LoadsAlone, TypeOK
<1>4. OverOwnSocket'
  BY <1>1 DEF OverOwnSocket, TypeOK
<1>5. WholeOrNothing'
  BY <1>1 DEF WholeOrNothing, TypeOK
<1>6. NoOrphan'
  BY <1>2 DEF NoOrphan, TypeOK
<1> QED BY <1>3, <1>4, <1>5, <1>6

\* onConnected() builds its reader on this.socket, which is its own.
LEMMA ConnectedSafe == ASSUME Inv, TypeOK', NEW a \in Attempts, Connected(a) PROVE Inv'
<1> USE DEF Inv
<1>1. CASE aborted[a] \/ socket = None
  BY <1>1, RejectShrinks, ShrinksSafe DEF Connected, TypeOK
<1>2. CASE ~(aborted[a] \/ socket = None)
  <2>1. socket = a
    BY DEF Connected, NoOrphan, Alive
  <2>2. /\ reader' = a /\ via' = [via EXCEPT ![a] = a]
        /\ inner' = [inner EXCEPT ![a] = "greeting"]
        /\ UNCHANGED <<socket, hello, net, race>>
    BY <1>2, <2>1 DEF Connected
  <2>3. LoadsAlone'
    BY <1>2, <2>2 DEF LoadsAlone
  <2>4. OverOwnSocket'
    BY <2>2 DEF OverOwnSocket, TypeOK
  <2>5. WholeOrNothing' /\ NoOrphan'
    BY <2>1, <2>2 DEF WholeOrNothing, NoOrphan
  <2> QED BY <2>3, <2>4, <2>5
<1> QED BY <1>1, <1>2

\* The greeting goes with the reader and the socket of its own attempt.
LEMMA GreetingSafe == ASSUME Inv, TypeOK', NEW a \in Attempts, Greeting(a) PROVE Inv'
<1> USE DEF Inv
<1>1. CASE reader = None
  BY <1>1, RejectShrinks, ShrinksSafe DEF Greeting, TypeOK
<1>2. CASE reader # None
  <2>1. socket = a /\ reader = a
    BY <1>2 DEF Greeting, OverOwnSocket, NoOrphan, Alive, WholeOrNothing
  <2>2. /\ hello' = a /\ inner' = [inner EXCEPT ![a] = "addendum"]
        /\ UNCHANGED <<socket, reader, net, race, via>>
    BY <1>2 DEF Greeting
  <2>3. LoadsAlone'
    BY <2>1, <2>2, AttemptsAssumption DEF LoadsAlone
  <2>4. OverOwnSocket'
    BY <2>1, <2>2 DEF OverOwnSocket, TypeOK, Greeting
  <2>5. WholeOrNothing' /\ NoOrphan'
    BY <2>1, <2>2 DEF WholeOrNothing, NoOrphan
  <2> QED BY <2>3, <2>4, <2>5
<1> QED BY <1>1, <1>2

LEMMA AddendumSentSafe == ASSUME Inv, TypeOK', NEW a \in Attempts, AddendumSent(a) PROVE Inv'
<1> USE DEF Inv
<1>1. /\ UNCHANGED <<socket, reader, hello, net, via>>
      /\ \A b \in Attempts : inner'[b] \in {inner[b], "over"}
      /\ \A b \in Attempts : race'[b] = race[b] \/ (race[b] = "waiting" /\ race'[b] = "connected")
  BY DEF AddendumSent, held, TypeOK
<1>2. LoadsAlone' /\ OverOwnSocket' /\ NoOrphan'
  BY <1>1 DEF LoadsAlone, OverOwnSocket, NoOrphan
<1>3. WholeOrNothing'
  BY <1>1 DEF WholeOrNothing, TypeOK
<1> QED BY <1>2, <1>3

LEMMA NextInv == ASSUME Overlap = "given up", Inv, [Next]_vars PROVE Inv'
<1> USE DEF Inv
<1>0. TypeOK'
  BY TypeNext
<1>1. CASE Close
  BY <1>0, <1>1, TeardownShrinks, ShrinksSafe, AttemptsAssumption DEF Close, Shrinks
<1>2. ASSUME NEW a \in Attempts, Attempt(a) PROVE Inv'
  <2>1. CASE InitFails(a)
    <3>1. socket # a
      BY <2>1, AttemptsAssumption DEF InitFails, LoadsAlone
    <3> QED BY <1>0, <2>1, <3>1, ShrinksSafe, ZenonT(60) DEF InitFails, Shrinks, held, TypeOK
  <2>2. CASE GreetingRefused(a)
    BY <1>0, <2>2, RejectShrinks, ShrinksSafe DEF GreetingRefused, TypeOK
  <2>3. CASE Timer(a)
    BY <1>0, <2>3, LoseShrinks, ShrinksSafe DEF Timer
  <2>4. CASE Abort(a)
    <3>1. CASE race[a] = "waiting"
      BY <1>0, <2>4, <3>1, LoseShrinks, ShrinksSafe DEF Abort
    <3>2. CASE race[a] # "waiting"
      BY <1>0, <2>4, <3>2, ShrinksSafe DEF Abort, Shrinks, held
    <3> QED BY <3>1, <3>2
  <2> QED BY <1>0, <1>2, <2>1, <2>2, <2>3, <2>4, CallSafe, DialSafe, ConnectedSafe,
             GreetingSafe, AddendumSentSafe DEF Attempt
<1>3. ASSUME NEW c \in Attempts, Network(c) PROVE Inv'
  <2>1. CASE SocketError(c)
    <3> DEFINE n == [net EXCEPT ![c] = "destroyed"]
    <3>1. \A d \in Attempts : n[d] \in Alive => net[d] \in Alive
      BY DEF Alive, TypeOK
    <3> QED BY <1>0, <2>1, <3>1, RejectShrinks, ShrinksSafe DEF SocketError, TypeOK
  <2>2. CASE Hangup(c)
    <3> DEFINE n == [net EXCEPT ![c] = "ended"]
    <3>1. \A d \in Attempts : n[d] \in Alive => net[d] \in Alive
      BY <2>2 DEF Hangup, Alive, TypeOK
    <3> QED BY <1>0, <2>2, <3>1, RejectShrinks, ShrinksSafe DEF Hangup, TypeOK
  <2>3. CASE CloseEvent(c)
    <3> DEFINE n == [net EXCEPT ![c] = "closed"]
    <3>1. \A d \in Attempts : n[d] \in Alive => net[d] \in Alive
      BY DEF Alive, TypeOK
    <3> QED BY <1>0, <2>3, <3>1, RejectShrinks, ShrinksSafe DEF CloseEvent, TypeOK
  <2> QED BY <1>3, <2>1, <2>2, <2>3 DEF Network
<1>4. CASE UNCHANGED vars
  BY <1>0, <1>4, ShrinksSafe DEF vars, held, Shrinks
<1> QED BY <1>1, <1>2, <1>3, <1>4 DEF Next

LEMMA InitInv == Init => Inv
BY TypeInit, AttemptsAssumption
   DEF Init, Inv, LoadsAlone, OverOwnSocket, WholeOrNothing, NoOrphan, Alive

-----------------------------------------------------------------------------
\* What follows from it.

LEMMA Invariance == ASSUME Overlap = "given up" PROVE Spec => []Inv
<1>1. Inv /\ [Next]_vars => Inv'
  BY NextInv
<1> QED BY <1>1, InitInv, PTL DEF Spec

\* A failed, aborted, timed-out or closed connect() leaves nothing behind (the
\* catch block and teardown() of connect(), client.ts).
THEOREM NothingHalfConnected == ASSUME Overlap = "given up" PROVE Spec => []WholeOrNothing
<1>1. Inv => WholeOrNothing
  BY DEF Inv
<1> QED BY <1>1, Invariance, PTL

\* Whatever close(), the timer and the signal do, the only socket alive is
\* this.socket.
THEOREM SocketNotForgotten == ASSUME Overlap = "given up" PROVE Spec => []NoOrphan
<1>1. Inv => NoOrphan
  BY DEF Inv
<1> QED BY <1>1, Invariance, PTL

\* connect() resolves only into a connection that is the client's, alive, with its
\* reader and its greeting: at that point onConnected() has run on its own socket.
THEOREM ResolvesUsable == ASSUME Overlap = "given up" PROVE Spec => ResolvedIsUsable
<1> DEFINE Usable == \A a \in Attempts : race[a] # "connected" /\ race'[a] = "connected" =>
                       socket' = a /\ reader' = a /\ hello' = a /\ net'[a] \in Alive
<1>1. ASSUME Inv, [Next]_vars, NEW a \in Attempts, race[a] # "connected", race'[a] = "connected"
      PROVE  socket' = a /\ reader' = a /\ hello' = a /\ net'[a] \in Alive
  <2>1. AddendumSent(a)
    <3>1. ~UNCHANGED race
      BY <1>1
    <3>2. ASSUME NEW b \in Attempts, Lose(b) PROVE FALSE
      BY <1>1, <3>2 DEF Lose, Inv, TypeOK
    <3>3. ASSUME NEW lost, NEW n, NEW torn, Reject(lost, n, torn) PROVE FALSE
      BY <1>1, <3>3 DEF Reject
    <3>4. ASSUME NEW b \in Attempts, AddendumSent(b) PROVE b = a
      BY <1>1, <3>4 DEF AddendumSent, Inv, TypeOK
    <3>5. ASSUME NEW b \in Attempts, Call(b) \/ Dial(b) \/ InitFails(b) PROVE FALSE
      BY <1>1, <3>5 DEF Call, Dial, InitFails, Inv, TypeOK
    <3>6. ASSUME NEW b \in Attempts, Connected(b) \/ Greeting(b) \/ GreetingRefused(b) PROVE FALSE
      BY <3>1, <3>3, <3>6 DEF Connected, Greeting, GreetingRefused
    <3>7. ASSUME NEW b \in Attempts, Timer(b) \/ Abort(b) PROVE FALSE
      BY <3>1, <3>2, <3>7 DEF Timer, Abort
    <3>8. ASSUME NEW b \in Attempts, Network(b) PROVE FALSE
      BY <3>3, <3>8 DEF Network, SocketError, Hangup, CloseEvent
    <3> QED BY <1>1, <3>1, <3>4, <3>5, <3>6, <3>7, <3>8 DEF Next, Attempt, Close, vars
  <2>2. inner[a] = "addendum" /\ via[a] = a /\ net[a] \in Alive
    BY <1>1, <2>1 DEF AddendumSent, Inv, OverOwnSocket
  <2>3. socket = a /\ hello = a
    BY <1>1, <2>2 DEF Inv, OverOwnSocket, NoOrphan
  <2>4. reader = a
    BY <1>1, <2>3, AttemptsAssumption DEF Inv, WholeOrNothing
  <2> QED BY <2>1, <2>2, <2>3, <2>4 DEF AddendumSent, held
<1>2. Inv /\ [Next]_vars => [Usable]_vars
  BY <1>1
<1> QED BY <1>2, Invariance, PTL DEF Spec, ResolvedIsUsable

\* "connect refuses to replace an active socket": the check at the top of connect()
\* is enough when calls do not overlap, although an await separates it from the
\* assignment.
THEOREM SocketNotReplaced == ASSUME Overlap = "given up" PROVE Spec => NoReplacement
<1>1. ASSUME Inv, [Next]_vars, socket # None PROVE socket' \in {socket, None}
  <2>1. ASSUME NEW b \in Attempts, Dial(b) PROVE FALSE
    BY <1>1, <2>1 DEF Dial, Inv, LoadsAlone
  <2>2. ASSUME NEW lost, NEW n, NEW torn, Reject(lost, n, torn) PROVE socket' \in {socket, None}
    BY <2>2 DEF Reject, Forget, held
  <2>3. ASSUME NEW b \in Attempts, Attempt(b) PROVE socket' \in {socket, None}
    BY <2>1, <2>2, <2>3
       DEF Attempt, Call, InitFails, Connected, Greeting, GreetingRefused, AddendumSent,
           Timer, Abort, Lose, Teardown, Forget, held
  <2>4. ASSUME NEW b \in Attempts, Network(b) PROVE socket' \in {socket, None}
    BY <2>2, <2>4 DEF Network, SocketError, Hangup, CloseEvent
  <2> QED BY <1>1, <2>3, <2>4 DEF Next, Close, Teardown, Forget, vars, held
<1>2. Inv /\ [Next]_vars => [socket # None => socket' \in {socket, None}]_vars
  BY <1>1
<1> QED BY <1>2, Invariance, PTL DEF Spec, NoReplacement
=============================================================================
