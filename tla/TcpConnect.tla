----------------------------- MODULE TcpConnect -----------------------------
(***************************************************************************)
(* TcpClient.connect() of src/tcp_client/client.ts: the race between the   *)
(* handshake, the connect timer and the abort signal, close() at any time, *)
(* and attempts that follow or overlap one another on one client.          *)
(*                                                                         *)
(* A call of connect() creates at most one socket, so the socket is named  *)
(* by its attempt.  race is the promise connect() returns; inner is        *)
(* onConnected(), which nobody cancels: it goes on after the race is lost. *)
(* The connect timer and the abort listener live exactly as long as        *)
(* race = "waiting" (cleanup() in the finally block).  A step is what runs *)
(* in one turn of the event loop, promise reactions included.              *)
(***************************************************************************)

CONSTANTS
  Attempts,   \* the calls of connect()
  None,       \* JavaScript null
  Overlap     \* when connect() may be called again: see MayCall

ASSUME AttemptsAssumption == None \notin Attempts
ASSUME OverlapAssumption == Overlap \in {"given up", "any"}

VARIABLES
  socket,   \* this.socket
  reader,   \* the socket this.reader reads, None when this.reader is null
  hello,    \* the attempt that set this._serverHello
  net,      \* the life of each attempt's socket
  race,     \* where connect() itself is
  inner,    \* where its onConnected() is
  via,      \* the socket the handshake of onConnected() goes over
  aborted   \* signal.aborted

held == <<socket, reader, hello>>
vars == <<held, net, race, inner, via, aborted>>

TypeOK ==
  /\ {socket, reader, hello} \subseteq Attempts \cup {None}
  /\ net \in [Attempts -> {"unused", "live", "ended", "destroyed", "closed"}]
  /\ race \in [Attempts -> {"idle", "init", "waiting", "connected", "failed"}]
  /\ inner \in [Attempts -> {"off", "dialing", "greeting", "addendum", "over"}]
  /\ via \in [Attempts -> Attempts \cup {None}]
  /\ aborted \in [Attempts -> BOOLEAN]
  /\ \A a \in Attempts : inner[a] \in {"greeting", "addendum"} => via[a] \in Attempts

Init ==
  /\ socket = None /\ reader = None /\ hello = None
  /\ net = [a \in Attempts |-> "unused"]
  /\ race = [a \in Attempts |-> "idle"]
  /\ inner = [a \in Attempts |-> "off"]
  /\ via = [a \in Attempts |-> None]
  /\ aborted = [a \in Attempts |-> FALSE]

-----------------------------------------------------------------------------
Alive == {"live", "ended"}
Destroy(c, n) == [d \in Attempts |-> IF d = c /\ n[d] \in Alive THEN "destroyed" ELSE n[d]]

\* Mutant: the server's greeting outlives the connection.
ForgetAllButHello == socket' = None /\ reader' = None /\ UNCHANGED hello

Forget == socket' = None /\ reader' = None /\ hello' = None

\* teardown(): forget the connection, whoever made it, and destroy its socket.
Teardown == Forget /\ net' = Destroy(socket, net)

\* An event that leaves the sockets as n rejects connectPromise for the attempts
\* in lost.  Where the race is still on, connect() fails, and its catch block
\* tears down whatever connection the client has by then; torn says whether the
\* event does so anyway.
Reject(lost, n, torn) ==
  LET failing == {a \in lost : race[a] = "waiting"}
  IN /\ inner' = [a \in Attempts |-> IF a \in lost THEN "over" ELSE inner[a]]
     /\ race' = [a \in Attempts |-> IF a \in failing THEN "failed" ELSE race[a]]
     /\ IF torn \/ failing # {}
        THEN Forget /\ net' = Destroy(socket, n)
        ELSE net' = n /\ UNCHANGED held

\* connect() fails on its timer or signal, which tears down too; onConnected()
\* does not notice.
Lose(a) ==
  /\ Teardown
  /\ race' = [race EXCEPT ![a] = "failed"]
  /\ UNCHANGED <<inner, via>>

\* The handshakes under way over c.
Over(c, points) == {a \in Attempts : inner[a] \in points /\ via[a] = c}

-----------------------------------------------------------------------------
\* The application calls connect() once the earlier calls have returned, or
\* close() has given them up, unless Overlap lets it call at any time.
Pending(a) == race[a] \in {"init", "waiting"}
GivenUp(a) == race[a] = "waiting" /\ socket = None
MayCall == Overlap = "any" \/ \A a \in Attempts : Pending(a) => GivenUp(a)

\* Mutant: no look at what the client holds.
CallUnchecked(a) ==
  /\ race[a] = "idle" /\ MayCall
  /\ race' = [race EXCEPT ![a] = "init"]
  /\ UNCHANGED <<held, net, inner, via, aborted>>

Call(a) ==
  /\ race[a] = "idle" /\ MayCall
  /\ race' = [race EXCEPT ![a] = IF socket = None /\ reader = None /\ hello = None
                                 THEN "init" ELSE "failed"]
  /\ UNCHANGED <<held, net, inner, via, aborted>>

\* initCompression() resolves: a socket is created, without another look at what
\* the client holds by now, and the timer is armed.
Dial(a) ==
  /\ race[a] = "init"
  /\ race' = [race EXCEPT ![a] = "waiting"]
  /\ inner' = [inner EXCEPT ![a] = "dialing"]
  /\ socket' = a
  /\ net' = [net EXCEPT ![a] = "live"]
  /\ UNCHANGED <<reader, hello, via, aborted>>

\* initCompression() rejects, outside the try block.
InitFails(a) ==
  /\ race[a] = "init"
  /\ race' = [race EXCEPT ![a] = "failed"]
  /\ UNCHANGED <<held, net, inner, via, aborted>>

\* "connect": onConnected() builds a reader on this.socket and sends hello.
Connected(a) ==
  /\ net[a] = "live" /\ inner[a] = "dialing"
  /\ IF aborted[a] \/ socket = None
     THEN Reject({a}, net, FALSE) /\ UNCHANGED via
     ELSE /\ reader' = socket
          /\ via' = [via EXCEPT ![a] = socket]
          /\ inner' = [inner EXCEPT ![a] = "greeting"]
          /\ UNCHANGED <<socket, hello, net, race>>
  /\ UNCHANGED aborted

\* The server's Hello arrives, is accepted, and the addendum is written.  Close
\* events run before another connection can have had its Hello.
Greeting(a) ==
  /\ inner[a] = "greeting" /\ net[via[a]] = "live"
  /\ \A c \in Attempts : net[c] # "destroyed"
  /\ IF reader = None
     THEN Reject({a}, net, FALSE)
     ELSE /\ hello' = a
          /\ inner' = [inner EXCEPT ![a] = "addendum"]
          /\ UNCHANGED <<socket, reader, net, race>>
  /\ UNCHANGED <<via, aborted>>

\* An Exception, an unexpected packet, chunked framing: the handshake throws.
GreetingRefused(a) ==
  /\ inner[a] = "greeting" /\ net[via[a]] = "live"
  /\ Reject({a}, net, FALSE)
  /\ UNCHANGED <<via, aborted>>

\* Mutant: the addendum's write callback ignores its error.
AddendumSentRegardless(a) ==
  /\ inner[a] = "addendum"
  /\ inner' = [inner EXCEPT ![a] = "over"]
  /\ race' = [race EXCEPT ![a] = IF @ = "waiting" THEN "connected" ELSE @]
  /\ UNCHANGED <<held, net, via, aborted>>

\* The addendum is flushed: connect() resolves if its race is still on.
AddendumSent(a) ==
  /\ inner[a] = "addendum" /\ net[via[a]] \in Alive
  /\ inner' = [inner EXCEPT ![a] = "over"]
  /\ race' = [race EXCEPT ![a] = IF @ = "waiting" THEN "connected" ELSE @]
  /\ UNCHANGED <<held, net, via, aborted>>

-----------------------------------------------------------------------------
\* "error" (refused, unreachable, reset) rejects the promise of the attempt the
\* socket belongs to, and what waits on the socket.
SocketError(c) ==
  /\ net[c] \in Alive
  /\ Reject({c} \cup Over(c, {"greeting", "addendum"}), [net EXCEPT ![c] = "destroyed"], FALSE)
  /\ UNCHANGED <<via, aborted>>

\* "end": the server hangs up, and a handshake still reading runs dry.
Hangup(c) ==
  /\ net[c] = "live" /\ inner[c] # "dialing"
  /\ Reject(Over(c, {"greeting"}), [net EXCEPT ![c] = "ended"], FALSE)
  /\ UNCHANGED <<via, aborted>>

\* "close": teardown, if it is the client's socket; what still waits on it
\* rejects.
CloseEvent(c) ==
  /\ net[c] \in {"ended", "destroyed"}
  /\ Reject(Over(c, {"greeting", "addendum"}), [net EXCEPT ![c] = "closed"], socket = c)
  /\ UNCHANGED <<via, aborted>>

\* close()
Close ==
  /\ socket # None
  /\ Teardown
  /\ UNCHANGED <<race, inner, via, aborted>>

\* Mutant: cleanup() has already cleared the timer of a given-up connect().
TimerCleared(a) == race[a] = "waiting" /\ socket = a /\ Lose(a) /\ UNCHANGED aborted

\* The connect timer tears down, whatever the client has connected to by then.
Timer(a) == race[a] = "waiting" /\ Lose(a) /\ UNCHANGED aborted

\* Before the socket is created nothing listens to the signal yet.
Abort(a) ==
  /\ race[a] # "idle" /\ ~aborted[a]
  /\ aborted' = [aborted EXCEPT ![a] = TRUE]
  /\ IF race[a] = "waiting" THEN Lose(a) ELSE UNCHANGED <<held, net, race, inner, via>>

Attempt(a) == Call(a) \/ Dial(a) \/ InitFails(a) \/ Connected(a) \/ Greeting(a)
              \/ GreetingRefused(a) \/ AddendumSent(a) \/ Timer(a) \/ Abort(a)
Network(c) == SocketError(c) \/ Hangup(c) \/ CloseEvent(c)
Next == Close \/ \E a \in Attempts : Attempt(a) \/ Network(a)

Spec == Init /\ [][Next]_vars

\* Timers fire and close events are reported; nothing makes the network or the
\* server answer.
FairSpec == Spec /\ \A a \in Attempts : WF_vars(Timer(a)) /\ WF_vars(CloseEvent(a))

-----------------------------------------------------------------------------
\* The connection is there in whole or in part only while its own attempt is
\* under way or has succeeded: a failed, aborted, timed-out or closed connect()
\* leaves nothing behind that would make every later one "Already connected".
WholeOrNothing ==
  /\ hello # None => reader = hello
  /\ reader # None => socket = reader
  /\ socket # None => race[socket] \in {"waiting", "connected"}

\* No socket is forgotten alive: the only live one is this.socket.
NoOrphan == \A c \in Attempts : net[c] \in Alive => socket = c

\* connect() resolves only into a connection that is the client's at that very
\* moment, with its reader and its greeting, whatever close(), the timer and the
\* abort signal do meanwhile.
ResolvedIsUsable ==
  [][\A a \in Attempts : race[a] # "connected" /\ race'[a] = "connected" =>
       socket' = a /\ reader' = a /\ hello' = a /\ net'[a] \in Alive]_vars

\* "connect refuses to replace an active socket."
NoReplacement == [][socket # None => socket' \in {socket, None}]_vars

\* "a stale operation never touches a successor connection": an attempt that
\* fails leaves the connection of another attempt alone.
AttemptsKeepApart ==
  [][\A a, b \in Attempts : a # b /\ race[b] = "waiting" /\ race'[b] = "failed" /\ socket = a =>
       UNCHANGED held]_vars

\* connect() returns, even when close() destroyed its socket before it was
\* connected, so that no event of the socket settles it.
ConnectReturns == \A a \in Attempts : race[a] = "waiting" ~> ~Pending(a)
=============================================================================
