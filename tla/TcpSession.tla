----------------------------- MODULE TcpSession -----------------------------
(***************************************************************************)
(* What a TcpClient promises its application, whatever aborts, timeouts,   *)
(* hangups and reconnects do: it has one connection at a time, never the   *)
(* same one twice; a connection serves one operation at a time; and an     *)
(* operation has at most one tenure, which ends for good when the          *)
(* operation does or the connection goes.                                  *)
(***************************************************************************)
CONSTANTS Ops, Sockets, None

VARIABLES
  connection,  \* the connection the client has
  owner,       \* the operation it serves
  begun,       \* the operations that have been given their tenure
  used         \* the connections the client has had

session == <<connection, owner, begun, used>>

Init ==
  /\ connection = None /\ owner = None
  /\ begun = {} /\ used = {}

Connect(c) ==
  /\ connection = None /\ c \notin used
  /\ connection' = c /\ used' = used \cup {c}
  /\ UNCHANGED <<owner, begun>>

Acquire(o) ==
  /\ connection # None /\ owner = None /\ o \notin begun
  /\ owner' = o /\ begun' = begun \cup {o}
  /\ UNCHANGED <<connection, used>>

Release ==
  /\ owner # None
  /\ owner' = None
  /\ UNCHANGED <<connection, begun, used>>

Disconnect ==
  /\ connection # None
  /\ connection' = None /\ owner' = None
  /\ UNCHANGED <<begun, used>>

Next ==
  \/ \E c \in Sockets : Connect(c)
  \/ \E o \in Ops : Acquire(o)
  \/ Release
  \/ Disconnect

Spec == Init /\ [][Next]_session
=============================================================================
