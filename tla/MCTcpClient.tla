---------------------------- MODULE MCTcpClient ----------------------------
\* Instances of TcpClient for TLC: a is a query, b an insert, c a ping.
EXTENDS TcpClient

CONSTANTS a, b, c

KindOf == [o \in Ops |-> CASE o = a -> "query" [] o = b -> "insert" [] o = c -> "ping"]
OnlyA == {a}
=============================================================================
