---------------------------- MODULE MCTcpConnect ----------------------------
\* Instances of TcpConnect for TLC.
EXTENDS TcpConnect

CONSTANTS a1, a2, a3
Three == {a1, a2, a3}
=============================================================================
