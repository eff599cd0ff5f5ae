---------------------------- MODULE PacketStream ----------------------------
(***************************************************************************)
(* What reading packets off a connection promises: packets come out whole, *)
(* in order and as soon as their last byte has arrived, and a broken       *)
(* connection is reported only in the middle of a packet, or between two.  *)
(***************************************************************************)
EXTENDS Naturals

CONSTANTS
  Count,   \* the packets of the stream
  Stop(_)  \* Stop(p): the stream position at which packet p ends

VARIABLES
  arrived,  \* bytes of the stream that have arrived
  broken,   \* no more will
  got,      \* packets read
  failed    \* the reader has given up

stream == <<arrived, broken, got, failed>>

Init == arrived = 0 /\ broken = FALSE /\ got = 0 /\ failed = FALSE

Arrive ==
  /\ ~broken /\ arrived < Stop(Count)
  /\ arrived' \in arrived + 1 .. Stop(Count)
  /\ UNCHANGED <<broken, got, failed>>

Break ==
  /\ ~broken /\ broken' = TRUE
  /\ UNCHANGED <<arrived, got, failed>>

Read ==
  /\ ~failed /\ got < Count /\ Stop(got + 1) <= arrived
  /\ got' = got + 1
  /\ UNCHANGED <<arrived, broken, failed>>

Report ==
  /\ ~failed /\ broken /\ got < Count /\ Stop(got + 1) > arrived
  /\ failed' = TRUE
  /\ UNCHANGED <<arrived, broken, got>>

Next == Arrive \/ Break \/ Read \/ Report

Spec == Init /\ [][Next]_stream /\ WF_stream(Read) /\ WF_stream(Report)
=============================================================================
