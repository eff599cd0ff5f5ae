------------------------ MODULE MCStreamingReader ------------------------
\* Instances of StreamingReader for TLC.
EXTENDS StreamingReader

Fields(stops) == [kind |-> "fields", stops |-> stops, cuts |-> <<>>]
Block(stop, cuts) == [kind |-> "block", stops |-> <<stop>>, cuts |-> cuts]
Packed(stops, cuts) == [kind |-> "packed", stops |-> stops, cuts |-> cuts]

\* A packet id and name, a block of two columns, a value longer than the pause
\* threshold, a compressed block in two frames, a drained one in one frame, and
\* the end of the stream.
MCScript == <<Fields(<<1, 2>>), Block(7, <<1, 3, 5>>), Fields(<<8, 13>>),
              Packed(<<16, 18>>, <<1, 2, 3>>), Fields(<<19>>),
              Packed(<<21>>, <<1>>), Fields(<<22>>)>>
=============================================================================
