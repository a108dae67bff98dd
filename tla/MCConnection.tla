---------------------------- MODULE MCConnection ----------------------------
EXTENDS Connection

\* A lights command is one of a frame's, long enough for several packets.
MCPackets == [k \in Kind |-> IF k = "lights" THEN 2 ELSE 1]

=============================================================================
