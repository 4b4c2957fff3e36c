----------------------------- MODULE MCUdpSender -----------------------------
EXTENDS UdpSender, TLC

CONSTANTS login, command, keepalive

\* login is cut into two chunks, the others fit in one.
MCParts == [c \in {login, command, keepalive} |-> IF c = login THEN 2 ELSE 1]

=============================================================================
