---------------------------- MODULE MCSystemBus ----------------------------
(* Three servers for the run system_bus; one of them has a WebSocket.  The    *)
(* data of the first message is the first byte of a message.                  *)
EXTENDS SystemBus

CONSTANTS A, B, C, x

MCHome == [socket \in {x} |-> A]

MCContent == [n \in 256..(255 + MaxMessages) |-> IF n = 256 THEN WebSocketPublishText ELSE 1]

=============================================================================
