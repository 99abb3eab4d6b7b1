------------------------- MODULE MCWebSocketFrames -------------------------
(* The frames for the run ws_frames.                                        *)
EXTENDS WebSocketFrames

Kind(op, fin, len) == [op |-> op, fin |-> fin, len |-> len]
Ping == 9

MCKinds == {
    Kind(TextFrame, TRUE, 2),
    Kind(TextFrame, FALSE, 1), Kind(Continuation, FALSE, 0), Kind(Continuation, TRUE, 1),
    Kind(Ping, TRUE, 0), Kind(Ping, TRUE, 1),
    Kind(Ping, TRUE, MaxControlLength + 1),        \* rejected by validate()
    Kind(3, TRUE, 1),                              \* a reserved opcode
    Kind(Close, TRUE, BadLength) }                 \* rejected by parse()

=============================================================================
