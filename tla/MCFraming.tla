----------------------------- MODULE MCFraming -----------------------------
(* HttpFraming on a small instance: bodies of every kind of length, among   *)
(* them one that an int does not hold (30 is -2 where IntMax is 15), and    *)
(* the two kinds of Upgrade header.                                         *)
EXTENDS HttpFraming

MCHeaders == [len : {0, 1, 3, 30}, use : {"plain"}]
                 \cup {[len |-> 0, use |-> "websocket"], [len |-> 1, use |-> "other"]}
=============================================================================
