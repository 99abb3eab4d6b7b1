-------------------------- MODULE WebSocketFrames --------------------------
(***************************************************************************)
(* How the bytes of a WebSocket become messages: TAbstractWebSocket::parse()*)
(* and TWebSocketFrame, called by seekRecvBuffer() for what recv() has got,  *)
(* and readAllBinaryRequest(), which joins fragments for the worker.         *)
(*                                                                          *)
(* The stream of a peer that keeps to RFC 6455 is cut anywhere.  A byte is a *)
(* number.  A header is two bytes here: FIN and opcode, and the length; the  *)
(* extended lengths and the masking key only make it longer, and parse()     *)
(* waits for all of it.  Limits are scaled down: a control frame of more     *)
(* than MaxControlLength bytes stands for one of more than 125, and the      *)
(* length BadLength for one that is not coded in the shortest form.          *)
(***************************************************************************)
EXTENDS Naturals, Sequences, SequencesExt, FiniteSetsExt

CONSTANTS
    MaxFrames,   \* bound: the frames of the stream
    Kinds        \* the frames it may choose from: records [op, fin, len]

Continuation == 0
TextFrame    == 1
Close        == 8
Pong         == 10
MaxControlLength == 1
BadLength        == 126

ASSUME FramesAssumptions ==
    /\ MaxFrames \in Nat
    /\ Kinds \subseteq [op : 0..15, fin : BOOLEAN, len : Nat]

VARIABLES
    sent,        \* what the peer sends, frame by frame
    received,    \* the number of bytes recv() has got
    recvBuffer,  \* bytes not parsed yet
    frames,      \* TEpollWebSocket::frames
    closed,      \* parse() has returned -1
    delivered    \* the payloads workers were given, with their opcodes

vars == <<sent, received, recvBuffer, frames, closed, delivered>>

-----------------------------------------------------------------------------
(* The stream.                                                              *)

Fin == 128

\* The payload bytes of the i-th frame are all 16 + i.
Bytes(i) ==
    <<sent[i].op + (IF sent[i].fin THEN Fin ELSE 0), sent[i].len>>
        \o [j \in 1..(IF sent[i].len = BadLength THEN 0 ELSE sent[i].len) |-> 16 + i]

Stream == FlattenSeq([i \in 1..Len(sent) |-> Bytes(i)])

IsControl(f) == f.op >= 8
Reserved(f) == f.op \notin Continuation..2 \cup Close..Pong

\* A data message is open after the first i frames.
OpenMessage(s) ==
    LET data == SelectSeq(s, LAMBDA f : ~IsControl(f) /\ ~Reserved(f))
    IN data # <<>> /\ ~Last(data).fin

\* The peer continues the message that is open, and no other.
MaySend(s, f) ==
    \/ IsControl(f) \/ Reserved(f)
    \/ f.op = Continuation /\ OpenMessage(s)
    \/ f.op # Continuation /\ ~OpenMessage(s)

Streams ==
    {s \in [1..MaxFrames -> Kinds] : \A i \in 1..MaxFrames : MaySend(SubSeq(s, 1, i - 1), s[i])}

-----------------------------------------------------------------------------
(* TWebSocketFrame                                                          *)

Empty == [op |-> Continuation, fin |-> TRUE, len |-> 0, payload |-> <<>>, state |-> "Empty"]

isFinalFrame(f) == f.fin
isControlFrame(f) == f.op >= 8

validate(f) ==
    /\ f.op \in Continuation..2 \cup Close..Pong
    /\ isControlFrame(f) => f.len <= MaxControlLength /\ f.fin

-----------------------------------------------------------------------------
(* parse(), byte by byte: its loop reads a payload in larger pieces, and     *)
(* leaves the buffer in the same state wherever it is cut.  p is a record of *)
(* the frames, the bytes of an incomplete header and the result.             *)

\* The frame to be filled is appended when there is a byte for it.
Prepared(fs) ==
    IF fs = <<>> \/ Last(fs).state = "Completed" THEN Append(fs, Empty) ELSE fs

\* The continuation of a message that the frame before it does not leave open
Stray(fs) ==
    LET n == Len(fs) IN
    /\ fs[n].op = Continuation
    /\ n >= 2
    /\ isFinalFrame(fs[n - 1]) \/ isControlFrame(fs[n - 1])

\* A control frame is put behind the first frame that is not one.
\* QMutableListIterator::insert() inserts behind the frame next() has returned.
MoveControl(fs) ==
    LET others == Front(fs)
        data   == {i \in 1..Len(others) : ~isControlFrame(others[i])}
        place  == IF data = {} THEN Len(others) ELSE Min(data)
    IN InsertAt(others, place + 1, Last(fs))

\* What is done with the last frame when it is complete
Completed(fs) ==
    IF ~validate(Last(fs)) \/ Stray(fs) THEN Append(Front(fs), Empty)      \* clear()
    ELSE IF isControlFrame(Last(fs)) /\ Len(fs) >= 2 THEN MoveControl(fs)
    ELSE fs

ParseHeader(p, byte) ==
    LET first == p.header[1]
        f == [Empty EXCEPT !.op = first % 16, !.fin = (first >= Fin), !.len = byte,
                           !.state = IF byte = 0 THEN "Completed" ELSE "HeaderParsed"]
        fs == Append(Front(p.frames), f)
    IN IF byte = BadLength THEN [p EXCEPT !.error = TRUE]
       ELSE [p EXCEPT !.header = <<>>,
                      !.frames = IF byte = 0 THEN Completed(fs) ELSE fs]

ParsePayload(p, byte) ==
    LET f  == Last(p.frames)
        g  == [f EXCEPT !.payload = Append(@, byte),
                        !.state = IF Len(f.payload) + 1 = f.len THEN "Completed" ELSE "MoreData"]
        fs == Append(Front(p.frames), g)
    IN [p EXCEPT !.frames = IF g.state = "Completed" THEN Completed(fs) ELSE fs]

ParseByte(p, byte) ==
    LET q == [p EXCEPT !.frames = Prepared(@)] IN
    IF p.error THEN p
    ELSE IF Last(q.frames).state # "Empty" THEN ParsePayload(q, byte)
    ELSE IF q.header = <<>> THEN [q EXCEPT !.header = <<byte>>]
    ELSE ParseHeader(q, byte)

\* Fault: the start of a header is removed from the buffer with the rest.
parseForgets(fs, bytes) ==
    LET p == FoldLeft(ParseByte, [frames |-> fs, header |-> <<>>, error |-> FALSE], bytes)
    IN [p EXCEPT !.header = <<>>]

parse(fs, bytes) ==
    FoldLeft(ParseByte, [frames |-> fs, header |-> <<>>, error |-> FALSE], bytes)

-----------------------------------------------------------------------------
canReadRequest(fs) == \E i \in 1..Len(fs) : isFinalFrame(fs[i]) /\ fs[i].state = "Completed"

\* The ends of the messages in the list
Ends(fs) == {i \in 1..Len(fs) : isFinalFrame(fs[i]) /\ fs[i].state = "Completed"}

\* The message that frame e ends begins behind the end before it, and has the
\* opcode of its first frame.
Message(fs, e) ==
    LET b == Max({0} \cup {i \in Ends(fs) : i < e}) + 1
    IN [op |-> fs[b].op, payload |-> FlattenSeq([j \in 1..(e - b + 1) |-> fs[b + j - 1].payload])]

\* Fault: fragments are delivered one by one.
readEachFrame(fs) ==
    LET complete == SelectSeq(fs, LAMBDA f : f.state = "Completed")
    IN [i \in 1..Len(complete) |-> [op |-> complete[i].op, payload |-> complete[i].payload]]

readAllBinaryRequest(fs) ==
    LET ends == SetToSortSeq(Ends(fs), <)
    IN [i \in 1..Len(ends) |-> Message(fs, ends[i])]

Unread(fs) == SubSeq(fs, Max({0} \cup Ends(fs)) + 1, Len(fs))

-----------------------------------------------------------------------------
Init ==
    /\ sent \in Streams
    /\ received = 0 /\ recvBuffer = <<>> /\ frames = <<>> /\ closed = FALSE /\ delivered = <<>>

\* recv() and seekRecvBuffer(), up to EAGAIN; then startWorker()
Receive(n) ==
    LET p == parse(frames, recvBuffer \o SubSeq(Stream, received + 1, received + n)) IN
    /\ ~closed
    /\ received' = received + n
    /\ recvBuffer' = p.header
    /\ closed' = p.error
    /\ \/ /\ ~p.error /\ canReadRequest(p.frames)
          /\ delivered' = delivered \o readAllBinaryRequest(p.frames)
          /\ frames' = Unread(p.frames)
       \/ /\ p.error \/ ~canReadRequest(p.frames)
          /\ frames' = p.frames
          /\ UNCHANGED delivered
    /\ UNCHANGED sent

Next == \E n \in 1..(Len(Stream) - received) : Receive(n)

Spec == Init /\ [][Next]_vars

-----------------------------------------------------------------------------
(* Properties.                                                              *)

\* The frames that have arrived in full
Arrived == {i \in 1..Len(sent) : Len(FlattenSeq([j \in 1..i |-> Bytes(j)])) <= received}

ValidControl(i) == IsControl(sent[i]) /\ validate(sent[i])
Unfragmented(i) == sent[i].op = TextFrame /\ sent[i].fin
Payload(i) == [j \in 1..sent[i].len |-> 16 + i]
Sorted(S) == SetToSortSeq(S, <)

\* Whatever else the stream holds, and wherever it is cut, the messages of one
\* frame reach the worker whole, in order and once: what parse() makes of a control
\* frame among fragments, or of a frame it rejects, does not spread to them.
UnfragmentedExact ==
    ~closed =>
        LET due == Sorted({i \in Arrived : Unfragmented(i)})
            ids == {16 + due[i] : i \in 1..Len(due)}
        IN SelectSeq(delivered, LAMBDA m : \E b \in ids : Contains(m.payload, b))
              = [i \in 1..Len(due) |-> [op |-> TextFrame, payload |-> Payload(due[i])]]

\* What the peer means: fragments joined, control and reserved frames left out
Joined(e) ==
    LET data == {i \in 1..e : ~IsControl(sent[i]) /\ ~Reserved(sent[i])}
        b == Max({i \in data : sent[i].op # Continuation})
    IN [op |-> sent[b].op, payload |-> FlattenSeq([j \in 1..Cardinality({i \in data : i >= b}) |->
                                            Payload(Sorted({i \in data : i >= b})[j])])]

\* A stream in which no control frame meets a fragmented message is delivered
\* exactly: every message joined from its fragments, in order and once, and every
\* control frame once, although it may overtake data and other control frames.
UnmixedExact ==
    LET data == {i \in Arrived : ~IsControl(sent[i]) /\ ~Reserved(sent[i]) /\ sent[i].fin}
        controls == {i \in Arrived : ValidControl(i)}
        mixed == /\ \E i \in Arrived : ValidControl(i)
                 /\ \E i \in 1..Len(sent) : ~IsControl(sent[i]) /\ ~sent[i].fin
    IN ~closed /\ ~mixed =>
        /\ SelectSeq(delivered, LAMBDA m : m.op < Close)
              = [i \in 1..Cardinality(data) |-> Joined(Sorted(data)[i])]
        /\ \A op \in Close..Pong :
              Cardinality({i \in 1..Len(delivered) : delivered[i].op = op})
                 = Cardinality({i \in controls : sent[i].op = op})

=============================================================================
