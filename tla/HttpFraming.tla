---------------------------- MODULE HttpFraming ----------------------------
(***************************************************************************)
(* How the bytes of a connection become requests: TEpollHttpSocket (hybrid  *)
(* MPM) and THttpSocket (thread MPM) collect what they receive, wait until  *)
(* lengthToRead is 0, and hand the buffer to THttpRequest::generate(),      *)
(* which cuts it into requests.  The client's side and TCP, which may cut   *)
(* the stream anywhere, are the environment.  A client may announce a body  *)
(* that is longer than what it sends, LimitRequestBody or an int.           *)
(*                                                                          *)
(* A byte is known by its request and its place there: 1 is the header, 2   *)
(* the blank line that ends it ("\r\n\r\n" counts as one), the body follows. *)
(***************************************************************************)
EXTENDS Integers, Sequences

CONSTANTS
    Kinds,         \* the MPMs: "hybrid", "thread"
    Headers,       \* the headers of clients: len, the Content-Length, and use, what is
                   \* asked for with Upgrade: "plain" (nothing), "websocket" or "other"
    Limits,        \* the values of LimitRequestBody; 0 is none
    IntMax,        \* the largest int
    Threshold,     \* READ_THRESHOLD_LENGTH: longer bodies go to a file (thread)
    Pipelinings,   \* may clients send a request before the last response?
    MaxRequests,   \* bound: requests on the connection
    MaxBody        \* bound: bytes of a body that a client sends

ASSUME FramingAssumptions ==
    /\ Kinds \subseteq {"hybrid", "thread"}
    /\ Headers \subseteq [len : Nat, use : {"plain", "websocket", "other"}]
    /\ Limits \subseteq Nat /\ Threshold \in Nat
    /\ Pipelinings \subseteq BOOLEAN /\ MaxRequests \in Nat
    /\ MaxBody \in Nat /\ IntMax \in Nat /\ MaxBody + 2 <= IntMax

VARIABLES
    kind,         \* the MPM that serves this connection; never changes
    pipelining,   \* whether its client pipelines; never changes
    limit,        \* limitBodyBytes; never changes
    sent,         \* history: the requests the client has sent, as their headers
    wire,         \* bytes sent and not yet received
    buffer,       \* httpBuffer / readBuffer
    file,         \* fileBuffer, when it is open
    lengthToRead, \* bytes missing; -1: the header is not complete
    state,        \* open, leaving (to be switched or disconnected), over, or back:
                  \* generate() went back, after which the connection is not followed
    served        \* history: the requests handed to TActionContext::execute()

conn == <<kind, pipelining, limit>>
vars == <<kind, pipelining, limit, sent, wire, buffer, file, lengthToRead, state, served>>

Request(r, n) == [i \in 1 .. n + 2 |-> [req |-> r, place |-> i]]

Bytes  == [req : 1 .. MaxRequests, place : Nat]
NoFile == <<>>

Alive == state \in {"open", "leaving"}

Least(S) == CHOOSE i \in S : \A j \in S : i <= j

\* indexOf("\r\n\r\n", from) > 0, for from >= 0; otherwise -1.
HeaderEnd(b, from) ==
    LET ends == {i \in from + 1 .. Len(b) : b[i].place = 2} IN
    IF ends = {} \/ 1 \in ends THEN -1 ELSE Least(ends)

\* THttpRequestHeader(b.mid(from)), where the header ends at end: what it says is
\* lost with its bytes.
Header(b, from, end) ==
    IF end > from + 1 THEN sent[b[end].req] ELSE [len |-> 0, use |-> "plain"]

\* The connection header of a request, as THttpRequest keeps it.
Use(q) == LET end == HeaderEnd(q, 0) IN
          IF end = -1 THEN "plain" ELSE Header(q, 0, end).use

\* The body that generate() takes: `int contlen` is negative above IntMax.
BodyEnd(b, end, n) ==
    IF n > IntMax THEN end ELSE IF end + n < Len(b) THEN end + n ELSE Len(b)

\* THttpRequest::generate(): header after header, each with as much of its body
\* as the buffer holds; the loop goes back where headidx + contlen is negative.
generate(b) ==
    LET cut[from \in Nat] ==
            LET end == HeaderEnd(b, from)
                n   == Header(b, from, end).len
                one == <<SubSeq(b, from + 1, BodyEnd(b, end, n))>> IN
            IF end = -1 THEN [reqs |-> <<>>, back |-> FALSE]
            ELSE IF n > IntMax - end THEN [reqs |-> one, back |-> TRUE]
            ELSE [reqs |-> one \o cut[end + n].reqs, back |-> cut[end + n].back]
    IN cut[0]

\* What is executed of it: TActionThread::run() goes up to an Upgrade header, with
\* which HTTP ends; TActionWorker::run() does not look for one.
Executed(reqs) ==
    LET upgrades == {i \in 1 .. Len(reqs) : Use(reqs[i]) # "plain"} IN
    IF kind = "hybrid" \/ upgrades = {} THEN reqs ELSE SubSeq(reqs, 1, Least(upgrades) - 1)

TypeOK ==
    /\ kind \in Kinds /\ pipelining \in Pipelinings /\ limit \in Limits
    /\ sent \in Seq(Headers) /\ Len(sent) <= MaxRequests
    /\ wire \in Seq(Bytes) /\ buffer \in Seq(Bytes) /\ file \in Seq(Bytes)
    /\ lengthToRead \in Int /\ lengthToRead >= -1
    /\ state \in {"open", "leaving", "over", "back"}
    /\ served \in Seq(Seq(Bytes))

Init ==
    /\ kind \in Kinds /\ pipelining \in Pipelinings /\ limit \in Limits
    /\ sent = <<>> /\ wire = <<>> /\ buffer = <<>> /\ file = NoFile
    /\ lengthToRead = -1
    /\ state = "open"
    /\ served = <<>>

ClientSends(h) ==
    /\ Alive
    /\ Len(sent) < MaxRequests
    /\ pipelining \/ Len(served) = Len(sent)
    /\ sent' = Append(sent, h)
    /\ wire' = wire \o Request(Len(sent) + 1, IF h.len <= MaxBody THEN h.len ELSE MaxBody)
    /\ UNCHANGED <<conn, buffer, file, lengthToRead, state, served>>

\* Faults: the length of the header is taken one too short, or one too long.
MissingShort(b, end) ==
    LET need == end + Header(b, 0, end).len - Len(b) - 1 IN IF need > 0 THEN need ELSE 0

MissingLong(b, end) ==
    LET need == end + Header(b, 0, end).len - Len(b) + 1 IN IF need > 0 THEN need ELSE 0

Missing(b, end) ==
    LET need == end + Header(b, 0, end).len - Len(b) IN IF need > 0 THEN need ELSE 0

Less(n, k) == IF n > k THEN n - k ELSE 0

\* ClientErrorException(413), which nobody catches: the process ends.
TooLarge(n) == limit > 0 /\ n > limit

\* TEpollHttpSocket::seekRecvBuffer(): k bytes more.  The limit of the body is held
\* against the whole buffer when the header was there before.  A complete request with
\* an Upgrade header is dropped; one for a WebSocket leaves the HTTP server (a
\* switch or a disconnect is queued), one for another protocol gets nothing.
seekRecvBuffer(k) ==
    LET b    == buffer \o SubSeq(wire, 1, k)
        end  == HeaderEnd(b, 0)
        h    == Header(b, 0, end)
        left == IF lengthToRead >= 0 THEN Less(lengthToRead, k)
                ELSE IF end # -1 THEN Missing(b, end) ELSE -1
        large == IF lengthToRead >= 0 THEN TooLarge(Len(b)) ELSE end # -1 /\ TooLarge(h.len) IN
    /\ kind = "hybrid" /\ Alive
    /\ wire' = SubSeq(wire, k + 1, Len(wire))
    /\ \/ large /\ state' = "over" /\ UNCHANGED <<buffer, lengthToRead>>
       \/ /\ ~large /\ left = 0 /\ h.use # "plain"
          /\ state' = IF h.use = "websocket" THEN "leaving" ELSE state
          /\ buffer' = <<>> /\ lengthToRead' = -1
       \/ /\ ~large /\ (left = 0 => h.use = "plain")
          /\ buffer' = b /\ lengthToRead' = left
          /\ UNCHANGED state
    /\ UNCHANGED <<conn, sent, file, served>>

\* The polling thread takes the switch or the disconnect off its queue.
Leave ==
    /\ state = "leaving"
    /\ state' = "over"
    /\ UNCHANGED <<conn, sent, wire, buffer, file, lengthToRead, served>>

\* THttpSocket::readRequest(): what comes when the request is complete is read
\* from the socket and then not kept.
readRequest(k) ==
    LET new == SubSeq(wire, 1, k)
        b   == buffer \o new
        end == HeaderEnd(b, 0)
        n   == Header(b, 0, end).len IN
    /\ kind = "thread" /\ Alive
    /\ wire' = SubSeq(wire, k + 1, Len(wire))
    /\ \/ /\ lengthToRead > 0
          /\ IF file # NoFile THEN file' = file \o new /\ UNCHANGED buffer
                              ELSE buffer' = b /\ UNCHANGED file
          /\ lengthToRead' = Less(lengthToRead, k)
          /\ UNCHANGED state
       \/ /\ lengthToRead < 0 /\ (end # -1 => ~TooLarge(n))
          /\ buffer' = b
          /\ lengthToRead' = IF end = -1 THEN -1 ELSE Missing(b, end)
          /\ file' = IF end # -1 /\ n > Threshold THEN SubSeq(b, end, Len(b)) ELSE file
          /\ UNCHANGED state
       \/ /\ lengthToRead < 0 /\ end # -1 /\ TooLarge(n)
          /\ state' = "over"
          /\ UNCHANGED <<buffer, file, lengthToRead>>
       \/ /\ lengthToRead = 0
          /\ UNCHANGED <<buffer, file, lengthToRead, state>>
    /\ UNCHANGED <<conn, sent, served>>

\* A body in a file belongs to the header in the buffer (its first byte is the
\* blank line); otherwise the buffer is cut into requests.
Complete ==
    IF file # NoFile
    THEN [reqs |-> <<SubSeq(buffer, 1, HeaderEnd(buffer, 0) - 1) \o file>>, back |-> FALSE]
    ELSE generate(buffer)

\* Fault: the buffer is not cleared.
ReadKeepsBuffer ==
    /\ Alive
    /\ lengthToRead = 0
    /\ \E got \in {Complete} : \E done \in {Executed(got.reqs)} :
          /\ ~got.back
          /\ served' = served \o done
          /\ state' = IF done # got.reqs THEN "over" ELSE state
    /\ file' = NoFile
    /\ lengthToRead' = -1
    /\ UNCHANGED <<conn, sent, wire, buffer>>

\* read() of a complete request: the buffer is taken whole, and cleared.
Read ==
    /\ Alive
    /\ lengthToRead = 0
    /\ \E got \in {Complete} : \E done \in {Executed(got.reqs)} :
          /\ ~got.back
          /\ served' = served \o done
          /\ state' = IF done # got.reqs THEN "over" ELSE state
    /\ buffer' = <<>> /\ file' = NoFile
    /\ lengthToRead' = -1
    /\ UNCHANGED <<conn, sent, wire>>

\* read(), where generate() goes back in the buffer: it never returns, or finds bytes
\* that it has found before.
ReadGoesBack ==
    /\ Alive
    /\ lengthToRead = 0
    /\ \E got \in {Complete} :
          /\ got.back
          /\ \/ state' = "over" /\ UNCHANGED served
             \/ \E from, upto \in 0 .. Len(buffer) :
                   /\ from < upto
                   /\ state' = "back"
                   /\ served' = served \o got.reqs \o <<SubSeq(buffer, from + 1, upto)>>
    /\ buffer' = <<>> /\ file' = NoFile
    /\ lengthToRead' = -1
    /\ UNCHANGED <<conn, sent, wire>>

Next ==
    \/ \E h \in Headers : ClientSends(h)
    \/ \E k \in 1 .. Len(wire) : seekRecvBuffer(k) \/ readRequest(k)
    \/ Leave
    \/ Read \/ ReadGoesBack

Spec == Init /\ [][Next]_vars

FairSpec == Spec /\ WF_vars(\E k \in 1 .. Len(wire) : seekRecvBuffer(k) \/ readRequest(k))
                 /\ WF_vars(Read)

-----------------------------------------------------------------------------
(* Properties.                                                              *)

\* The requests that are executed are the ones that were sent: in that order,
\* none twice, none joined, none cut short.
Exact ==
    /\ Len(served) <= Len(sent)
    /\ \A r \in 1 .. Len(served) : served[r] = Request(r, sent[r].len)

\* However TCP cuts the stream, exactly the requests of a client that waits for
\* its responses are executed (seekRecvBuffer() or readRequest(), then generate()).
FramingExact == ~pipelining => Exact

\* The server is to execute the r-th request: the whole body is sent, LimitRequestBody
\* lets it pass (in the hybrid MPM it may be held against header and body) and there is
\* no Upgrade header.
Executable(r) ==
    /\ sent[r].len <= MaxBody
    /\ limit = 0 \/ sent[r].len + (IF kind = "hybrid" THEN 2 ELSE 0) <= limit
    /\ sent[r].use = "plain"

\* Every request of a client that waits is executed, unless it, or one before it, is
\* cut short, too large or an Upgrade: lengthToRead comes to 0 when, and not before,
\* the last byte is there, also where the header came in pieces.
AllServed ==
    \A r \in 1 .. MaxRequests :
        ~pipelining /\ Len(sent) >= r /\ (\A q \in 1 .. r : Executable(q))
            ~> Len(served) >= r

\* Even where a pipelining client's requests are cut wrongly, no byte is executed
\* twice or out of order, unless a Content-Length made generate() go back (2^31 or
\* more, in a request behind another one).
NothingTwice ==
    state # "back" =>
    LET all[r \in 0 .. Len(served)] == IF r = 0 THEN <<>> ELSE all[r - 1] \o served[r]
        b == all[Len(served)] IN
    \A i \in 1 .. Len(b) - 1 :
        \/ b[i].req < b[i + 1].req
        \/ b[i].req = b[i + 1].req /\ b[i].place < b[i + 1].place
=============================================================================
