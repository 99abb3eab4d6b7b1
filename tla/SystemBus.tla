----------------------------- MODULE SystemBus -----------------------------
(***************************************************************************)
(* Publish and subscribe across the application servers of one manager:     *)
(*                                                                          *)
(*   TPublisher       the subscribers of a topic in one server, and publish()*)
(*   TSystemBus       a server's end of the bus: sendBuffer and readBuffer   *)
(*   SystemBusDaemon  the manager's end: it reads one server's socket at a   *)
(*                    time and writes each message to all the others         *)
(*                                                                          *)
(* A message is its first byte, the length of its payload and the payload,   *)
(* which is the target and the data; each takes one byte here.  There is one *)
(* topic, on which every message is published.  To tell the messages apart,  *)
(* the byte with the data of the n-th one is written 255 + n; its value is    *)
(* Content[255 + n], and may be any, that of a first byte too.  The sockets   *)
(* are buffered streams, which write() never refuses and which deliver what   *)
(* was written in pieces of any size.                                        *)
(***************************************************************************)
EXTENDS Naturals, Sequences, SequencesExt, FiniteSets

CONSTANTS
    Servers, Sockets,    \* application servers, WebSockets
    Home,                \* Home[x]: the server that has WebSocket x
    Nobody,              \* no socket: the sender, when a scheduler publishes
    Schedulers,          \* the servers that run a scheduler which publishes
    Content,             \* Content[n]: the data of message n
    MaxMessages,         \* bound: messages published
    MaxSubscriptions,    \* bound: calls of subscribe() and unsubscribe()
    MaxCrashes           \* bound: servers that die, each as often as it is started

ASSUME SystemBusAssumptions ==
    /\ Home \in [Sockets -> Servers]
    /\ Schedulers \subseteq Servers
    /\ Nobody \notin Servers \cup Sockets
    /\ MaxMessages \in Nat /\ MaxSubscriptions \in Nat /\ MaxCrashes \in Nat
    /\ Content \in [256..(255 + MaxMessages) -> 0..255]

VARIABLES
    \* servers
    up,              \* the server runs
    sendBuffer, readBuffer,
    publishing,      \* messages whose publish() has sent them to the bus only
    local,           \* Pub::subscribers: local[x] is "on" or "off", or "none"
    connections,     \* connections[x]: signal connections of the topic with x
    \* sockets between the servers and the daemon
    toDaemon, toServer,
    \* the daemon
    socketSet,
    reading,         \* the server whose socket readSocket() waits for, or Nobody
    buf,             \* the local buffer of readSocket()
    \* bounds and history
    messages, subscriptions, crashes,
    crashed,         \* the servers that have died
    sender,          \* sender[n]: the WebSocket that has published message n
    sent,            \* sent[s]: the messages of server s, since its start
    received,        \* received[s]: the messages for the topic that recvAll() has returned
    got,             \* got[x]: the messages posted to WebSocket x
    cut              \* a message of the server has been given up half-read

busVars == <<up, sendBuffer, readBuffer, toDaemon, toServer, socketSet, reading, buf>>
pubVars == <<publishing, local, connections, subscriptions, got>>
history == <<messages, crashes, crashed, sender, sent, received, cut>>
vars == <<up, sendBuffer, readBuffer, publishing, local, connections, toDaemon, toServer,
          socketSet, reading, buf, messages, subscriptions, crashes, crashed, sender, sent,
          received, got, cut>>

-----------------------------------------------------------------------------
(* Messages.                                                                *)

HEADER_LEN == 2
WebSocketPublishText == 128 + 3        \* the first bit, and the opcode

Topic == 0

\* The value of a byte.
Value(byte) == IF byte \in DOMAIN Content THEN Content[byte] ELSE byte

toByteArray(n) == <<WebSocketPublishText, 2, Topic, n>>
data(m) == m[HEADER_LEN + 2]

Whole(bytes) == Len(bytes) >= HEADER_LEN /\ Len(bytes) = HEADER_LEN + Value(bytes[2])

\* The loops of readSocket() and recvAll(): the whole messages at the start of the
\* bytes, and the rest.
Split(bytes) ==
    LET upto[i \in 0..Len(bytes)] ==
            IF i = 0 THEN [whole |-> <<>>, rest |-> <<>>]
            ELSE LET p == upto[i - 1]
                     rest == Append(p.rest, bytes[i]) IN
                 IF Whole(rest) THEN [whole |-> Append(p.whole, rest), rest |-> <<>>]
                                ELSE [whole |-> p.whole, rest |-> rest]
    IN upto[Len(bytes)]

\* validate(): the two flag bits and the range of the opcode
validate(m) == Value(m[1]) \in 129..132

\* receiveSystemBus() publishes a valid message of the two opcodes to its target.
IsForTopic(m) ==
    /\ validate(m) /\ Value(m[1]) \in {131, 132}
    /\ Len(m) >= HEADER_LEN + 2 /\ Value(m[HEADER_LEN + 1]) = Topic

\* The elements of a sequence that are in a set.
Only(seq, S) ==
    LET keep[i \in 0..Len(seq)] ==
            IF i = 0 THEN <<>>
            ELSE IF seq[i] \in S THEN Append(keep[i - 1], seq[i]) ELSE keep[i - 1]
    IN keep[Len(seq)]

\* What becomes of whole messages: the data of those for the topic.
Accepted(whole) ==
    LET mine == Only(whole, {m \in ToSet(whole) : IsForTopic(m)})
    IN [i \in 1..Len(mine) |-> data(mine[i])]

-----------------------------------------------------------------------------
Init ==
    /\ up = [s \in Servers |-> TRUE]
    /\ sendBuffer = [s \in Servers |-> <<>>] /\ readBuffer = [s \in Servers |-> <<>>]
    /\ toDaemon = [s \in Servers |-> <<>>] /\ toServer = [s \in Servers |-> <<>>]
    /\ publishing = [s \in Servers |-> {}]
    /\ local = [x \in Sockets |-> "none"] /\ connections = [x \in Sockets |-> 0]
    /\ socketSet = Servers /\ reading = Nobody /\ buf = <<>>
    /\ messages = 0 /\ subscriptions = 0 /\ crashes = 0 /\ crashed = {}
    /\ sender = [n \in 256..(255 + MaxMessages) |-> Nobody]
    /\ sent = [s \in Servers |-> <<>>] /\ received = [s \in Servers |-> <<>>]
    /\ got = [x \in Sockets |-> <<>>]
    /\ cut = [s \in Servers |-> FALSE]

-----------------------------------------------------------------------------
(* TPublisher and Pub, under their mutex.                                   *)

\* Fault: a receiver that is subscribed already is connected again.
subscribeAgain(x, flag) ==
    /\ local' = [local EXCEPT ![x] = flag]
    /\ connections' = [connections EXCEPT ![x] = @ + 1]

\* A second call changes the flag and adds no connection.
subscribe(x, flag) ==
    /\ local' = [local EXCEPT ![x] = flag]
    /\ connections' = [connections EXCEPT ![x] = IF local[x] = "none" THEN @ + 1 ELSE @]

Subscribe(x, flag) ==
    /\ up[Home[x]] /\ subscriptions < MaxSubscriptions
    /\ subscribe(x, flag)
    /\ subscriptions' = subscriptions + 1
    /\ UNCHANGED <<busVars, history, publishing, got>>

\* Pub::unsubscribe(), which does nothing for a receiver that is not subscribed; a
\* Pub without subscribers is deleted.
Unsubscribe(x) ==
    /\ up[Home[x]] /\ subscriptions < MaxSubscriptions /\ local[x] # "none"
    /\ local' = [local EXCEPT ![x] = "none"]
    /\ connections' = [connections EXCEPT ![x] = 0]
    /\ subscriptions' = subscriptions + 1
    /\ UNCHANGED <<busVars, history, publishing, got>>

\* Pub::publish(): the signal goes once through each connection, and
\* sendTextForPublish() leaves out the sender that has subscribed with local off.
Emit(s, x, ns) ==
    LET except == IF x \in Sockets /\ local[x] = "off" THEN x ELSE Nobody IN
    got' = [y \in Sockets |->
              IF Home[y] = s /\ y # except
              THEN got[y] \o FlattenSeq([i \in 1..Len(ns) |-> [k \in 1..connections[y] |-> ns[i]]])
              ELSE got[y]]

\* TSystemBus::send()
send(s, n) == sendBuffer' = [sendBuffer EXCEPT ![s] = @ \o toByteArray(n)]

\* A server without WebSockets has no Pub, and publish() ends with the bus.
Pending(s, n) == {m \in {n} : \E y \in Sockets : Home[y] = s}

\* publish(): first the bus ...
Publish(s, x) ==
    /\ up[s] /\ messages < MaxMessages
    /\ IF x \in Sockets THEN Home[x] = s ELSE s \in Schedulers
    /\ messages' = messages + 1
    /\ LET n == 256 + messages IN
          /\ send(s, n)
          /\ sender' = [sender EXCEPT ![n] = x]
          /\ sent' = [sent EXCEPT ![s] = Append(@, n)]
          /\ publishing' = [publishing EXCEPT ![s] = @ \cup Pending(s, n)]
    /\ UNCHANGED <<up, readBuffer, toDaemon, toServer, socketSet, reading, buf, local,
                   connections, subscriptions, crashes, crashed, received, got, cut>>

\* ... then the subscribers of this server.
PublishHere(s, n) ==
    /\ n \in publishing[s]
    /\ Emit(s, sender[n], <<n>>)
    /\ publishing' = [publishing EXCEPT ![s] = @ \ {n}]
    /\ UNCHANGED <<busVars, history, local, connections, subscriptions>>

-----------------------------------------------------------------------------
(* TSystemBus, in the main thread of the server.                            *)

writeBus(s) ==
    /\ up[s] /\ sendBuffer[s] # <<>>
    /\ toDaemon' = [toDaemon EXCEPT ![s] = @ \o sendBuffer[s]]
    /\ sendBuffer' = [sendBuffer EXCEPT ![s] = <<>>]
    /\ UNCHANGED <<up, readBuffer, toServer, socketSet, reading, buf, pubVars, history>>

\* Fault: recvAll() returns the messages and leaves them in the buffer.
readBusKeeps(s, k) ==
    LET bytes == readBuffer[s] \o SubSeq(toServer[s], 1, k)
        ns == Accepted(Split(bytes).whole)
    IN
    /\ up[s]
    /\ toServer' = [toServer EXCEPT ![s] = SubSeq(@, k + 1, Len(@))]
    /\ readBuffer' = [readBuffer EXCEPT ![s] = bytes]
    /\ received' = [received EXCEPT ![s] = @ \o ns]
    /\ Emit(s, Nobody, ns)
    /\ UNCHANGED <<up, sendBuffer, toDaemon, socketSet, reading, buf, publishing, local,
                   connections, messages, subscriptions, crashes, crashed, sender, sent, cut>>

\* readBus(), and receiveSystemBus() if there is a whole message
readBus(s, k) ==
    LET p == Split(readBuffer[s] \o SubSeq(toServer[s], 1, k))
        ns == Accepted(p.whole)
    IN
    /\ up[s]
    /\ toServer' = [toServer EXCEPT ![s] = SubSeq(@, k + 1, Len(@))]
    /\ readBuffer' = [readBuffer EXCEPT ![s] = p.rest]
    /\ received' = [received EXCEPT ![s] = @ \o ns]
    /\ Emit(s, Nobody, ns)
    /\ UNCHANGED <<up, sendBuffer, toDaemon, socketSet, reading, buf, publishing, local,
                   connections, messages, subscriptions, crashes, crashed, sender, sent, cut>>

-----------------------------------------------------------------------------
(* SystemBusDaemon, in the main thread of the manager.                      *)

\* The loop of readSocket(): what is whole is written to the other servers; for
\* the rest the daemon waits, and serves nobody else.
Forward(s, bytes) ==
    LET p == Split(bytes) IN
    /\ toServer' = [t \in Servers |-> IF t \in socketSet \ {s}
                                      THEN toServer[t] \o FlattenSeq(p.whole) ELSE toServer[t]]
    /\ buf' = p.rest
    /\ reading' = IF p.rest = <<>> THEN Nobody ELSE s

readSocket(s, k) ==
    /\ reading = Nobody /\ s \in socketSet
    /\ Forward(s, SubSeq(toDaemon[s], 1, k))
    /\ toDaemon' = [toDaemon EXCEPT ![s] = SubSeq(@, k + 1, Len(@))]
    /\ UNCHANGED <<up, sendBuffer, readBuffer, socketSet, pubVars, history>>

\* waitForReadyRead() is true.
MoreToRead(s, k) ==
    /\ reading = s
    /\ Forward(s, buf \o SubSeq(toDaemon[s], 1, k))
    /\ toDaemon' = [toDaemon EXCEPT ![s] = SubSeq(@, k + 1, Len(@))]
    /\ UNCHANGED <<up, sendBuffer, readBuffer, socketSet, pubVars, history>>

\* Fault: what has been read so far is sent on.
FrameTooShortForwards ==
    /\ reading # Nobody
    /\ toServer' = [t \in Servers |-> IF t \in socketSet \ {reading}
                                      THEN toServer[t] \o buf ELSE toServer[t]]
    /\ cut' = [cut EXCEPT ![reading] = TRUE]
    /\ reading' = Nobody /\ buf' = <<>>
    /\ UNCHANGED <<up, sendBuffer, readBuffer, toDaemon, socketSet, pubVars,
                   messages, crashes, crashed, sender, sent, received>>

\* Nothing comes for 100 ms: "Manager frame too short".
FrameTooShort ==
    /\ reading # Nobody
    /\ cut' = [cut EXCEPT ![reading] = TRUE]
    /\ reading' = Nobody /\ buf' = <<>>
    /\ UNCHANGED <<up, sendBuffer, readBuffer, toDaemon, toServer, socketSet, pubVars,
                   messages, crashes, crashed, sender, sent, received>>

handleDisconnect(s) ==
    /\ s \in socketSet /\ ~up[s]
    /\ toDaemon[s] = <<>> /\ reading = Nobody
    /\ socketSet' = socketSet \ {s}
    /\ UNCHANGED <<up, sendBuffer, readBuffer, toDaemon, toServer, reading, buf, pubVars, history>>

\* The connection of a server that has died meanwhile is accepted as well, if there
\* is something to read.
acceptConnection(s) ==
    /\ s \notin socketSet /\ reading = Nobody
    /\ up[s] \/ toDaemon[s] # <<>>
    /\ socketSet' = socketSet \cup {s}
    /\ UNCHANGED <<up, sendBuffer, readBuffer, toDaemon, toServer, reading, buf, pubVars, history>>

-----------------------------------------------------------------------------
(* A server dies; what the kernel has of its messages can still be read.    *)

Crash(s, k) ==
    /\ up[s] /\ crashes < MaxCrashes
    /\ crashes' = crashes + 1
    /\ crashed' = crashed \cup {s}
    /\ up' = [up EXCEPT ![s] = FALSE]
    /\ toDaemon' = [toDaemon EXCEPT ![s] = SubSeq(@, 1, k)]
    /\ sendBuffer' = [sendBuffer EXCEPT ![s] = <<>>]
    /\ readBuffer' = [readBuffer EXCEPT ![s] = <<>>]
    /\ publishing' = [publishing EXCEPT ![s] = {}]
    /\ local' = [x \in Sockets |-> IF Home[x] = s THEN "none" ELSE local[x]]
    /\ connections' = [x \in Sockets |-> IF Home[x] = s THEN 0 ELSE connections[x]]
    /\ got' = [x \in Sockets |-> IF Home[x] = s THEN <<>> ELSE got[x]]
    /\ sent' = [sent EXCEPT ![s] = <<>>]
    /\ received' = [received EXCEPT ![s] = <<>>]
    /\ UNCHANGED <<toServer, socketSet, reading, buf, messages, subscriptions, sender, cut>>

\* The manager starts it again, and it connects to the bus.  (The new connection
\* has the place of the old one here, which the daemon has removed.)
Restart(s) ==
    /\ ~up[s] /\ s \notin socketSet /\ toDaemon[s] = <<>>
    /\ up' = [up EXCEPT ![s] = TRUE]
    /\ toServer' = [toServer EXCEPT ![s] = <<>>]
    /\ cut' = [cut EXCEPT ![s] = FALSE]
    /\ UNCHANGED <<sendBuffer, readBuffer, toDaemon, socketSet, reading, buf, pubVars, messages,
                   crashes, crashed, sender, sent, received>>

-----------------------------------------------------------------------------
DaemonStep ==
    \/ \E s \in Servers, k \in 1..(HEADER_LEN + 2) * MaxMessages :
          k <= Len(toDaemon[s]) /\ (readSocket(s, k) \/ MoreToRead(s, k))
    \/ FrameTooShort
    \/ \E s \in Servers : handleDisconnect(s) \/ acceptConnection(s)

MainStep(s) ==
    \/ writeBus(s)
    \/ \E k \in 1..Len(toServer[s]) : readBus(s, k)

WorkerStep(s) == \E n \in publishing[s] : PublishHere(s, n)

Next ==
    \/ DaemonStep
    \/ \E s \in Servers : MainStep(s) \/ WorkerStep(s) \/ Restart(s)
    \/ \E s \in Servers, x \in Sockets \cup {Nobody} : Publish(s, x)
    \/ \E s \in Servers : \E k \in 0..Len(toDaemon[s]) : Crash(s, k)
    \/ \E x \in Sockets : Unsubscribe(x) \/ \E flag \in {"on", "off"} : Subscribe(x, flag)

Spec == Init /\ [][Next]_vars

-----------------------------------------------------------------------------
(* Properties.                                                              *)

\* A server whose messages have not been given up half-read gets each of them to
\* every other server whole, in the order of its send() calls, without a gap and
\* once, whatever pieces the sockets make of them, whatever the daemon has dropped
\* or taken for a message of another server, whatever the data is, and whoever has
\* crashed: what readSocket() passes on is framed by itself.
OthersUnharmed ==
    \A s, t \in Servers :
        s # t /\ ~cut[s] =>
            LET mine == Only(received[t], ToSet(sent[s]))
            IN \E i \in 1..(Len(sent[s]) + 1), j \in 0..Len(sent[s]) : mine = SubSeq(sent[s], i, j)

\* A subscriber is sent a message once, however often it has subscribed and on
\* whichever server the message was published, also when other servers die and start
\* again; the server that publishes does not get it back from the bus.
OncePerSubscriber ==
    \A x \in Sockets : IsInjective(got[x])

\* Nothing gets stuck or lost on the way between two servers that have not died,
\* also when another one dies in the middle of a message: when all buffers and
\* sockets are empty, each has received everything the other has published, unless
\* the daemon has given up a message of the latter.
Quiet ==
    /\ reading = Nobody
    /\ \A s \in Servers : sendBuffer[s] = <<>> /\ toDaemon[s] = <<>> /\ toServer[s] = <<>>

NothingStuck ==
    Quiet =>
        \A s, t \in Servers \ crashed :
            s # t /\ ~cut[s] => ToSet(sent[s]) \subseteq ToSet(received[t])

=============================================================================
