---------------------------- MODULE EpollServer ----------------------------
(***************************************************************************)
(* The hybrid MPM: TMultiplexingServer::run(), the thread that polls all    *)
(* HTTP sockets with an edge-triggered epoll, the TActionWorker threads     *)
(* that execute the requests, and the main thread, which is told of their   *)
(* end by a queued signal and deletes sockets and workers.  They share the  *)
(* TEpollHttpSocket objects through atomics: myWorkerCounter, deleting and  *)
(* pollIn, and meet in the epoll set and in the queue of send requests.     *)
(*                                                                          *)
(* A request is a unit here; how bytes become requests is in HttpFraming.   *)
(***************************************************************************)
EXTENDS Naturals, Sequences, FiniteSets

CONSTANTS
    Sockets,       \* client connections, each accepted at most once
    Workers,       \* TActionWorker objects
    maxWorkers,    \* MPM.hybrid.MaxWorkersPerAppServer
    KeepAlive,     \* HttpKeepAliveTimeout > 0
    Upgrades,      \* what an Upgrade header may lead to: "switch", "disconnect", "ignore"
    LimitBody,     \* LimitRequestBody > 0, and clients that exceed it
    MaxRequests,   \* bound: requests one client sends
    NoSocket

ASSUME EpollAssumptions ==
    /\ maxWorkers \in Nat \ {0} /\ MaxRequests \in Nat
    /\ KeepAlive \in BOOLEAN /\ LimitBody \in BOOLEAN
    /\ Upgrades \subseteq {"switch", "disconnect", "ignore"}
    /\ NoSocket \notin Sockets

VARIABLES
    \* TEpollHttpSocket
    object,           \* none, live, doomed (QObject::deleteLater()) or freed
    sd,               \* sd > 0
    deleting, pollIn, \* the atomics of those names
    myWorkerCounter,
    sendBuf,          \* responses in the send queue
    idle,             \* idleTime() >= keepAlivetimeout
    \* the kernel's side of the connection
    unread, hup,      \* requests to be read; the peer has closed
    writable,         \* the socket buffer has room
    edge,             \* events epoll_wait() will report
    asked,            \* bound: requests sent so far
    \* TEpoll and TMultiplexingServer
    pollingSockets, sendRequests,
    batch,            \* events of this round not handled yet
    epoll,            \* where the polling thread is, and with which socket
    stopped,
    \* TActionWorker
    job,              \* job[w]: its socket, what it is doing, requests left
    release,          \* the socket whose releaseWorker() the main thread is in
    \* history
    missed            \* pollIn was set after the worker it is meant for was released

socketVars == <<object, sd, deleting, pollIn, myWorkerCounter, sendBuf, idle>>
kernelVars == <<unread, hup, writable, edge, asked>>
epollVars  == <<pollingSockets, sendRequests, batch, epoll, stopped>>
mainVars   == <<job, release, missed>>
vars       == <<object, sd, deleting, pollIn, myWorkerCounter, sendBuf, idle, unread, hup,
                writable, edge, asked, pollingSockets, sendRequests, batch, epoll, stopped,
                job, release, missed>>

NoJob == [socket |-> NoSocket, doing |-> "none", left |-> 0]
At(place, s, back) == [at |-> place, socket |-> s, back |-> back]

Events == {"in", "out", "idle"}

workerCount == Cardinality({w \in Workers : job[w].doing # "none"})

TypeOK ==
    /\ object \in [Sockets -> {"none", "live", "doomed", "freed"}]
    /\ sd \in [Sockets -> BOOLEAN] /\ deleting \in [Sockets -> BOOLEAN]
    /\ pollIn \in [Sockets -> BOOLEAN] /\ idle \in [Sockets -> BOOLEAN]
    /\ myWorkerCounter \in [Sockets -> Nat]
    /\ sendBuf \in [Sockets -> Nat]
    /\ unread \in [Sockets -> Nat] /\ asked \in [Sockets -> Nat]
    /\ hup \in [Sockets -> BOOLEAN] /\ writable \in [Sockets -> BOOLEAN]
    /\ edge \in [Sockets -> SUBSET {"in", "out"}]
    /\ pollingSockets \in SUBSET Sockets
    /\ sendRequests \in Seq([method : {"disconnect", "switch"}, socket : Sockets])
    /\ batch \in [Sockets -> SUBSET Events]
    /\ epoll \in [at : {"dispatch", "events", "pollIn", "delete", "sweep", "ended"},
                  socket : Sockets \cup {NoSocket},
                  back : {"dispatch", "events", "sweep"}]
    /\ stopped \in BOOLEAN
    /\ job \in [Workers -> [socket : Sockets \cup {NoSocket}, left : Nat,
                            doing : {"none", "run", "queued", "finished", "released"}]]
    /\ release \in Sockets \cup {NoSocket}
    /\ missed \in [Sockets -> BOOLEAN]

Init ==
    /\ object = [s \in Sockets |-> "none"]
    /\ sd = [s \in Sockets |-> FALSE] /\ deleting = [s \in Sockets |-> FALSE]
    /\ pollIn = [s \in Sockets |-> FALSE] /\ idle = [s \in Sockets |-> FALSE]
    /\ myWorkerCounter = [s \in Sockets |-> 0]
    /\ sendBuf = [s \in Sockets |-> 0]
    /\ unread = [s \in Sockets |-> 0] /\ asked = [s \in Sockets |-> 0]
    /\ hup = [s \in Sockets |-> FALSE] /\ writable = [s \in Sockets |-> TRUE]
    /\ edge = [s \in Sockets |-> {}]
    /\ pollingSockets = {}
    /\ sendRequests = <<>>
    /\ batch = [s \in Sockets |-> {}]
    /\ epoll = At("dispatch", NoSocket, "dispatch")
    /\ stopped = FALSE
    /\ job = [w \in Workers |-> NoJob]
    /\ release = NoSocket
    /\ missed = [s \in Sockets |-> FALSE]

-----------------------------------------------------------------------------
(* epoll, edge-triggered: EPOLL_CTL_MOD reports again what is ready; a      *)
(* socket that is not in the set, or is closed, is an error and no more.    *)

Ready(s) == (IF unread[s] > 0 \/ hup[s] THEN {"in"} ELSE {})
                \cup (IF writable[s] THEN {"out"} ELSE {})

modifyPoll(s) ==
    edge' = IF s \in pollingSockets /\ sd[s] THEN [edge EXCEPT ![s] = Ready(s)] ELSE edge

\* Fault: the socket stays in the epoll set.
DeletePolled(s, closing, back) ==
    /\ sd' = IF closing THEN [sd EXCEPT ![s] = FALSE] ELSE sd
    /\ deleting' = [deleting EXCEPT ![s] = TRUE]
    /\ epoll' = At("delete", s, back)
    /\ UNCHANGED <<pollingSockets, edge>>

\* deletePoll(); and, except when switching, close(); deleteLater() begins.
Delete(s, closing, back) ==
    /\ pollingSockets' = pollingSockets \ {s}
    /\ edge' = [edge EXCEPT ![s] = {}]
    /\ sd' = IF closing THEN [sd EXCEPT ![s] = FALSE] ELSE sd
    /\ deleting' = [deleting EXCEPT ![s] = TRUE]
    /\ epoll' = At("delete", s, back)

-----------------------------------------------------------------------------
(* The polling thread: TMultiplexingServer::run().                          *)

\* dispatchSendData() takes a request of a worker off the queue.
DispatchSendData ==
    LET r == Head(sendRequests) IN
    /\ epoll.at = "dispatch"
    /\ sendRequests # <<>>
    /\ sendRequests' = Tail(sendRequests)
    /\ \/ /\ ~sd[r.socket]     \* already disconnected
          /\ UNCHANGED <<pollingSockets, edge, sd, deleting, epoll>>
       \/ sd[r.socket] /\ Delete(r.socket, r.method = "disconnect", "dispatch")
    /\ UNCHANGED <<object, pollIn, myWorkerCounter, sendBuf, idle, unread, hup, writable,
                   asked, batch, stopped, mainVars>>

\* wait()
Wait ==
    /\ epoll.at = "dispatch"
    /\ sendRequests = <<>>
    /\ batch' = edge
    /\ edge' = [s \in Sockets |-> {}]
    /\ epoll' = At("events", NoSocket, "events")
    /\ UNCHANGED <<socketVars, unread, hup, writable, asked, pollingSockets, sendRequests,
                   stopped, mainVars>>

\* accept() and addPoll()
Accept(s) ==
    /\ epoll.at = "events"
    /\ object[s] = "none"
    /\ object' = [object EXCEPT ![s] = "live"]
    /\ sd' = [sd EXCEPT ![s] = TRUE]
    /\ pollingSockets' = pollingSockets \cup {s}
    /\ edge' = [edge EXCEPT ![s] = Ready(s)]
    /\ UNCHANGED <<deleting, pollIn, myWorkerCounter, sendBuf, idle, unread, hup, writable,
                   asked, sendRequests, batch, epoll, stopped, mainVars>>

\* send(): everything in the queue ...
SendAll(s) ==
    /\ epoll.at = "events"
    /\ "out" \in batch[s]
    /\ sendBuf' = IF deleting[s] THEN sendBuf ELSE [sendBuf EXCEPT ![s] = 0]
    /\ idle' = [idle EXCEPT ![s] = FALSE]
    /\ batch' = [batch EXCEPT ![s] = @ \ {"out"}]
    /\ UNCHANGED <<object, sd, deleting, pollIn, myWorkerCounter, kernelVars,
                   pollingSockets, sendRequests, epoll, stopped, mainVars>>

\* ... or as much as the socket takes (EAGAIN).
SendSome(s) ==
    \E k \in 1 .. sendBuf[s] :
        /\ epoll.at = "events"
        /\ "out" \in batch[s]
        /\ ~deleting[s]
        /\ sendBuf' = [sendBuf EXCEPT ![s] = k]
        /\ writable' = [writable EXCEPT ![s] = FALSE]
        /\ idle' = [idle EXCEPT ![s] = FALSE]
        /\ batch' = [batch EXCEPT ![s] = @ \ {"out"}]
        /\ UNCHANGED <<object, sd, deleting, pollIn, myWorkerCounter, unread, hup, edge,
                       asked, pollingSockets, sendRequests, epoll, stopped, mainVars>>

\* send() gets EPIPE or ECONNRESET.
SendFails(s) ==
    /\ epoll.at = "events"
    /\ "out" \in batch[s]
    /\ hup[s] /\ sendBuf[s] > 0 /\ ~deleting[s]
    /\ Delete(s, TRUE, "events")
    /\ batch' = [batch EXCEPT ![s] = {}]
    /\ UNCHANGED <<object, pollIn, myWorkerCounter, sendBuf, idle, unread, hup, writable,
                   asked, sendRequests, stopped, mainVars>>

\* Fault: the event is dropped when all workers are busy.
AllWorkersBusyDrops(s) ==
    /\ epoll.at = "events"
    /\ batch[s] = {"in"}
    /\ workerCount >= maxWorkers
    /\ batch' = [batch EXCEPT ![s] = {}]
    /\ UNCHANGED <<socketVars, kernelVars, pollingSockets, sendRequests, epoll, stopped,
                   mainVars>>

\* Too many workers: not received, but to be reported again.
AllWorkersBusy(s) ==
    /\ epoll.at = "events"
    /\ batch[s] = {"in"}
    /\ workerCount >= maxWorkers
    /\ modifyPoll(s)
    /\ batch' = [batch EXCEPT ![s] = {}]
    /\ UNCHANGED <<socketVars, unread, hup, writable, asked, pollingSockets, sendRequests,
                   epoll, stopped, mainVars>>

\* countWorker() > 0: not received; then pollIn is set.
HasWorker(s) ==
    /\ epoll.at = "events"
    /\ batch[s] = {"in"}
    /\ workerCount < maxWorkers
    /\ myWorkerCounter[s] > 0
    /\ epoll' = At("pollIn", s, "events")
    /\ batch' = [batch EXCEPT ![s] = {}]
    /\ UNCHANGED <<socketVars, kernelVars, pollingSockets, sendRequests, stopped, mainVars>>

SetPollIn ==
    LET s == epoll.socket IN
    /\ epoll.at = "pollIn"
    /\ pollIn' = [pollIn EXCEPT ![s] = TRUE]
    /\ missed' = [missed EXCEPT ![s] = myWorkerCounter[s] = 0 /\ release # s]
    /\ epoll' = At("events", NoSocket, "events")
    /\ UNCHANGED <<object, sd, deleting, myWorkerCounter, sendBuf, idle, kernelVars,
                   pollingSockets, sendRequests, batch, stopped, job, release>>

\* Fault: the socket's own worker is not looked at.
MayReceiveAgain(s) ==
    epoll.at = "events" /\ batch[s] = {"in"} /\ workerCount < maxWorkers

MayReceive(s) ==
    /\ epoll.at = "events"
    /\ batch[s] = {"in"}
    /\ workerCount < maxWorkers
    /\ myWorkerCounter[s] = 0

\* Of what recv() takes, a request with an Upgrade header is dropped with all that
\* came with it, and asks for a switch to WebSocket or, when there is no such
\* endpoint, for a disconnect; one for another protocol asks for nothing.  The last
\* `rest` requests are left in the buffer.
Upgraded(s, rest) ==
    \E us \in UNION {[1 .. n -> Upgrades \ {"ignore"}] : n \in 0 .. unread[s] - rest} :
        /\ rest < unread[s] => us # <<>> \/ "ignore" \in Upgrades
        /\ sendRequests' = IF deleting[s] THEN sendRequests
                           ELSE sendRequests \o [i \in 1 .. Len(us) |->
                                                    [method |-> us[i], socket |-> s]]

\* recv() takes all there is; startWorker() hands it to a new worker.
Receive(s) ==
    /\ MayReceive(s)
    /\ ~hup[s]
    /\ \E rest \in 0 .. unread[s] :
          /\ Upgraded(s, rest)
          /\ \/ rest = 0 /\ UNCHANGED <<job, myWorkerCounter>>
             \/ /\ rest > 0
                /\ \E w \in Workers :
                      /\ job[w] = NoJob
                      /\ job' = [job EXCEPT ![w] = [socket |-> s, doing |-> "run", left |-> rest]]
                /\ myWorkerCounter' = [myWorkerCounter EXCEPT ![s] = @ + 1]
    /\ unread' = [unread EXCEPT ![s] = 0]
    /\ missed' = [missed EXCEPT ![s] = FALSE]
    /\ idle' = [idle EXCEPT ![s] = FALSE]
    /\ batch' = [batch EXCEPT ![s] = {}]
    /\ UNCHANGED <<object, sd, deleting, pollIn, sendBuf, hup, writable, edge, asked,
                   pollingSockets, epoll, stopped, release>>

\* recv() comes to the end of the stream, or to an error: -1, whatever it read.
ReceiveFails(s) ==
    /\ MayReceive(s)
    /\ hup[s]
    /\ \E rest \in 0 .. unread[s] : Upgraded(s, rest)
    /\ Delete(s, TRUE, "events")
    /\ unread' = [unread EXCEPT ![s] = 0]
    /\ batch' = [batch EXCEPT ![s] = {}]
    /\ UNCHANGED <<object, pollIn, myWorkerCounter, sendBuf, idle, hup, writable, asked,
                   stopped, mainVars>>

\* A body above LimitRequestBody: ClientErrorException(413), which nobody catches in
\* the polling thread, so that the process ends with all its threads.
RequestTooLarge(s) ==
    /\ LimitBody
    /\ MayReceive(s)
    /\ unread[s] > 0
    /\ deleting' = [t \in Sockets |-> object[t] # "none"]
    /\ object' = [t \in Sockets |-> IF object[t] = "none" THEN "none" ELSE "freed"]
    /\ sd' = [t \in Sockets |-> FALSE]
    /\ myWorkerCounter' = [t \in Sockets |-> 0]
    /\ edge' = [t \in Sockets |-> {}] /\ batch' = [t \in Sockets |-> {}]
    /\ pollingSockets' = {} /\ sendRequests' = <<>>
    /\ epoll' = At("ended", NoSocket, "dispatch") /\ stopped' = TRUE
    /\ job' = [w \in Workers |-> NoJob] /\ release' = NoSocket
    /\ UNCHANGED <<pollIn, sendBuf, idle, unread, hup, writable, asked, missed>>

\* Fault: the worker counter is not looked at.
DeleteNow ==
    LET s == epoll.socket IN
    /\ epoll.at = "delete"
    /\ object' = [object EXCEPT ![s] = IF @ = "live" THEN "doomed" ELSE @]
    /\ epoll' = At(epoll.back, NoSocket, epoll.back)
    /\ UNCHANGED <<sd, deleting, pollIn, myWorkerCounter, sendBuf, idle, kernelVars,
                   pollingSockets, sendRequests, batch, stopped, mainVars>>

\* Fault: the object is left to its workers even when it has none.
DeleteByWorker ==
    /\ epoll.at = "delete"
    /\ epoll' = At(epoll.back, NoSocket, epoll.back)
    /\ UNCHANGED <<socketVars, kernelVars, pollingSockets, sendRequests, batch, stopped,
                   mainVars>>

\* deleteLater(), second half: the worker counter is read after `deleting` is set.
DeleteLater ==
    LET s == epoll.socket IN
    /\ epoll.at = "delete"
    /\ object' = IF myWorkerCounter[s] = 0 /\ object[s] = "live"
                 THEN [object EXCEPT ![s] = "doomed"] ELSE object
    /\ epoll' = At(epoll.back, NoSocket, epoll.back)
    /\ UNCHANGED <<sd, deleting, pollIn, myWorkerCounter, sendBuf, idle, kernelVars,
                   pollingSockets, sendRequests, batch, stopped, mainVars>>

\* The events are done ...
EventsDone ==
    /\ epoll.at = "events"
    /\ \A s \in Sockets : batch[s] = {}
    /\ epoll' = At("sweep", NoSocket, "sweep")
    /\ UNCHANGED <<socketVars, kernelVars, pollingSockets, sendRequests, batch, stopped,
                   mainVars>>

\* Fault: a socket with input to be polled does not count as idle.
SweepQuiet ==
    /\ KeepAlive
    /\ epoll.at = "events"
    /\ \A s \in Sockets : batch[s] = {}
    /\ batch' = [s \in Sockets |-> IF idle[s] /\ ~pollIn[s] /\ object[s] \in {"live", "doomed"}
                                   THEN {"idle"} ELSE {}]
    /\ epoll' = At("sweep", NoSocket, "sweep")
    /\ UNCHANGED <<socketVars, kernelVars, pollingSockets, sendRequests, stopped, mainVars>>

\* ... and, once a second, the idle ones of allSockets() are looked for.
Sweep ==
    /\ KeepAlive
    /\ epoll.at = "events"
    /\ \A s \in Sockets : batch[s] = {}
    /\ batch' = [s \in Sockets |-> IF idle[s] /\ object[s] \in {"live", "doomed"}
                                   THEN {"idle"} ELSE {}]
    /\ epoll' = At("sweep", NoSocket, "sweep")
    /\ UNCHANGED <<socketVars, kernelVars, pollingSockets, sendRequests, stopped, mainVars>>

Timeout(s) ==
    /\ epoll.at = "sweep"
    /\ batch[s] = {"idle"}
    /\ Delete(s, TRUE, "sweep")
    /\ batch' = [batch EXCEPT ![s] = {}]
    /\ UNCHANGED <<object, pollIn, myWorkerCounter, sendBuf, idle, unread, hup, writable,
                   asked, sendRequests, stopped, mainVars>>

\* The end of a round; after stop(), releaseAllPollingSockets().
NextRound ==
    /\ epoll.at = "sweep"
    /\ \A s \in Sockets : batch[s] = {}
    /\ ~stopped
    /\ epoll' = At("dispatch", NoSocket, "dispatch")
    /\ UNCHANGED <<socketVars, kernelVars, pollingSockets, sendRequests, batch, stopped,
                   mainVars>>

LastRound ==
    /\ epoll.at = "sweep"
    /\ \A s \in Sockets : batch[s] = {}
    /\ stopped
    /\ deleting' = [s \in Sockets |-> deleting[s] \/ s \in pollingSockets]
    /\ object' = [s \in Sockets |-> IF s \in pollingSockets /\ myWorkerCounter[s] = 0
                                    THEN "doomed" ELSE object[s]]
    /\ pollingSockets' = {}
    /\ epoll' = At("ended", NoSocket, "dispatch")
    /\ UNCHANGED <<sd, pollIn, myWorkerCounter, sendBuf, idle, kernelVars, sendRequests, batch,
                   stopped, mainVars>>

-----------------------------------------------------------------------------
(* The workers: TActionWorker::run(), one request after the other.          *)

\* writeResponse(): sendData() puts the response on the queue ...
EnqueueResponse(w) ==
    LET s == job[w].socket IN
    /\ job[w].doing = "run" /\ job[w].left > 0
    /\ ~deleting[s]
    /\ sendBuf' = [sendBuf EXCEPT ![s] = @ + 1]
    /\ job' = [job EXCEPT ![w].doing = "queued"]
    /\ UNCHANGED <<object, sd, deleting, pollIn, myWorkerCounter, idle, kernelVars, epollVars,
                   release, missed>>

\* Fault: the response is queued and epoll is not told.
NoRearm(w) ==
    /\ job[w].doing = "queued"
    /\ job' = [job EXCEPT ![w].doing = "run", ![w].left = @ - 1]
    /\ UNCHANGED <<socketVars, kernelVars, epollVars, release, missed>>

\* ... and has epoll report that the socket can be written.
RearmPoll(w) ==
    /\ job[w].doing = "queued"
    /\ modifyPoll(job[w].socket)
    /\ job' = [job EXCEPT ![w].doing = "run", ![w].left = @ - 1]
    /\ UNCHANGED <<socketVars, unread, hup, writable, asked, epollVars, release, missed>>

\* The response of a socket that is being deleted is dropped.
DropResponse(w) ==
    /\ job[w].doing = "run" /\ job[w].left > 0
    /\ deleting[job[w].socket]
    /\ job' = [job EXCEPT ![w].left = @ - 1]
    /\ UNCHANGED <<socketVars, kernelVars, epollVars, release, missed>>

\* An exception: closeHttpSocket() asks for the socket to be disconnected.
CloseHttpSocket(w) ==
    LET s == job[w].socket IN
    /\ job[w].doing = "run" /\ job[w].left > 0
    /\ sendRequests' = IF deleting[s] THEN sendRequests
                       ELSE Append(sendRequests, [method |-> "disconnect", socket |-> s])
    /\ job' = [job EXCEPT ![w].left = @ - 1]
    /\ UNCHANGED <<socketVars, kernelVars, pollingSockets, batch, epoll, stopped, release, missed>>

Finish(w) ==
    /\ job[w].doing = "run" /\ job[w].left = 0
    /\ job' = [job EXCEPT ![w].doing = "finished"]
    /\ UNCHANGED <<socketVars, kernelVars, epollVars, release, missed>>

-----------------------------------------------------------------------------
(* The main thread, until it blocks in stop().                              *)

\* releaseWorker(): the counter first ...
ReleaseWorker(w) ==
    LET s == job[w].socket IN
    /\ ~stopped /\ release = NoSocket
    /\ job[w].doing = "finished"
    /\ job' = [job EXCEPT ![w].doing = "released"]
    /\ myWorkerCounter' = [myWorkerCounter EXCEPT ![s] = @ - 1]
    /\ release' = s
    /\ UNCHANGED <<object, sd, deleting, pollIn, sendBuf, idle, kernelVars, epollVars, missed>>

\* Fault: pollIn is reset, and epoll is not told.
ReleaseWithoutPoll ==
    LET s == release IN
    /\ s # NoSocket /\ ~stopped
    /\ object' = IF deleting[s] /\ myWorkerCounter[s] = 0 /\ object[s] = "live"
                 THEN [object EXCEPT ![s] = "doomed"] ELSE object
    /\ pollIn' = [pollIn EXCEPT ![s] = FALSE]
    /\ release' = NoSocket
    /\ UNCHANGED <<sd, deleting, myWorkerCounter, sendBuf, idle, kernelVars, epollVars, job,
                   missed>>

\* ... then deleting, or else pollIn.
ReleaseSocket ==
    LET s == release IN
    /\ s # NoSocket /\ ~stopped
    /\ \/ /\ deleting[s]
          /\ object' = IF myWorkerCounter[s] = 0 /\ object[s] = "live"
                       THEN [object EXCEPT ![s] = "doomed"] ELSE object
          /\ UNCHANGED <<pollIn, edge>>
       \/ /\ ~deleting[s] /\ pollIn[s]
          /\ pollIn' = [pollIn EXCEPT ![s] = FALSE]
          /\ modifyPoll(s)
          /\ UNCHANGED object
       \/ /\ ~deleting[s] /\ ~pollIn[s]
          /\ UNCHANGED <<object, pollIn, edge>>
    /\ release' = NoSocket
    /\ UNCHANGED <<sd, deleting, myWorkerCounter, sendBuf, idle, unread, hup, writable, asked,
                   epollVars, job, missed>>

\* Deferred deletion: ~TEpollSocket() closes what is still open.
FreeSocket(s) ==
    /\ ~stopped /\ release = NoSocket
    /\ object[s] = "doomed"
    /\ object' = [object EXCEPT ![s] = "freed"]
    /\ sd' = [sd EXCEPT ![s] = FALSE]
    /\ UNCHANGED <<deleting, pollIn, myWorkerCounter, sendBuf, idle, kernelVars, epollVars,
                   mainVars>>

\* ~TActionWorker() counts down workerCounter.
FreeWorker(w) ==
    /\ ~stopped /\ release = NoSocket
    /\ job[w].doing = "released"
    /\ job' = [job EXCEPT ![w] = NoJob]
    /\ UNCHANGED <<socketVars, kernelVars, epollVars, release, missed>>

Stop ==
    /\ ~stopped /\ release = NoSocket
    /\ stopped' = TRUE
    /\ UNCHANGED <<socketVars, kernelVars, pollingSockets, sendRequests, batch, epoll,
                   mainVars>>

-----------------------------------------------------------------------------
(* The clients and the clock.                                               *)

Arrives(s, event) ==
    edge' = IF s \in pollingSockets /\ sd[s] THEN [edge EXCEPT ![s] = @ \cup {event}] ELSE edge

ClientSends(s) ==
    /\ ~hup[s] /\ asked[s] < MaxRequests
    /\ object[s] # "none" => sd[s]
    /\ unread' = [unread EXCEPT ![s] = @ + 1]
    /\ asked' = [asked EXCEPT ![s] = @ + 1]
    /\ Arrives(s, "in")
    /\ UNCHANGED <<socketVars, hup, writable, epollVars, mainVars>>

ClientCloses(s) ==
    /\ ~hup[s]
    /\ hup' = [hup EXCEPT ![s] = TRUE]
    /\ Arrives(s, "in")
    /\ UNCHANGED <<socketVars, unread, writable, asked, epollVars, mainVars>>

ClientReads(s) ==
    /\ ~writable[s]
    /\ writable' = [writable EXCEPT ![s] = TRUE]
    /\ Arrives(s, "out")
    /\ UNCHANGED <<socketVars, unread, hup, asked, epollVars, mainVars>>

TimePasses(s) ==
    /\ KeepAlive
    /\ object[s] \in {"live", "doomed"} /\ ~idle[s]
    /\ idle' = [idle EXCEPT ![s] = TRUE]
    /\ UNCHANGED <<object, sd, deleting, pollIn, myWorkerCounter, sendBuf, kernelVars,
                   epollVars, mainVars>>

-----------------------------------------------------------------------------
PollStep ==
    \/ DispatchSendData \/ Wait \/ SetPollIn \/ DeleteLater
    \/ EventsDone \/ Sweep \/ NextRound \/ LastRound
    \/ \E s \in Sockets : \/ SendAll(s) \/ SendSome(s) \/ SendFails(s)
                          \/ AllWorkersBusy(s) \/ HasWorker(s) \/ Receive(s) \/ ReceiveFails(s)
                          \/ RequestTooLarge(s) \/ Timeout(s)

WorkerStep(w) ==
    EnqueueResponse(w) \/ RearmPoll(w) \/ DropResponse(w) \/ CloseHttpSocket(w) \/ Finish(w)

MainStep ==
    \/ ReleaseSocket
    \/ \E w \in Workers : ReleaseWorker(w) \/ FreeWorker(w)
    \/ \E s \in Sockets : FreeSocket(s)

Next ==
    \/ PollStep \/ MainStep \/ Stop
    \/ \E w \in Workers : WorkerStep(w)
    \/ \E s \in Sockets : Accept(s) \/ ClientSends(s) \/ ClientCloses(s) \/ ClientReads(s)
                          \/ TimePasses(s)

Spec == Init /\ [][Next]_vars

(* Every thread is scheduled and seconds pass; a client reads what it is    *)
(* sent, so a response, which is finite, is not cut by EAGAIN for ever.     *)
FairSpec ==
    /\ Spec
    /\ WF_vars(PollStep) /\ WF_vars(MainStep) /\ SF_vars(Sweep)
    /\ \A w \in Workers : WF_vars(WorkerStep(w))
    /\ \A s \in Sockets : /\ WF_vars(ClientReads(s)) /\ WF_vars(TimePasses(s))
                          /\ SF_vars(SendAll(s))

-----------------------------------------------------------------------------
(* Properties.                                                              *)

Serves(w, s) == job[w].socket = s /\ job[w].doing \in {"run", "queued", "finished"}

\* A socket object outlives its workers, although it is the polling thread
\* that gives up the socket and the main thread that counts the worker down:
\* it is doomed only when myWorkerCounter, which counts them, is 0.
SocketOutlivesWorkers ==
    \A s \in Sockets :
        /\ myWorkerCounter[s] = Cardinality({w \in Workers : Serves(w, s)})
        /\ object[s] \in {"doomed", "freed"} => myWorkerCounter[s] = 0

\* A connection has one worker at a time, so the responses to its requests
\* are queued in the order of the requests.
OneWorkerPerSocket ==
    \A v, w \in Workers, s \in Sockets : Serves(v, s) /\ Serves(w, s) => v = w

\* An event that epoll_wait() returned is handled on a socket that still exists,
\* though others may have been deleted since.
EventsAreLive ==
    \A s \in Sockets : batch[s] \cap {"in", "out"} # {} => object[s] = "live" /\ sd[s]

\* A socket that is given up is freed in the end: its last worker or the
\* polling thread, whichever comes second, sees that it must.
DeletedAreFreed ==
    \A s \in Sockets : deleting[s] ~> (object[s] = "freed" \/ stopped)

\* A queued response is sent: the polling thread is going to be told of it, or
\* a worker is about to tell it, or the kernel will when the client has read.  So
\* a worker's enqueue, the edge-triggered event and send() never miss each other.
ResponsesLeave ==
    \A s \in Sockets :
        sendBuf[s] > 0 /\ sd[s] /\ ~deleting[s] =>
            \/ "out" \in edge[s] \cup batch[s]
            \/ ~writable[s]
            \/ \E w \in Workers : job[w].socket = s /\ job[w].doing = "queued"

\* A request is read even when it comes while all workers are busy or the socket
\* has one: epoll is going to report it, or the polling thread has it at hand, or
\* pollIn says that releaseWorker() must ask for the event again, and there is a
\* worker whose release will see it or is about to.  There is one exception, the race
\* of run(), lines 201-203: the last worker is released between the poller's look at
\* countWorker() and its store to pollIn; then nobody asks for the event again.
RequestsAreNoticed ==
    \A s \in Sockets :
        unread[s] > 0 /\ sd[s] /\ ~deleting[s] =>
            \/ "in" \in edge[s] \cup batch[s]
            \/ epoll.at = "pollIn" /\ epoll.socket = s
            \/ pollIn[s] /\ (release = s \/ \E w \in Workers : Serves(w, s))
            \/ missed[s]

\* With a keep-alive timeout no request hangs its client: it is read, or the
\* sweep closes the connection.  The sweep is needed where the worker is released
\* between the poller's look at its counter and its store to pollIn (run(), lines
\* 201-203), so that nobody asks for the event again.
ReadOrTimedOut ==
    \A s \in Sockets :
        unread[s] > 0 /\ object[s] = "live" ~> (unread[s] = 0 \/ deleting[s] \/ stopped)

=============================================================================
