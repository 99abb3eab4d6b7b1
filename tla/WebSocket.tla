----------------------------- MODULE WebSocket -----------------------------
(***************************************************************************)
(* One WebSocket of the server, from the switch of its connection to the    *)
(* deletion of its object, under either MPM:                                *)
(*                                                                          *)
(*   hybrid  TEpollWebSocket: the polling thread reads, and gives the       *)
(*           socket up; the main thread releases workers and deletes;       *)
(*   thread  TWebSocket: the main thread does all of this; the action       *)
(*           thread that switched the connection starts the opening worker. *)
(*                                                                          *)
(* TWebSocketWorker threads run the endpoint's handlers and the tasks these *)
(* leave: one for opening, one at a time for what was received, one for     *)
(* closing.  They meet in the atomics closing, closeSent, deleting, pollIn  *)
(* and myWorkerCounter.  A frame is a unit here; see WebSocketFrames for    *)
(* how bytes become frames, and EpollServer for the rest of the poll loop.  *)
(*                                                                          *)
(* What a thread does with a freed object is undefined, and not modelled:   *)
(* no step is taken on one.                                                 *)
(***************************************************************************)
EXTENDS Naturals, Sequences, SequencesExt

CONSTANTS
    Mpms,        \* subset of {"hybrid", "thread"}
    KeepAlive,   \* the endpoint's keepAliveInterval() > 0
    MaxFrames    \* bound: frames the peer sends

ASSUME WebSocketAssumptions ==
    /\ Mpms \subseteq {"hybrid", "thread"}
    /\ KeepAlive \in BOOLEAN
    /\ MaxFrames \in Nat

VARIABLES
    mpm,                 \* the MPM of this server
    \* the socket object
    object,              \* live, doomed (QObject::deleteLater()) or freed
    open,                \* the descriptor is open
    deleting, closing, closeSent, pollIn, myWorkerCounter,
    timer,               \* keepAliveTimer: none, off, on
    queued,              \* data in the send buffer
    disconnects,         \* a disconnect() that the reading thread has not seen
    \* threads
    opener,              \* the action thread has yet to start the opening worker
    reader,              \* where the reading thread is
    release,             \* the main thread is inside releaseWorker()
    job,                 \* job[w]: what worker w has to do
    closer,              \* another socket's worker has yet to write the Close frame
    \* the peer and the kernel
    inbox, hup, edge,    \* unread frames; hung up; EPOLLIN will be reported
    sent,                \* bound: frames sent
    \* history
    onOpen, onClose,     \* answer of onOpen(); calls of onClose()
    closeFrames,         \* Close frames written
    closeReceived,       \* a Close frame of the peer has been handled
    overtaken            \* doomed when a thread was about to start a worker

flagVars   == <<deleting, closing, closeSent>>
socketVars == <<object, open, pollIn, myWorkerCounter>>
writeVars  == <<timer, queued, disconnects>>
threadVars == <<opener, reader, release, closer>>
peerVars   == <<inbox, hup, edge, sent>>
history    == <<onOpen, onClose, closeFrames, closeReceived, overtaken>>
vars       == <<mpm, object, open, deleting, closing, closeSent, pollIn, myWorkerCounter,
                timer, queued, disconnects, opener, reader, release, job, closer, inbox, hup,
                edge, sent, onOpen, onClose, closeFrames, closeReceived, overtaken>>

Workers == {"Opening", "Receiving", "Closing"}
Frames  == {"text", "close", "bad"}      \* bad: parse() returns -1
Tasks   == {"OpenSuccess", "OpenError", "SendText", "SendClose", "StartKeepAlive"}

NoJob == [at |-> "none", payloads |-> <<>>, tasks |-> <<>>, sendTask |-> FALSE]
Job(payloads) == [NoJob EXCEPT !.at = "execute", !.payloads = payloads]

TypeOK ==
    /\ mpm \in Mpms
    /\ object \in {"live", "doomed", "freed"}
    /\ {open, deleting, closing, closeSent, pollIn, queued, disconnects, opener, release}
          \subseteq BOOLEAN
    /\ {closer, hup, edge, closeReceived, overtaken} \subseteq BOOLEAN
    /\ myWorkerCounter \in Nat /\ sent \in Nat /\ onClose \in Nat /\ closeFrames \in Nat
    /\ timer \in {"none", "off", "on"}
    /\ reader \in {"idle", "pollIn", "closing"}
    /\ job \in [Workers -> [at : {"none", "execute", "tasks", "exchange", "write", "finished"},
                            payloads : Seq(Frames), tasks : Seq(Tasks), sendTask : BOOLEAN]]
    /\ inbox \in Seq(Frames)
    /\ onOpen \in {"none", "accepted", "refused", "threw"}

(* dispatchSendData() creates the object and starts the opening worker       *)
(* before it polls again; the action thread of the thread MPM hands the      *)
(* object to the main thread and looks the session up in between.            *)
Init ==
    /\ mpm \in Mpms
    /\ object = "live" /\ open = TRUE
    /\ deleting = FALSE /\ closing = FALSE /\ closeSent = FALSE /\ pollIn = FALSE
    /\ opener = (mpm = "thread")
    /\ myWorkerCounter = IF mpm = "hybrid" THEN 1 ELSE 0
    /\ job = [w \in Workers |-> IF mpm = "hybrid" /\ w = "Opening" THEN Job(<<>>) ELSE NoJob]
    /\ timer = "none" /\ queued = FALSE /\ disconnects = FALSE
    /\ reader = "idle" /\ release = FALSE /\ closer = FALSE
    /\ inbox = <<>> /\ hup = FALSE /\ edge = FALSE /\ sent = 0
    /\ onOpen = "none" /\ onClose = 0 /\ closeFrames = 0
    /\ closeReceived = FALSE /\ overtaken = FALSE

InUse == object # "freed"
MainIsFree == ~release /\ (mpm = "thread" => reader = "idle")

-----------------------------------------------------------------------------
(* Parts of the handlers.                                                   *)

startWorker(w, payloads) ==
    /\ job' = [job EXCEPT ![w] = Job(payloads)]
    /\ myWorkerCounter' = myWorkerCounter + 1

\* EPOLL_CTL_MOD on a socket that is still polled
modifyPoll == edge' = IF open /\ mpm = "hybrid" THEN inbox # <<>> \/ hup ELSE edge

\* writeRawData()
writeRawData ==
    IF deleting THEN UNCHANGED <<queued, edge>> ELSE queued' = TRUE /\ modifyPoll

\* The signal of a TWebSocket is always emitted.
disconnect == disconnects' = (disconnects \/ mpm = "thread" \/ ~deleting)

\* renewKeepAlive() and stopKeepAlive() concern a timer that exists.
Switched(to) == IF timer = "none" THEN "none" ELSE to

\* What sendClose() does when its closeSent.exchange(true), a step before this one,
\* has found the flag down.
WriteClose ==
    /\ closeFrames' = closeFrames + (IF deleting THEN 0 ELSE 1)
    /\ timer' = Switched("off")
    /\ writeRawData

\* QObject::deleteLater(), called by deleteLater() when no worker is counted;
\* another thread may be about to start one.
Doom(overtaking) ==
    /\ object' = IF myWorkerCounter = 0 THEN "doomed" ELSE object
    /\ overtaken' = (overtaken \/ (myWorkerCounter = 0 /\ overtaking))

\* The reading thread gives the socket up: deletePoll(), close() and the first
\* call of deleteLater(), which goes on to startWorkerForClosing().
Delete ==
    /\ open' = FALSE
    /\ edge' = FALSE
    /\ deleting' = TRUE
    /\ reader' = "closing"

-----------------------------------------------------------------------------
(* The reading thread.                                                      *)

\* recv() of the polling thread, or readRequest(); then a worker is started for
\* the requests there are.
Read ==
    /\ \/ inbox # <<>> /\ startWorker("Receiving", inbox)
       \/ inbox = <<>> /\ UNCHANGED <<job, myWorkerCounter>>
    /\ inbox' = <<>>

\* Fault: a socket that has a worker is read.
MayReadAgain == mpm = "hybrid" /\ edge

MayRead ==
    \/ mpm = "hybrid" /\ edge /\ myWorkerCounter = 0
    \/ mpm = "thread" /\ ~release /\ inbox # <<>> /\ myWorkerCounter = 0

Receive ==
    /\ InUse /\ reader = "idle" /\ open
    /\ MayRead
    /\ mpm = "hybrid" => ~hup
    /\ ~Contains(inbox, "bad")
    /\ Read
    /\ edge' = FALSE
    /\ UNCHANGED <<mpm, object, open, flagVars, pollIn, writeVars, threadVars, hup, sent,
                   history>>

\* A protocol error, or, under epoll, the end of the stream: what recv() has read
\* before it is not looked at.
ReceiveFails ==
    /\ InUse /\ reader = "idle" /\ open
    /\ MayRead
    /\ Contains(inbox, "bad") \/ (mpm = "hybrid" /\ hup)
    /\ Delete
    /\ inbox' = <<>>
    /\ timer' = IF mpm = "thread" THEN Switched("off") ELSE timer      \* disconnect()
    /\ UNCHANGED <<mpm, object, closing, closeSent, pollIn, myWorkerCounter, queued,
                   disconnects, opener, release, closer, job, hup, sent, history>>

\* disconnected() of a QTcpSocket comes after its readyRead().
Disconnected ==
    /\ mpm = "thread"
    /\ InUse /\ MainIsFree /\ open
    /\ hup
    /\ inbox = <<>> \/ myWorkerCounter > 0
    /\ Delete
    /\ UNCHANGED <<mpm, object, closing, closeSent, pollIn, myWorkerCounter, writeVars, opener,
                   release, closer, job, inbox, hup, sent, history>>

\* countWorker() > 0: not received; then pollIn is set.
HasWorker ==
    /\ mpm = "hybrid" /\ reader = "idle" /\ open
    /\ edge /\ myWorkerCounter > 0
    /\ edge' = FALSE
    /\ reader' = "pollIn"
    /\ UNCHANGED <<mpm, socketVars, flagVars, writeVars, opener, release, closer, job, inbox, hup,
                   sent, history>>

SetPollIn ==
    /\ InUse /\ reader = "pollIn"
    /\ pollIn' = TRUE
    /\ reader' = "idle"
    /\ UNCHANGED <<mpm, object, open, myWorkerCounter, flagVars, writeVars, opener, release,
                   closer, job, peerVars, history>>

\* send()
SendAll ==
    /\ InUse /\ reader = "idle" /\ open /\ queued /\ ~hup
    /\ mpm = "thread" => MainIsFree
    /\ queued' = FALSE
    /\ UNCHANGED <<mpm, socketVars, flagVars, timer, disconnects, threadVars, job, peerVars,
                   history>>

SendFails ==
    /\ mpm = "hybrid" /\ reader = "idle" /\ open /\ queued /\ hup
    /\ Delete
    /\ UNCHANGED <<mpm, object, closing, closeSent, pollIn, myWorkerCounter, writeVars, opener,
                   release, closer, job, inbox, hup, sent, history>>

\* dispatchSendData(), or the slot close() and the signal disconnected()
Disconnect ==
    /\ InUse /\ reader = "idle" /\ disconnects
    /\ mpm = "thread" => MainIsFree
    /\ disconnects' = FALSE
    /\ \/ open /\ Delete
       \/ ~open /\ UNCHANGED <<open, edge, deleting, reader>>
    /\ UNCHANGED <<mpm, object, closing, closeSent, pollIn, myWorkerCounter, timer, queued,
                   opener, release, closer, job, inbox, hup, sent, history>>

\* Fault: no worker calls onClose() for a peer that has just gone.
deleteWithoutClosing ==
    /\ InUse /\ reader = "closing"
    /\ Doom(opener)
    /\ reader' = "idle"
    /\ UNCHANGED <<mpm, open, flagVars, pollIn, writeVars, opener, release, closer, peerVars,
                   onOpen, onClose, closeFrames, closeReceived, job, myWorkerCounter>>

startWorkerForClosing ==
    /\ InUse /\ reader = "closing"
    /\ \/ ~closing /\ startWorker("Closing", <<>>) /\ UNCHANGED <<object, overtaken>>
       \/ closing /\ Doom(opener) /\ UNCHANGED <<job, myWorkerCounter>>
    /\ reader' = "idle"
    /\ UNCHANGED <<mpm, open, flagVars, pollIn, writeVars, opener, release, closer, peerVars,
                   onOpen, onClose, closeFrames, closeReceived>>

\* The action thread of the thread MPM
startWorkerForOpening ==
    /\ InUse /\ opener
    /\ opener' = FALSE
    /\ startWorker("Opening", <<>>)
    /\ UNCHANGED <<mpm, object, open, flagVars, pollIn, writeVars, reader, release, closer,
                   peerVars, history>>

-----------------------------------------------------------------------------
(* TWebSocketWorker.                                                        *)

\* What a handler leaves behind: its tasks, or nothing if it throws.  (An
\* exception also skips renewKeepAlive(), as a task that sends does.)
Leaves(w, tasks) == job' = [job EXCEPT ![w].at = "tasks", ![w].tasks = tasks]
Throws(w) == job' = [job EXCEPT ![w].at = "tasks", ![w].tasks = <<>>, ![w].sendTask = TRUE]

ExecuteOpening ==
    /\ InUse /\ job["Opening"].at = "execute"
    /\ \/ /\ onOpen' = "accepted"
          /\ Leaves("Opening", IF KeepAlive THEN <<"OpenSuccess", "StartKeepAlive">>
                                            ELSE <<"OpenSuccess">>)
       \/ onOpen' = "refused" /\ Leaves("Opening", <<"OpenError">>)
       \/ onOpen' = "threw" /\ Throws("Opening")
    /\ UNCHANGED <<mpm, socketVars, flagVars, writeVars, threadVars, peerVars, onClose,
                   closeFrames, closeReceived, overtaken>>

\* Fault: onClose() is called without a look at closing.
CallOnCloseAlways == closing' = TRUE /\ onClose' = onClose + 1

\* closing.exchange(true)
CallOnClose ==
    /\ closing' = TRUE
    /\ onClose' = IF closing THEN onClose ELSE onClose + 1

ExecuteClosing ==
    /\ InUse /\ job["Closing"].at = "execute"
    /\ CallOnClose
    /\ Leaves("Closing", <<>>) \/ (~closing /\ Throws("Closing"))
    /\ UNCHANGED <<mpm, socketVars, deleting, closeSent, writeVars, threadVars, peerVars,
                   onOpen, closeFrames, closeReceived, overtaken>>

ExecuteText ==
    LET j == job["Receiving"] IN
    /\ InUse /\ j.at = "execute" /\ Head(j.payloads) = "text"
    /\ \/ \E tasks \in {<<>>, <<"SendText">>, <<"SendClose">>} : Leaves("Receiving", tasks)
       \/ Throws("Receiving")
    /\ UNCHANGED <<mpm, socketVars, flagVars, writeVars, threadVars, peerVars, history>>

ExecuteClose ==
    LET j == job["Receiving"] IN
    /\ InUse /\ j.at = "execute" /\ Head(j.payloads) = "close"
    /\ CallOnClose
    /\ closeReceived' = TRUE
    /\ Leaves("Receiving", <<"SendClose">>) \/ (~closing /\ Throws("Receiving"))
    /\ UNCHANGED <<mpm, socketVars, deleting, closeSent, writeVars, threadVars, peerVars,
                   onOpen, closeFrames, overtaken>>

TaskDone(w, sends) ==
    job' = [job EXCEPT ![w].at = "tasks", ![w].tasks = Tail(@), ![w].sendTask = @ \/ sends]

OpenSuccess(w) ==
    /\ writeRawData
    /\ TaskDone(w, FALSE)
    /\ UNCHANGED <<closing, closeSent, timer, disconnects, closeFrames>>

OpenError(w) ==
    /\ closing' = TRUE /\ closeSent' = TRUE
    /\ disconnect
    /\ timer' = Switched("off")
    /\ TaskDone(w, TRUE)                   \* goto open_error
    /\ UNCHANGED <<queued, edge, closeFrames>>

SendText(w) ==
    /\ writeRawData
    /\ timer' = Switched("on")
    /\ TaskDone(w, TRUE)
    /\ UNCHANGED <<closing, closeSent, disconnects, closeFrames>>

\* Calls disconnect(), or goes on to sendClose().
DisconnectOrSendClose(w, ready) ==
    \/ /\ ready
       /\ disconnect
       /\ timer' = Switched("off")
       /\ TaskDone(w, FALSE)
    \/ /\ ~ready
       /\ job' = [job EXCEPT ![w].at = "exchange"]
       /\ UNCHANGED <<disconnects, timer>>

\* Fault: the server cuts the connection without having sent its Close.
SendCloseHasty(w) ==
    /\ DisconnectOrSendClose(w, closing)
    /\ UNCHANGED <<closing, closeSent, queued, edge, closeFrames>>

\* The second of the two Close frames disconnects.
SendClose(w) ==
    /\ DisconnectOrSendClose(w, closing /\ closeSent)
    /\ UNCHANGED <<closing, closeSent, queued, edge, closeFrames>>

StartKeepAlive(w) ==
    /\ timer' = "on"
    /\ TaskDone(w, FALSE)
    /\ UNCHANGED <<closing, closeSent, queued, disconnects, edge, closeFrames>>

RunTask(w) ==
    /\ InUse /\ job[w].at = "tasks" /\ job[w].tasks # <<>>
    /\ LET task == Head(job[w].tasks) IN
          \/ task = "OpenSuccess" /\ OpenSuccess(w)
          \/ task = "OpenError" /\ OpenError(w)
          \/ task = "SendText" /\ SendText(w)
          \/ task = "SendClose" /\ SendClose(w)
          \/ task = "StartKeepAlive" /\ StartKeepAlive(w)
    /\ UNCHANGED <<mpm, socketVars, deleting, threadVars, inbox, hup, sent, onOpen, onClose,
                   closeReceived, overtaken>>

\* sendClose() of a task: closeSent.exchange(true) ...
ExchangeCloseSent(w) ==
    /\ InUse /\ job[w].at = "exchange"
    /\ closeSent' = TRUE
    /\ \/ ~closeSent /\ job' = [job EXCEPT ![w].at = "write"]
       \/ closeSent /\ TaskDone(w, TRUE)
    /\ UNCHANGED <<mpm, socketVars, deleting, closing, writeVars, threadVars, peerVars, history>>

\* ... and then the frame; other threads act on closeSent in between.
SendCloseFrame(w) ==
    /\ InUse /\ job[w].at = "write"
    /\ WriteClose
    /\ TaskDone(w, TRUE)
    /\ UNCHANGED <<mpm, socketVars, flagVars, disconnects, threadVars, inbox, hup, sent, onOpen,
                   onClose, closeReceived, overtaken>>

\* The tasks are done: renewKeepAlive(), and the next payload or the end.
EndOfTasks(w) ==
    /\ InUse /\ job[w].at = "tasks" /\ job[w].tasks = <<>>
    /\ timer' = IF job[w].sendTask THEN timer ELSE Switched("on")
    /\ job' = [job EXCEPT ![w] = IF Len(@.payloads) > 1 THEN Job(Tail(@.payloads))
                                 ELSE [NoJob EXCEPT !.at = "finished"]]
    /\ UNCHANGED <<mpm, socketVars, flagVars, queued, disconnects, threadVars, peerVars, history>>

-----------------------------------------------------------------------------
(* The main thread.                                                         *)

\* releaseWorker(): the counter first ...
ReleaseWorker(w) ==
    /\ InUse /\ MainIsFree
    /\ job[w].at = "finished"
    /\ job' = [job EXCEPT ![w] = NoJob]
    /\ myWorkerCounter' = myWorkerCounter - 1
    /\ release' = TRUE
    /\ UNCHANGED <<mpm, object, open, pollIn, flagVars, writeVars, opener, reader, closer,
                   peerVars, history>>

\* Fault: deleteLater() is not called for the socket that is given up.
ReleaseForgets ==
    /\ InUse /\ release
    /\ release' = FALSE
    /\ UNCHANGED <<mpm, socketVars, flagVars, writeVars, opener, reader, closer, job, peerVars,
                   history>>

\* ... then deleting, or else what has come in meanwhile.
ReleaseSocket ==
    /\ InUse /\ release
    /\ release' = FALSE
    /\ \/ /\ deleting
          /\ Doom(opener \/ reader = "closing")
          /\ UNCHANGED <<open, deleting, pollIn, myWorkerCounter, timer, reader, job, inbox, edge>>
       \/ /\ mpm = "hybrid" /\ ~deleting
          /\ pollIn' = FALSE
          /\ IF pollIn THEN modifyPoll ELSE UNCHANGED edge
          /\ UNCHANGED <<object, open, deleting, myWorkerCounter, timer, reader, job, inbox,
                         overtaken>>
       \/ /\ mpm = "thread" /\ ~deleting      \* readRequest()
          /\ IF Contains(inbox, "bad") /\ myWorkerCounter = 0
             THEN /\ Delete
                  /\ inbox' = <<>>
                  /\ timer' = Switched("off")
                  /\ UNCHANGED <<job, myWorkerCounter>>
             ELSE /\ IF myWorkerCounter = 0 THEN Read
                     ELSE UNCHANGED <<job, myWorkerCounter, inbox>>
                  /\ UNCHANGED <<open, edge, deleting, reader, timer>>
          /\ UNCHANGED <<object, pollIn, overtaken>>
    /\ UNCHANGED <<mpm, closing, closeSent, queued, disconnects, opener, closer, hup, sent,
                   onOpen, onClose, closeFrames, closeReceived>>

\* Deferred deletion; the destructor deletes the timer.
Free ==
    /\ MainIsFree /\ object = "doomed"
    /\ object' = "freed"
    /\ open' = FALSE
    /\ timer' = "none"
    /\ UNCHANGED <<mpm, flagVars, pollIn, myWorkerCounter, queued, disconnects, threadVars, job,
                   peerVars, history>>

\* timerEvent(): sendPing()
Ping ==
    /\ InUse /\ MainIsFree /\ timer = "on"
    /\ writeRawData
    /\ UNCHANGED <<mpm, socketVars, flagVars, timer, disconnects, threadVars, job, inbox, hup,
                   sent, history>>

-----------------------------------------------------------------------------
(* Others: a worker of another socket runs closeSocket(), the peer acts.    *)

\* closeSent.exchange(true): whoever finds the flag up leaves at once.
CloseSocket ==
    /\ InUse /\ ~closeSent
    /\ closeSent' = TRUE
    /\ closer' = TRUE
    /\ UNCHANGED <<mpm, socketVars, deleting, closing, writeVars, opener, reader, release, job,
                   peerVars, history>>

CloseSocketWrites ==
    /\ InUse /\ closer
    /\ closer' = FALSE
    /\ WriteClose
    /\ UNCHANGED <<mpm, socketVars, flagVars, disconnects, opener, reader, release, job, inbox,
                   hup, sent, onOpen, onClose, closeReceived, overtaken>>

PeerSends(frame) ==
    /\ open /\ ~hup /\ sent < MaxFrames
    /\ inbox' = Append(inbox, frame)
    /\ sent' = sent + 1
    /\ edge' = (mpm = "hybrid")
    /\ UNCHANGED <<mpm, socketVars, flagVars, writeVars, threadVars, job, hup, history>>

PeerHangsUp ==
    /\ open /\ ~hup
    /\ hup' = TRUE
    /\ edge' = (mpm = "hybrid")
    /\ UNCHANGED <<mpm, socketVars, flagVars, writeVars, threadVars, job, inbox, sent, history>>

-----------------------------------------------------------------------------
ReaderStep ==
    \/ Receive \/ ReceiveFails \/ Disconnected \/ HasWorker \/ SetPollIn \/ SendAll \/ SendFails
    \/ Disconnect \/ startWorkerForClosing

WorkerStep(w) ==
    \/ w = "Opening" /\ ExecuteOpening
    \/ w = "Closing" /\ ExecuteClosing
    \/ w = "Receiving" /\ (ExecuteText \/ ExecuteClose)
    \/ RunTask(w) \/ ExchangeCloseSent(w) \/ SendCloseFrame(w) \/ EndOfTasks(w)

MainStep == ReleaseSocket \/ Free \/ \E w \in Workers : ReleaseWorker(w)

Next ==
    \/ ReaderStep \/ MainStep \/ startWorkerForOpening \/ Ping \/ PeerHangsUp
    \/ CloseSocket \/ CloseSocketWrites
    \/ \E w \in Workers : WorkerStep(w)
    \/ \E frame \in Frames : PeerSends(frame)

Spec == Init /\ [][Next]_vars

\* Every thread is scheduled; nothing is expected of the peer, and no closeSocket()
\* of other sockets, but one that has begun goes on.
FairSpec ==
    /\ Spec
    /\ WF_vars(ReaderStep) /\ WF_vars(MainStep) /\ WF_vars(startWorkerForOpening)
    /\ WF_vars(CloseSocketWrites)
    /\ \A w \in Workers : WF_vars(WorkerStep(w))

-----------------------------------------------------------------------------
(* Properties.                                                              *)

\* onClose() is called once and one Close frame is sent, at most, although the
\* endpoint, the Close frame of the peer, the end of its connection and another
\* socket's closeSocket() may all close, in workers that run together.
CloseOnce == onClose <= 1 /\ closeFrames <= 1

\* The server cuts a connection it has not refused only when the peer's Close frame
\* has been handled, onClose() called, and its own Close frame written before, with
\* one exception: the flag closeSent is up before the frame is written, and when it
\* was another socket's closeSocket() that raised it, the worker that handles the
\* peer's Close may cut the connection while that frame is still to come.
HandshakeBeforeCut ==
    disconnects /\ ~deleting =>
        \/ onOpen = "refused"
        \/ closeReceived /\ onClose = 1 /\ (closeFrames = 1 \/ closer)

\* No payload is handed to the endpoint before onOpen() has returned, even if the
\* peer does not wait for the response to its handshake (hybrid MPM; in the thread
\* MPM the main thread may read before the action thread starts the worker).
OpenBeforePayload ==
    mpm = "hybrid" /\ job["Receiving"].at # "none" => onOpen # "none"

\* When the object goes, no worker has it and closing is set, so that an endpoint
\* that accepted the connection has seen onClose() (the destructor logs "Logic
\* warning" otherwise).  This leaves out the object that the main thread dooms
\* after deleting.exchange() and before the new worker is counted: nothing in
\* deleteLater() prevents it.
GoesClosed ==
    object # "live" /\ ~overtaken =>
        /\ \A w \in Workers : job[w].at = "none"
        /\ closing /\ (onOpen # "refused" => onClose = 1)

\* A connection that ends is noticed and its object deleted.  Under epoll there is
\* one gap: pollIn set after the last worker was released is not looked at again,
\* and no idle sweep closes a WebSocket; only traffic or a ping repairs it.
EndIsNoticed ==
    (hup \/ deleting) ~> (object = "freed" \/ (pollIn /\ myWorkerCounter = 0))

=============================================================================
