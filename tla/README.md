# TreeFrog Framework: TLA+ models, checks and proofs

This directory holds a formal model of the server side of the TreeFrog
Framework: the C++ classes under `src/src` that accept connections, cut them
into requests, run actions against pooled database connections and answer, the
WebSockets they become and the messages these publish, and the `treefrog` manager
under `src/tools/tfmanager` that keeps the server processes alive and carries the
messages between them. TLC explores small instances of every module; TLAPS proves the
most important invariants for instances of every size. Line numbers below and in
`PROJECT.json` refer to the sources in `src/`.

## 1. Inventory

### The system at a glance

`treefrog` (the manager) forks a number of `tadpole` processes. Each tadpole runs
one of two multi-processing modules (MPMs). In the *thread* MPM a `TActionThread`
serves one connection; in the *hybrid* MPM one thread polls all connections with
epoll and starts a `TActionWorker` for each batch of requests. Both derive from
`TActionContext`, whose `execute()` runs the controller's action, and through it
from `TDatabaseContext`, which fetches connections from `TSqlDatabasePool` and
`TKvsDatabasePool` and keeps the transactions. `TWebSocketWorker` derives from
`TDatabaseContext` as well and runs the endpoints of WebSockets.

| Component | State it keeps | Operations | Met by | What is hard | What makes it correct |
|---|---|---|---|---|---|
| Connection pools | two lock-free stacks and a time stamp per database, the open connections | `database`, `pool`, `timerEvent`, destructor | every context; a timer in the main thread | pops and pushes of many threads interleave; `open()` fails; connections drop | a connection is in one hand; none is lost; idle ones are closed |
| Database contexts | the connections a context holds, `TSqlTransaction` (record of begun transactions, `enabled`) | `getSqlDatabase`, `commitTransactions`, `rollbackTransactions`, `release` | action contexts, WebSocket workers, session store | the object outlives the request; one commit of several fails; the process dies | a pooled connection is clean; rollback undoes; an action is atomic per database |
| Action context | where `execute()` is, the session, the response | session lookup, filters, action, commit, session store, response, garbage collection | controllers, session manager | many early returns and exceptions, each leaving connections to be released | durable before answered; stored sessions survive `release()` |
| Manager | `serversStatus`, `startCounter`, `managerState`, the signal number | `start`, `stop`, `ajustServers`, the slots of `QProcess`, signal handler | operating system, user | servers crash while others start; signals come at any time | full strength, one scheduler, no orphans |
| Epoll server | epoll set, send queue, and per socket `deleting`, `pollIn`, `myWorkerCounter`, send buffer | the polling loop, `startWorker`, `releaseWorker`, `deleteLater`, `setSendData` | workers, main thread, kernel | three threads share a socket object through atomics; events are edge-triggered | no use after deletion, no missed event, no leak |
| HTTP framing | receive buffer, file buffer, `lengthToRead` | `seekRecvBuffer`, `readRequest`, `generate` | both MPMs | TCP cuts anywhere; clients pipeline | exactly the requests that were sent |
| Session stores | sessions in a table, file, cookie or Redis | `find`, `store`, `remove`, `gc` | action context | use the action's transaction | see Action context |
| WebSocket sockets | frames and receive buffer; `closing`, `closeSent`, `deleting`, `pollIn`, `myWorkerCounter`; keep-alive timer | `parse`, `readAllBinaryRequest`, `sendClose`, `disconnect`, `deleteLater`, `releaseWorker`; the three modes of `TWebSocketWorker` | epoll server or main thread, other sockets' workers, publisher | opening, receiving and closing workers race with the reader and with each other; TCP cuts frames | messages as sent; one `onClose()` and one Close frame; the handshake before the cut; the end is noticed |
| Publisher and system bus | subscribers and signal connections of a topic; `sendBuffer`, `readBuffer`; the daemon's set of sockets | `subscribe`, `unsubscribe`, `publish`, `receiveSystemBus`, `readBus`, `writeBus`, `readSocket` | WebSocket workers, scheduler; `SystemBusDaemon` in the manager | streams cut anywhere, the daemon's wait times out, servers die in the middle of a message | whole, in order, once per subscriber; one server's trouble is its own |
| Lock-free containers | `TStack`, `TQueue`, hazard pointers | push, pop, enqueue, dequeue | pools, loggers, epoll | ABA and reclamation | taken as atomic by `DatabasePool` and `EpollServer` |
| Thread MPM server | thread counter, free list | `incomingConnection`, `stop` | action threads | limit of threads | its reading of requests is in `HttpFraming`, its WebSockets in `WebSocket`; limits not modelled |
| O/R mapper | a row and its `lockRevision` | `create`, `update`, `remove` | actions | lost updates | not modelled |
| URL routes, paginator | none | pure functions | controllers | boundaries | not modelled |
| Logging, mailers, views, validators, generators, KVS drivers | buffers, text | I/O and text | everything | little that TLC could reach | not modelled |

`PROJECT.json` repeats the list with the source files (`components`) and lists
every hazard with its line (`hazards`).

### Interactions

Contexts call pools; action contexts call the session store, which calls back
into the database context of the same thread; the epoll server hands requests to
workers and gets responses back through a queue and by re-arming epoll; the end
of a worker reaches the main thread as a queued signal; the manager sees its
servers only through signals and the events of `QProcess`. A connection that is
upgraded leaves the HTTP life of `EpollServer` and begins that of `WebSocket`;
the tasks of WebSocket workers write to other sockets, or go to `TPublisher`,
which hands a message to the subscribers of its own server and, through the bus
daemon, to the other servers.

## 2. Modules

| Module | Models | Extends or instantiates |
|---|---|---|
| `ConnectionPool` | what the pools promise: each connection has at most one owner | - |
| `DatabasePool` | `TSqlDatabasePool` and `TKvsDatabasePool` | `INSTANCE ConnectionPool WITH owner <- Owner` |
| `DatabasePool_proofs` | theorems about the pools | `DatabasePool` |
| `RequestContext` | `TDatabaseContext`, `TSqlTransaction`, `TActionContext::execute`, `TWebSocketWorker::execute` | uses the abstract pool as a set of free connections |
| `RequestContext_proofs` | theorem about transactions on pooled connections | `RequestContext` |
| `RequestTransactions_proofs` | theorems about the statements of a request | `RequestContext_proofs` |
| `ServerManager` | `managerMain`, `ServerManager`, `TWebApplication::exec`, the life of a tadpole | - |
| `ServerManager_proofs` | theorem about the fleet | `ServerManager` |
| `EpollServer` | `TMultiplexingServer`, `TEpoll`, `TEpollSocket`, `TEpollHttpSocket`, `TActionWorker` | - |
| `EpollServer_proofs` | theorems about sockets, workers and events | `EpollServer` |
| `HttpFraming` | `TEpollHttpSocket::seekRecvBuffer`, `THttpSocket::readRequest`, `THttpRequest::generate` | - |
| `MCFraming` | the headers of the clients for TLC | `HttpFraming` |
| `HttpFraming_proofs` | theorems about the requests of clients that wait and of clients that pipeline | `HttpFraming` |
| `WebSocket` | `TEpollWebSocket`, `TWebSocket`, `TAbstractWebSocket`'s flags, `TWebSocketWorker` and its tasks | - |
| `WebSocket_proofs` | theorems about the closing of a WebSocket | `WebSocket` |
| `WebSocketFrames` | `TAbstractWebSocket::parse`, `TWebSocketFrame`, `readAllBinaryRequest` | - |
| `MCWebSocketFrames` | the kinds of frames for TLC | `WebSocketFrames` |
| `SystemBus` | `TPublisher`, `TSystemBus`, `SystemBusDaemon` | - |
| `SystemBus_proofs` | theorems about the messages of the bus | `SystemBus` |
| `MCSystemBus` | which server has which WebSocket, and the data of the messages | `SystemBus` |

The abstractions meet at their seams. `DatabasePool` shows that the two stacks
implement exclusive ownership, and `RequestContext` relies on no more than that.
`HttpFraming` turns bytes into requests, and in `EpollServer` a request is a unit;
`WebSocketFrames` turns bytes into frames and messages, and in `WebSocket` a frame
is a unit. A WebSocket worker appears with its handlers and tasks in `WebSocket`,
with its transactions in `RequestContext` and with its subscriptions and messages
in `SystemBus`.

### DatabasePool

A connection name is the pair of numbers that `CONN_NAME_FORMAT` prints. The
stacks `cachedDatabase` and `availableNames` are sequences; a push or a pop is a
step, and so is everything between two of them, so `call[c]` says where in
`database()` or `pool()` a context is and which name it has in its hand
(`popCache`, `test`, `pushBack`, `popAvailable`, `open`, `restore`, `push`,
`stamp`), and `timer` the same of `timerEvent()`. The clock is abstracted to
`recent[id]`: whether `lastCachedTime` is younger than 30 seconds; `Idle` lets
those seconds pass. `Kind` selects the pool: the KVS pool rejects cached
connections that have dropped, and forgets a name whose `open()` failed.

### RequestContext

`held`, `begun` and `enabled` are `sqlDatabases`, the valid entries of
`TSqlTransaction::databases` and its flag. A statement is a quadruple (context,
request, database, what) that goes to `pending` while the database session is in
a transaction and to `durable` otherwise. `phase` follows `execute()`: session
lookup, action, end of transactions, session store, response, garbage collection,
release. Statements and connections fail where the code handles it, and `Crash` kills
the process. `Transactional` are the databases whose driver knows transactions
(`beginTransaction()` skips the others), and `Failures` what a database may refuse:
to begin (`TSqlTransaction::begin()` records the transaction all the same), to roll
back, and to commit, after which the session is out of the transaction ("aborts") or
still in it ("stays"). In every case the code drops its record, logs, and goes on.

Two histories follow what comes of that. `tainted` are the connections that a failed
`commit()` or `rollback()` has left in a transaction nobody has on record; they go
back to the pool so, and stay so until a later end of transaction on them succeeds.
`disturbed` are the requests, per database, that met such a failure themselves or
were given such a connection. The properties about durability except the disturbed
requests, and `PooledAreClean` the tainted connections; what they say is that no
other request and no other connection is harmed.

### ServerManager

The manager is one thread, so `start`, `exec`, `timerEvent`, `stopped` and the
slots `updateServerStatus` and `serverFinish` are atomic; the servers are not, and
a process is `forked`, `loaded` (SIGTERM kills it), `booting` (its handler stores
the signal), `serving` (its loop polls the signal) or `dead`. A replaced server
keeps its ID, every start counts `startCounter` up, and only IDs below
`maxServers` are passed on with `-i`.

### EpollServer

One action per branch of `run()`: dispatch the queue, wait, accept, send, look at
the worker limits, receive, sweep, next round. Where two atomics are read or
written one after the other (`countWorker()` and `pollIn`; `deleting` and the
counter, from both sides) there is a step between them. The kernel is `edge`: the
events that `epoll_wait()` will report, set by arrivals and by `EPOLL_CTL_MOD`.

`Receive` follows `seekRecvBuffer()` beyond plain requests: a complete request with
`Connection: upgrade` is dropped from the buffer with all that came with it, and asks
for a switch to WebSocket, for a disconnect when there is no such endpoint, or for
nothing when it names another protocol (`Upgrades`). A body above `LimitRequestBody`
throws `ClientErrorException(413)` in the polling thread, where nothing catches it:
`RequestTooLarge` ends the process. `missed` records that `pollIn` was stored after
the worker it was meant for had been released.

### HttpFraming

A byte is known by its request and its place in it, and `\r\n\r\n` counts as one
byte, so that a cut inside it is not represented. Each read takes any number of the
bytes that are there. `kind`, `pipelining` and `limit` are chosen at the start and
never change, so a single run covers both MPMs, both sorts of client, and servers with
and without `LimitRequestBody`.

A header says how long the body is and whether it asks for an upgrade (`Headers`). The
length may be more than the client sends, more than the limit, and more than an `int`
holds: `generate()` stores the `uint` of `contentLength()` in an `int`, takes no body
where that is negative, and continues at `headidx + contlen`. `IntMax` is the largest
`int`. Where the sum goes back, the loop finds bytes it has taken before, or never
ends; `ReadGoesBack` allows both, and the state `back` ends the model there, because
what the connection does from then on has no limit. `Executed` is what becomes of the
list that `generate()` returns: `TActionThread::run()` stops at a request with an
Upgrade header, `TActionWorker` executes it. `TooLarge` is the 413, which ends the
process in both MPMs (`state = "over"`); `Leave` is the switch or disconnect that
`seekRecvBuffer()` has queued.

### WebSocket

One socket, from the switch to the deletion of its object. `mpm` is chosen at the
start. The reading thread (`reader`) is the polling thread under epoll and the
main thread otherwise; the main thread's `releaseWorker()` is a step of its own
between the end of a worker and the deletion (`release`); under the thread MPM
the action thread has yet to start the opening worker (`opener`). `job[w]` is the
worker of each mode: where it is, the payloads it has been given and the tasks its
handlers have left, which it then carries out one by one. The atomics are read and
written one at a time; `sendClose()` in particular raises `closeSent` in one step
(`ExchangeCloseSent`, `CloseSocket`) and writes the frame in another
(`SendCloseFrame`, `CloseSocketWrites`), and `closer` says that another socket's worker
is between the two. `edge` is the edge-triggered event, as in `EpollServer`. The
histories count `onClose()` and Close frames; `overtaken` marks the object that the
main thread dooms while another thread has set `deleting` but not yet counted the
worker it is about to start.

### WebSocketFrames

The stream of a peer is a sequence of bytes, and `Receive` takes any number of
those that are there. A header is two bytes; longer ones differ only in that
`parse()` waits for more. Limits are scaled down: one byte instead of 125 for
control frames, and a length that stands for one not coded in the shortest form.
`parse` is a fold over the bytes; the code takes a payload in larger pieces and
ends in the same state wherever the stream is cut.

### SystemBus

Each server has its buffers, the daemon one `readSocket()` at a time, which blocks
in the middle of a message until more comes or 100 ms pass. Sockets are streams that
deliver any number of bytes. `publish()` sends to the bus first and to the local
subscribers afterwards, with other threads in between. A server may die at any
moment with any part of what it has written, as often as it is started, whoever is
subscribed; the manager starts it again.

A message is four bytes: the first byte with its flags and opcode, the length, the
target and the data. The data byte of the n-th message is written `255 + n`, so that
the messages can be told apart, and its value is `Content[255 + n]`, which may be any
byte. After a time-out the daemon reads on in the middle of a message, and a data byte
may then be taken for a first byte or a length: `Split` and `validate` look at the
value. `IsForTopic` is what `receiveSystemBus()` asks of a message before it publishes
it: a valid one, of an opcode for publishing, with a topic that exists.

## 3. Runs

Every passing run lists its properties in `PROJECT.json` with a deliberate fault
(the operators marked `Fault:` in the modules) that breaks the property, so that
it is known to depend on the code it speaks about.

| Run | Instance | Shows |
|---|---|---|
| `sql_pool` | 3 contexts, 1 database, 2 connections, fair | `NeverShared`, `NeverLost`, `AvailableAreClosed`; each `database()` call returns once no new ones arrive; idle connections get closed |
| `kvs_pool` | 2 contexts, 2 databases, 1 connection each | the pool implements `ConnectionPool`, though servers drop connections |
| `kvs_leak` | 2 contexts, 2 connections, fair | *violation*: failed opens use the KVS pool up (section 6) |
| `requests` | HTTP context and WebSocket worker, 1 connection that may fail to open, 2 units of work, begin, commit and rollback that fail in every way, crashes, fair | rollback undoes; an action is atomic per database; what was answered is durable, the removal of the replaced session included; stored sessions survive; all this for requests no failure has disturbed. The connection is handed over clean unless it is tainted, and always comes back |
| `stale_flag` | 1 context, 2 requests, controllers with and without transactions | *violation*: the flag of the previous request decides |
| `server_manager` | 3 servers, crashes, failed starts, SIGTERM, SIGHUP, fair | fleet bounded and complete, one scheduler, no orphan; start-up ends; crashed servers are replaced; `stop()` ends unless a server has forgotten its signal |
| `epoll_server` | 2 sockets, 1 worker slot, timeouts, upgrades of each kind, bodies above the limit | socket objects outlive their workers; no event on a deleted socket; no request forgotten when all workers are busy |
| `epoll_connection` | 1 socket, 2 requests, 2 slots, upgrades and limits as before, fair | one worker per socket; responses never miss their event; requests miss it only when `pollIn` comes after the last release, and then the sweep closes the connection; sockets given up are freed |
| `framing` | both MPMs, 3 requests with lengths of 0, 1, 3 or 30 (which is negative as an `int` here), file threshold 2, limits 0 and 4, Upgrade headers of both kinds | framing is exact for clients that wait, whatever the cuts, and each request the server is to execute is executed; no byte is executed twice for anybody unless `generate()` went back |
| `websocket` | both MPMs, 2 frames of the peer, hang-ups, closing by others, pings, fair | one `onClose()`, one Close frame; handshake before cut, but for a frame that another socket's worker has yet to write; opening before payload (hybrid); the object goes closed; the end is noticed |
| `ws_frames` | every valid stream of 4 frames out of 9 kinds, every cut | messages of one frame are exact in any company; everything is exact where no control frame meets a fragmented message |
| `system_bus` | 3 servers, 1 WebSocket and a scheduler, 2 messages, one with data that looks like a first byte, a crash and restart together with 2 (un)subscriptions, time-outs | the messages of a server arrive whole, in order and once elsewhere, whatever befalls others; once per subscriber; nothing stuck between servers that live |

### Bounds, and why they are enough

* Three contexts on two connections are the least in which somebody finds both
  stacks empty while two others use, return and time out connections. Two
  databases (in `kvs_pool`) are what the timer needs to go from one to the next.
* `MaxUnits = 2` requests of a context are the least in which one request inherits
  the state of another; two statements are what atomicity takes. `MaxTotal = 2`
  bounds the requests of all contexts together: two of one context, or one of each
  that compete for the connection. `MaxDisturbed = 1`: once a request is disturbed
  nothing else fails, which leaves a second request to meet the connection it has
  tainted.
* Three servers are the least for which a restart during start-up pushes an ID
  past `maxServers`; `MaxStarts = 4` allows such a restart or a crash of the
  complete fleet. `MaxStarts` only stops servers from exiting by themselves: no
  start is ever prevented.
* Two sockets with one slot compete for a worker; one socket with two requests and
  two slots meets the `pollIn` path, which needs a free slot and a busy socket.
* Lengths 0, 1 and 3 against a threshold of 2: no body, body in memory, body in a
  file; three requests let a wrong cut of the second hit the third. With
  `IntMax = 15` the length 30 is beyond it behind any other bytes, and beyond every
  buffer of the run. The limit 4 refuses it and, in the hybrid MPM, where the limit
  is held against header and body when they come apart, also the body of 3.
* Two frames let a Close frame arrive while the worker of an earlier frame runs;
  `MaxFrames` bounds the peer only, and the theorems on this module need no bound.
* Four frames are what it takes to put a control frame between two fragments and a
  message behind them. Three is the number of servers at which one can be garbled
  while two others still exchange messages. One crash (`MaxCrashes = 1`) may come
  before, between and after two calls of `subscribe()` and `unsubscribe()`, in the
  subscriber's server or another; the theorems need none of these bounds.
* Deadlock checking is off everywhere, because the systems may stop: contexts
  need not call, clients need not send, the process may have crashed or ended.

### Fairness

* `DatabasePool`: threads in `database()` and `release()` are scheduled, the timer
  fires and ends, and seconds pass. No fairness makes a context call. The loop of
  `database()` is not wait-free, which is why `DatabaseReturns` supposes that new
  calls stop.
* `RequestContext`: weak fairness of the steps by which a request comes to its end;
  actions terminate, as the application must see to.
* `ServerManager`: the manager and each server process are scheduled. Crashes,
  failures and signals are never forced.
* `EpollServer`: weak fairness of the polling thread, the main thread and each
  worker; clients read what they are sent; the sweep, which the code makes once a
  second, is not passed over for ever (strong, because whether it is enabled comes
  and goes with the rounds), and a response is not cut by `EAGAIN` for ever.
* `HttpFraming`: what has arrived is read.
* `WebSocket`: the reading thread, the main thread, the action thread that starts
  the opening worker, and each worker. Nothing is expected of the peer, of other
  sockets or of the keep-alive timer.
* `SystemBus` and `WebSocketFrames` have no liveness properties; `NothingStuck` says
  in the form of an invariant what has arrived when nothing is under way.

## 4. Proofs

All theorems hold for every value of the constants that satisfies the `ASSUME` of
the module and the hypotheses of the theorem, without the bounds of the runs.

**DatabasePool.** `PoolInvariant` (`TypeOK` and `NeverShared`) rests on the
inductive invariant `PoolInv`. `NeverShared` is not inductive by itself: it does
not say that names lie on the stacks of their own database (`Filed`), nor that a
thread has a name in its hand exactly at the places between a pop and the
following push, and that a context in `database()` holds nothing of that id
(`Hands`). `PoolAvailableAreClosed` adds that a name which was popped from an
available stack is still closed when it is opened; hence the branch that warns
"Gets a opend database" is dead code. `SqlPoolNeverLost` is proved for
`Kind = "sql"`; that hypothesis is needed, see `kvs_leak`. The refinement
`PoolImplementsConnectionPool` maps each step to an acquisition, a return or a
stutter of the owner function; `NeverShared` makes the `CHOOSE` in it unique.

**RequestContext.** `ConnectionsStayClean` (`PooledAreClean` and
`HeldExclusively`) is proved for databases that refuse to begin, commit or roll back
in every way the model knows, and has no hypothesis. The invariant `DbInv` says that
each open transaction is on record with the context that holds its connection, or
the connection is tainted (`TxOnRecord`), and each record belongs to a held
connection (`BegunIsHeld`); `UnitInv` holds the control state together. The tainted
connections are an exception of the property and not of the theorem:
`TSqlTransaction::commit()` drops its record whatever the result, and the code does
pool such a connection with its transaction.

`RequestTransactions_proofs` follows a statement from its execution on, and proves
`RollbacksUndo`, `ActionsAreAtomic`, `AnsweredAreDurable` and
`StoredSessionsAreDurable`, for any number of contexts, databases, connections and
requests. The four properties speak of what is durable and of the outcome, and none
of them is inductive, because between execution and commit a statement is neither.
`StatementInv` says where it is meanwhile: the uncommitted statements of a
connection belong to the context that holds it and, in an HTTP context, to its
present request, unless the connection is tainted (`PendingOwn`), and whoever holds
a tainted connection is disturbed (`TaintKnown`); whoever fetches a connection while
the flag is set has begun a transaction on it (`Flag`, `Early`, `BegunInTx`), and an
HTTP context between requests holds none (`Fresh`), so a statement of a context with
transactions only is still uncommitted as long as its transaction lasts
(`Collected`), and one of an action that is not rolled back is uncommitted or
durable, and durable once the session store begins (`Kept`). These hold of the
requests and databases that are not disturbed: with a transaction left open, the
statements of a failed commit belong to nobody. `Steady`, in the properties
themselves, restricts rollback and atomicity to contexts whose controllers all use
transactions; `stale_flag` shows why. `AnsweredIsDurable` does without it.

**EpollServer.** `EpollTypeCorrect`, `SocketsOutliveWorkers`, `OneWorkerAtATime`,
`EventsOfLiveSockets`, `NoRequestIsMissed` and `NoResponseIsMissed` are proved for
any number of sockets, workers and requests, from `EpollInv`. The epoll set is the
open sockets that are not given up (`Polled`), and an object that goes has been
given up (`Given`); what `epoll_wait()` has reported or will report belongs to that
set at every place of the round, also after a socket has been deleted in the middle
of it (`Round`, `Batched`, `Edges`); `myWorkerCounter` is 1 with exactly one worker,
and else 0 (`Counted`), although the main thread lowers it in one step and looks at
`deleting` in another; and an object that goes has none (`GoneAreIdle`). That no
response is missed needs the moment in which a worker has filled the send buffer
and not yet told epoll (`Leaving`). `NoRequestIsMissed` asks for a worker, or a
release under way, beside `pollIn`: a flag that nobody is going to look at does not
satisfy it. That state exists, and `missed` marks its only way in, the store to
`pollIn` after the last worker's release.

**HttpFraming.** `RequestsAreExact` proves `FramingExact` for bodies of every
length and every cut. For a client that waits the invariant `OneAtATime` says that
one request at most is under way: the server has the piece up to some byte `k`, in
the buffer or, from the blank line on, in the file, the wire has the rest, and
`lengthToRead` counts it once the blank line has come; a request that is announced
longer than it is sent never becomes complete, and one that is too large or an upgrade
leaves nothing behind. What `generate()` makes of
one whole request needs no induction: past the blank line no further header is
found, so its recursive function exists and ends after one step (`GenerateOne`).

`NothingIsExecutedTwice` (`NothingTwice`) is about every client, also one that
pipelines and whose requests are therefore cut short or joined. `FramingExact` is
false for it, but what is executed are still pieces of the stream, one behind the
other: `StreamOrder` says that all that was served comes before all that is
buffered, in the file or on the wire, and that each of these is in the order of the
stream. What `generate()` does with any number of requests is an induction over its
recursive function, and so are the order of a concatenation and the disjointness of
its parts. The `int` conversion is part of it: where a negative `contlen` leads
back, `generate()` says so, the state becomes `back`, and the theorem claims nothing
more, because the code does execute bytes again there. `FramingTypeCorrect` is the
other half of the same invariant (`InOrderInv`): `lengthToRead` never falls below
-1.

**SystemBus.** `SubscribersGetEachOnce`, `OthersAreUnharmed` and `NothingGetsStuck`
prove the three properties of the bus for any number of servers, WebSockets,
subscriptions, messages, crashes and time-outs, with subscriptions and crashes in
one behaviour, and for data of every value, from `BusInv`. They have no hypothesis.
None of the properties is inductive: they speak of what has been received, and
everything depends on the bytes that have not. `Stream(s)` is what the daemon has
not passed on of a server's bytes, in its hand, in the socket and in the server;
`Incoming(t)` what a server has not taken for messages. The argument has three
layers.

* Operators. `Split` of a concatenation continues `Split` of the first part, and
  `Accepted` and `Only` distribute over it, so that cutting a stream differently
  changes nothing (`SplitConcat` and its like); these are inductions over
  sequences.
* Bytes. Whatever was cut, a first byte that a server has written is followed by its
  message or the end, and a data byte by another message (`WellFormed`); the
  messages are numbered upwards (`Ascending`) and no two streams share a number
  (`Streams`). The daemon writes whole messages only, so every server reads from a
  first byte on (`Aligned`), and a number that is received is neither received
  already nor still to come (`Once`).
* Messages. As long as a server's bytes have not been given up (`Uncut`), what
  another server has of its messages, followed by what is on the way, is the end of
  what it has sent, and all of it for a server that has not died (`Passed`).
  `GotOnce` relates what a subscriber has been sent to what came over the bus and
  what was published here; it needs the one signal connection of `Subscribed`.

When the daemon has given up half a message it goes on reading in the middle of it,
and may take a data byte for a first byte or for a length. What it then passes on is
framed by itself, so the others stay aligned, but `validate()` may well accept it.
`ForTopicIsMessage` shows that `receiveSystemBus()` publishes nothing of it: behind a
data byte comes the first byte of the next message, and what stands in the place of
the target is not the topic. This is where one byte of data matters. Longer data
could hold the bytes of a whole message for the topic, and after a time-out in the
middle of it that message would be published; the model leaves this out (section 5).

**ServerManager.** `FleetInvariant` covers `TypeOK`, `FleetBounded`,
`OneScheduler`, `FleetComplete` and `NoOrphans`. The strengthening `FleetInv` adds
that all IDs are below `startCounter` (so the next is new), that server 0 is in
the map whenever the manager runs, how many servers there are in each state, that
a process outside the map does not exist, and what each place of `managerMain`
says about `managerState`. `ServersBounded`, `ServersComplete` and
`ServersNotOrphaned` state the parts by themselves.

**WebSocket.** `SocketClosesOnce`, `SocketHandshakeBeforeCut`,
`SocketOpensBeforePayload` and `SocketGoesClosed` rest on `SocketInv`. `CloseOnce`
counts calls, which no step can bound without knowing that the flags record them
(`FlagsRecord`) and that of those between the exchange of `closeSent` and the write
there is one at most, and none once the frame is written (`WritesOnce`); that the
cut comes after the handshake needs to know what `closing` means before the socket
is given up (`ClosingMeans`), and that only an opening worker that refuses has the
task `OpenError` (`TasksFit`); that the object goes alone needs the counter to be
the number of workers (`Counted`), which in turn needs each mode to run at most once
at a time (`OpensOnce`, `EndsOnce`).

**Induction.** `NothingIsExecutedTwice` and the theorems of `SystemBus` need induction
over numbers and sequences, and the library's induction theorems take an operator
that the provers cannot instantiate. The proofs therefore state what is to be shown
as membership in a set, and `StrongSetInduction`, `SetInduction` and `SeqInduction`
follow from the fact that a non-empty set of numbers has a least one (`WFMin` and
`NatLessThanWellFounded`). In the same way the recursive functions of the models are
shown to exist before their equations are used (`SplitFunction`, `OnlyFunction`).
`App` and `Cat` are names for `Append` and `\o` which keep the provers from
rewriting them.

**Only model-checked.** Liveness (`DatabaseReturns`, `IdleConnectionsClose`,
`ConnectionsComeBack`, `StartupCompletes`, `CrashedAreReplaced`, `StopEnds`,
`DeletedAreFreed`, `ReadOrTimedOut`, `AllServed`, `EndIsNoticed`) is outside of what
the prover handles. Of the safety invariants `UnfragmentedExact` and `UnmixedExact`
are left: they compare two folds over a stream of frames, the parser's and the
reference's, whose states after each byte would have to be related kind by kind, and
`WebSocketFrames` leaves the kinds of frames to its instance; for all values of that
constant they are not claimed. The invariants of the proofs (`PoolInv`, `DbInv`,
`StatementInv`, `FleetInv`, `EpollInv`, `OneAtATime`, `InOrderInv`, `SocketInv`,
`BusInv`, this one with `SubSeq` in place of the sequences it says exist) were
model-checked on the instances of the runs before they were first proved.

## 5. What is not modelled

Parsing of headers, cookies, parameters and JSON; static files and HTTP caching;
rendering of views, form and access validators; mail; the code generators; the
bundled MongoDB driver; the encoding of the KVS protocols; the O/R mapper, URL
routes and pagination; Windows. These are sequential text processing or I/O, and
no state of the parts above depends on their detail. The JavaScript in the
repository (React and its JSX transformer in `src/defaults`, Prototype in the
examples, the search index of the documentation) is third-party or generated; the
framework itself is C++, and the models cover that.

Left out of the modelled parts: `treefrog -k abort` and the PID files; the last ten
seconds of `TMultiplexingServer::stop()`; the opening handshake's headers and the
masking of WebSocket payloads; lengths of 2 GiB and more on the bus, for which the
sum of the message's length and its header wraps around; data on the bus that
contains a whole message for the topic; messages that are published before a
server's connection to the bus is first accepted (all are connected in `Init`);
bodies of 2 GiB and more that a client really sends; what a connection does after
`generate()` has gone back; the implicit commit by which MySQL ends an open
transaction at the next BEGIN, so that a tainted connection stays tainted longer in
the model than there; errors that `write()` returns on the sockets of the bus; the
limit and recycling of action threads; and the hazard-pointer algorithm under
`TStack` and `TQueue`, whose correctness rests on the C++ memory model. What a
thread does with an object that has been freed, and the unlocked read of the table
of publishers, are undefined behaviour without states to explore; the models say
where they can happen and go no further.

## 6. What the violations show

* `kvs_leak`: `TKvsDatabasePool::database()` does not push the name back when
  `open()` fails (line 215), as the SQL pool does. After `maxConnects` failures both
  stacks are empty for good, and the loop spins instead of reaching the `throw`
  behind it.
* `stale_flag`: the session store fetches the connection before
  `setTransactionEnabled()` (`tactioncontext.cpp:153`), so the previous request's
  flag decides whether a transaction begins; an exception then undoes nothing.

Some properties are narrower than one might expect because the code gives no
more; the comments at the properties and the notes of the hazards say so.

* *Contexts.* A rollback undoes the first payload of a WebSocket worker, but not the
  later ones, which run on the connection the first has left in the context; what
  a payload that threw leaves behind is committed by the next. The removal of a
  replaced session shares the fate of the action's transaction. A session whose
  store gets its connection only after the commit, because an earlier `open()`
  failed, is lost. A failed `commit()` or `rollback()` that leaves the transaction open
  is forgotten, and the connection is pooled with it; the next requests on it then run
  in that transaction. With several databases and fewer connections than contexts two
  contexts can wait for each other.
* *Manager.* `exec()` begins with `resetSignalNumber()`. A tadpole that gets its
  SIGTERM after installing the handler and before `exec()` forgets it, and the
  manager sits in `waitForFinished(-1)`; `StopEnds` excepts that state.
* *HTTP.* A request with `Connection: upgrade` that is not for a WebSocket is
  dropped without an answer, and so is, in the hybrid MPM, all that came with it; a
  body above `LimitRequestBody` ends the process; `AllServed` is stated for the
  other requests. A Content-Length of 2^31 or more behind another request leads
  `generate()` back, so `NothingTwice` excepts it. `lengthToRead` is computed for
  the first header of the buffer only, so a pipelined request is executed with what
  there is of its body; `FramingExact` is stated for clients that wait
  (`CHANGELOG.md:220` announces support of pipelining). With a keep-alive timeout of
  zero the hybrid server never closes an idle connection, so `ReadOrTimedOut` is
  stated for positive ones; there a wake-up missed between `countWorker()` and
  `pollIn`, the exception of `RequestsAreNoticed`, is repaired by the sweep.
* *WebSockets.* `deleteLater()` sets `deleting` before it counts the closing worker,
  and a worker released in between dooms the object (`overtaken`). No sweep repairs
  a `pollIn` set too late, so such a socket hangs until the next traffic or ping.
  `closeSent` is raised before the Close frame is written: when `closeSocket()` of
  another socket is between the two, the worker that handles the peer's Close frame may
  cut the connection first.
  Under the thread MPM a payload can be read before the opening worker starts. A
  control frame that arrives between fragments is put inside their message.
* *Bus.* The daemon's time-out makes it take the rest of a message for the start of
  the next, so the messages of that server are garbled until it reconnects. Two
  servers may see the messages of two others in different orders. A worker that
  subscribes after its socket has unsubscribed from everything leaves a pointer to
  a socket that is going.

## 7. Plan

1. An assumption on the kinds of frames under which `UnfragmentedExact` and
   `UnmixedExact` hold in general, and their proof with the set induction of the
   other modules.
2. The lock-free stack and queue with hazard pointers, refined to the atomic stacks
   that `DatabasePool` uses; the limits of the thread MPM; session stores with
   concurrent requests of one session.
