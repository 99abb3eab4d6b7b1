------------------------- MODULE EpollServer_proofs -------------------------
(***************************************************************************)
(* Proofs about the polling loop, for any number of connections, workers    *)
(* and requests.  Everything rests on four facts: the epoll set holds the   *)
(* sockets that are open and not given up, and these are live (Polled); a   *)
(* socket that goes has been given up (Given); the events of a round belong *)
(* to sockets of the set (Batched, Edges); and the counter of a socket is 1 *)
(* while it has its one worker, and else 0 (Counted).                       *)
(***************************************************************************)
EXTENDS EpollServer, FiniteSetTheorems, TLAPS

(* The type invariant, taken apart.                                         *)

SocketTyped ==
    /\ object \in [Sockets -> {"none", "live", "doomed", "freed"}]
    /\ sd \in [Sockets -> BOOLEAN] /\ deleting \in [Sockets -> BOOLEAN]
    /\ pollIn \in [Sockets -> BOOLEAN] /\ idle \in [Sockets -> BOOLEAN]
    /\ myWorkerCounter \in [Sockets -> Nat]
    /\ sendBuf \in [Sockets -> Nat]

KernelTyped ==
    /\ unread \in [Sockets -> Nat] /\ asked \in [Sockets -> Nat]
    /\ hup \in [Sockets -> BOOLEAN] /\ writable \in [Sockets -> BOOLEAN]
    /\ edge \in [Sockets -> SUBSET {"in", "out"}]

SendRequests == [method : {"disconnect", "switch"}, socket : Sockets]

EpollTyped ==
    /\ pollingSockets \in SUBSET Sockets
    /\ sendRequests \in Seq(SendRequests)
    /\ batch \in [Sockets -> SUBSET Events]
    /\ epoll \in [at : {"dispatch", "events", "pollIn", "delete", "sweep", "ended"},
                  socket : Sockets \cup {NoSocket},
                  back : {"dispatch", "events", "sweep"}]
    /\ stopped \in BOOLEAN

JobType == [socket : Sockets \cup {NoSocket}, left : Nat,
            doing : {"none", "run", "queued", "finished", "released"}]

JobTyped == job \in [Workers -> JobType] /\ release \in Sockets \cup {NoSocket}

MissedTyped == missed \in [Sockets -> BOOLEAN]

(* The invariant.                                                           *)

Polled ==
    \A s \in Sockets :
        /\ s \in pollingSockets <=> sd[s] /\ ~deleting[s]
        /\ s \in pollingSockets => object[s] = "live"

Given ==
    \A s \in Sockets :
        /\ object[s] = "none" => ~sd[s] /\ ~deleting[s]
        /\ object[s] \in {"doomed", "freed"} => deleting[s]

\* Where the polling thread is, and to where deleteLater() returns.
Round ==
    /\ epoll.at \in {"dispatch", "events", "sweep"} => epoll.back = epoll.at
    /\ epoll.at = "pollIn" => epoll.back = "events"
    /\ epoll.at = "ended" => epoll.back = "dispatch"
    /\ epoll.at \in {"pollIn", "delete"} => epoll.socket \in Sockets
    /\ epoll.at = "delete" => deleting[epoll.socket]

\* The events left, at each place of the round.
Batched ==
    \A s \in Sockets :
        /\ epoll.back = "dispatch" => batch[s] = {}
        /\ epoll.back = "events" => "idle" \notin batch[s]
        /\ epoll.back = "sweep" => batch[s] \subseteq {"idle"}
        /\ "in" \in batch[s] \/ "out" \in batch[s] => s \in pollingSockets
        /\ "idle" \in batch[s] => object[s] # "none"

Edges == epoll.at # "ended" => \A s \in Sockets : edge[s] # {} => s \in pollingSockets

Jobs ==
    \A w \in Workers :
        /\ job[w].doing # "none" => job[w].socket \in Sockets
        /\ job[w].doing = "queued" => job[w].left > 0

Alone(w, s) == Serves(w, s) /\ \A v \in Workers : Serves(v, s) => v = w

Counted ==
    \A s \in Sockets :
        \/ myWorkerCounter[s] = 0 /\ \A w \in Workers : ~Serves(w, s)
        \/ myWorkerCounter[s] = 1 /\ \E w \in Workers : Alone(w, s)

GoneAreIdle == \A s \in Sockets : object[s] \in {"doomed", "freed"} => myWorkerCounter[s] = 0

EpollInv ==
    /\ SocketTyped /\ KernelTyped /\ EpollTyped /\ JobTyped /\ MissedTyped
    /\ Polled /\ Given /\ Round /\ Batched /\ Edges /\ Jobs /\ Counted /\ GoneAreIdle

\* There is a worker whose release will look at pollIn, or a release about to.
Held(s) == release = s \/ \E w \in Workers : Serves(w, s)

\* The event that the polling thread let pass will be asked for again, or was lost to
\* the race of its look at the counter and its store.
Covered(s) == (pollIn[s] /\ Held(s)) \/ missed[s]

Noticed ==
    \A s \in Sockets :
        unread[s] > 0 /\ sd[s] /\ ~deleting[s] =>
            \/ "in" \in edge[s] \cup batch[s]
            \/ epoll.at = "pollIn" /\ epoll.socket = s
            \/ Covered(s)

\* A worker is about to tell epoll of the response it has queued.
Telling(s) == \E w \in Workers : job[w].socket = s /\ job[w].doing = "queued"

Leaving ==
    \A s \in Sockets :
        sendBuf[s] > 0 /\ sd[s] /\ ~deleting[s] =>
            "out" \in edge[s] \cup batch[s] \/ ~writable[s] \/ Telling(s)

-----------------------------------------------------------------------------
(* What the operators do.                                                   *)

\* EPOLL_CTL_MOD reports what is ready, of a socket of the set and of no other.
LEMMA ModifyPollFacts ==
    ASSUME KernelTyped, NEW s \in Sockets, modifyPoll(s)
    PROVE  /\ edge' \in [Sockets -> SUBSET {"in", "out"}]
           /\ \A t \in Sockets : t # s => edge'[t] = edge[t]
           /\ ~(s \in pollingSockets /\ sd[s]) => edge'[s] = edge[s]
           /\ s \in pollingSockets /\ sd[s] =>
                 /\ unread[s] > 0 => "in" \in edge'[s]
                 /\ writable[s] => "out" \in edge'[s]
<1>1. /\ Ready(s) \in SUBSET {"in", "out"}
      /\ unread[s] > 0 => "in" \in Ready(s)
      /\ writable[s] => "out" \in Ready(s)
  BY DEF Ready
<1> QED BY <1>1 DEF modifyPoll, KernelTyped

\* The kernel adds an event, of a socket of the set and of no other.
LEMMA ArrivesFacts ==
    ASSUME KernelTyped, NEW s \in Sockets, NEW event \in {"in", "out"}, Arrives(s, event)
    PROVE  /\ edge' \in [Sockets -> SUBSET {"in", "out"}]
           /\ \A t \in Sockets : edge[t] \subseteq edge'[t]
           /\ \A t \in Sockets : t # s => edge'[t] = edge[t]
           /\ ~(s \in pollingSockets /\ sd[s]) => edge'[s] = edge[s]
           /\ s \in pollingSockets /\ sd[s] => event \in edge'[s]
  BY DEF Arrives, KernelTyped

\* The polling thread drops a request of a socket that is closed, or deletes it.
LEMMA DispatchFacts ==
    ASSUME EpollTyped, DispatchSendData
    PROVE  /\ sendRequests' \in Seq(SendRequests)
           /\ epoll.at = "dispatch"
           /\ \/ UNCHANGED <<pollingSockets, edge, sd, deleting, epoll>>
              \/ \E s \in Sockets, closing \in BOOLEAN : sd[s] /\ Delete(s, closing, "dispatch")
           /\ UNCHANGED <<object, pollIn, myWorkerCounter, sendBuf, idle, unread, hup, writable,
                          asked, batch, stopped, job, release>>
<1> DEFINE r == Head(sendRequests)
<1>1. r \in SendRequests /\ sendRequests' \in Seq(SendRequests)
  BY DEF DispatchSendData, EpollTyped
<1>2. r.socket \in Sockets /\ (r.method = "disconnect") \in BOOLEAN
  BY <1>1 DEF SendRequests
<1>3. \/ UNCHANGED <<pollingSockets, edge, sd, deleting, epoll>>
      \/ sd[r.socket] /\ Delete(r.socket, r.method = "disconnect", "dispatch")
  BY DEF DispatchSendData
<1>4. /\ epoll.at = "dispatch"
      /\ UNCHANGED <<object, pollIn, myWorkerCounter, sendBuf, idle, unread, hup, writable,
                     asked, batch, stopped, job, release>>
  BY DEF DispatchSendData, mainVars
<1> HIDE DEF r
<1> QED BY <1>1, <1>2, <1>3, <1>4

\* What recv() queues are requests about this socket.
LEMMA UpgradedFacts ==
    ASSUME EpollTyped, NEW s \in Sockets, NEW rest, Upgraded(s, rest)
    PROVE  sendRequests' \in Seq(SendRequests)
<1>1. CASE sendRequests' = sendRequests
  BY <1>1 DEF EpollTyped
<1>2. ASSUME NEW n \in Nat, NEW us \in [1 .. n -> Upgrades \ {"ignore"}],
             sendRequests' = sendRequests \o [i \in 1 .. Len(us) |->
                                                 [method |-> us[i], socket |-> s]]
      PROVE  sendRequests' \in Seq(SendRequests)
  <2>1. us \in Seq(Upgrades \ {"ignore"}) /\ Len(us) = n
    BY <1>2
  <2>2. \A i \in 1 .. n : [method |-> us[i], socket |-> s] \in SendRequests
    BY <1>2, EpollAssumptions DEF SendRequests
  <2>3. [i \in 1 .. Len(us) |-> [method |-> us[i], socket |-> s]] \in Seq(SendRequests)
    BY <2>1, <2>2
  <2> QED BY <1>2, <2>3 DEF EpollTyped
<1>3. PICK us \in UNION {[1 .. n -> Upgrades \ {"ignore"}] : n \in 0 .. unread[s] - rest} :
         sendRequests' = IF deleting[s] THEN sendRequests
                         ELSE sendRequests \o [i \in 1 .. Len(us) |->
                                                  [method |-> us[i], socket |-> s]]
  BY Zenon DEF Upgraded
<1>4. PICK n \in 0 .. unread[s] - rest : us \in [1 .. n -> Upgrades \ {"ignore"}]
  BY <1>3
<1>5. n \in Nat
  BY <1>4
<1> QED BY <1>1, <1>2, <1>3, <1>4, <1>5

\* A step of a worker stays with its socket and its request.
LEMMA WorkerFacts ==
    ASSUME JobTyped, Jobs, NEW w \in Workers, WorkerStep(w)
    PROVE  /\ job' \in [Workers -> JobType]
           /\ \A v \in Workers : v # w => job'[v] = job[v]
           /\ job'[w].socket = job[w].socket /\ job[w].socket \in Sockets
           /\ job[w].doing \in {"run", "queued"}
           /\ job'[w].doing \in {"run", "queued", "finished"}
           /\ job'[w].doing = "queued" => job'[w].left > 0
           /\ UNCHANGED <<myWorkerCounter, release>>
<1>1. ASSUME NEW d \in {"run", "queued", "finished"}, NEW n \in Nat,
             job' = [job EXCEPT ![w] = [@ EXCEPT !.doing = d, !.left = n]],
             d = "queued" => n > 0, job[w].doing \in {"run", "queued"},
             UNCHANGED <<myWorkerCounter, release>>
      PROVE  /\ job' \in [Workers -> JobType]
             /\ \A v \in Workers : v # w => job'[v] = job[v]
             /\ job'[w].socket = job[w].socket /\ job[w].socket \in Sockets
             /\ job[w].doing \in {"run", "queued"}
             /\ job'[w].doing \in {"run", "queued", "finished"}
             /\ job'[w].doing = "queued" => job'[w].left > 0
             /\ UNCHANGED <<myWorkerCounter, release>>
  <2>1. job[w] \in JobType /\ job[w].socket \in Sockets
    BY <1>1 DEF JobTyped, Jobs
  <2>2. [job[w] EXCEPT !.doing = d, !.left = n] \in JobType
    BY <2>1, <1>1 DEF JobType
  <2>3. /\ [job[w] EXCEPT !.doing = d, !.left = n].doing = d
        /\ [job[w] EXCEPT !.doing = d, !.left = n].left = n
        /\ [job[w] EXCEPT !.doing = d, !.left = n].socket = job[w].socket
    BY <2>1, <1>1 DEF JobType
  <2> QED BY <1>1, <2>1, <2>2, <2>3 DEF JobTyped
<1> DEFINE n == job[w].left
<1>2. /\ job[w] \in JobType /\ n \in Nat /\ (n > 0 => n - 1 \in Nat)
      /\ job[w].doing = "queued" => n > 0
  BY DEF JobTyped, JobType, Jobs
<1>3. CASE EnqueueResponse(w)
  <2>1. job' = [job EXCEPT ![w] = [@ EXCEPT !.doing = "queued", !.left = n]]
    BY <1>2, <1>3 DEF EnqueueResponse, JobTyped, JobType
  <2>2. n > 0 /\ job[w].doing = "run" /\ UNCHANGED <<myWorkerCounter, release>>
    BY <1>3 DEF EnqueueResponse
  <2> QED BY <1>1, <1>2, <2>1, <2>2
<1>4. CASE RearmPoll(w)
  <2>1. job' = [job EXCEPT ![w] = [@ EXCEPT !.doing = "run", !.left = n - 1]]
    BY <1>2, <1>4 DEF RearmPoll, JobTyped, JobType
  <2>2. job[w].doing = "queued" /\ UNCHANGED <<myWorkerCounter, release>>
    BY <1>4 DEF RearmPoll, socketVars
  <2> QED BY <1>1, <1>2, <2>1, <2>2
<1>5. CASE DropResponse(w) \/ CloseHttpSocket(w)
  <2>1. /\ job' = [job EXCEPT ![w] = [@ EXCEPT !.left = n - 1]]
        /\ n > 0 /\ job[w].doing = "run" /\ UNCHANGED <<myWorkerCounter, release>>
    BY <1>5 DEF DropResponse, CloseHttpSocket, socketVars
  <2>2. [job[w] EXCEPT !.left = n - 1] = [job[w] EXCEPT !.doing = "run", !.left = n - 1]
    BY <1>2, <2>1 DEF JobType
  <2> QED BY <1>1, <1>2, <2>1, <2>2
<1>6. CASE Finish(w)
  <2>1. job' = [job EXCEPT ![w] = [@ EXCEPT !.doing = "finished", !.left = n]]
    BY <1>2, <1>6 DEF Finish, JobTyped, JobType
  <2>2. job[w].doing = "run" /\ UNCHANGED <<myWorkerCounter, release>>
    BY <1>6 DEF Finish, socketVars
  <2> QED BY <1>1, <1>2, <2>1, <2>2
<1> QED BY <1>3, <1>4, <1>5, <1>6 DEF WorkerStep

-----------------------------------------------------------------------------
(* Every step keeps the types ...                                            *)

\* Every step keeps the types: the socket objects ...
LEMMA NextSocketTyped ==
    ASSUME SocketTyped, EpollTyped, JobTyped, Jobs, Round, Counted, [Next]_vars
    PROVE  SocketTyped'
<1> USE EpollAssumptions
<1>0. ASSUME NEW s \in Sockets, RequestTooLarge(s) PROVE SocketTyped'
  BY <1>0 DEF RequestTooLarge, SocketTyped
<1>1. CASE DispatchSendData
  <2>1. CASE UNCHANGED <<pollingSockets, edge, sd, deleting, epoll>>
    BY <1>1, <2>1, DispatchFacts DEF SocketTyped
  <2>2. ASSUME NEW s \in Sockets, NEW closing \in BOOLEAN, sd[s], Delete(s, closing, "dispatch")
        PROVE  SocketTyped'
    BY <1>1, <2>2, DispatchFacts DEF Delete, At, SocketTyped
  <2> QED BY <1>1, <2>1, <2>2, DispatchFacts
<1>2. CASE SetPollIn
  BY <1>2 DEF SetPollIn, SocketTyped, Round
<1>3. CASE DeleteLater
  BY <1>3 DEF DeleteLater, SocketTyped, Round, kernelVars, mainVars
<1>4. CASE LastRound
  BY <1>4 DEF LastRound, SocketTyped, At, kernelVars, mainVars
<1>5. CASE ReleaseSocket
  BY <1>5 DEF ReleaseSocket, SocketTyped, JobTyped
<1>6. ASSUME NEW s \in Sockets, SendAll(s) PROVE SocketTyped'
  BY <1>6 DEF SendAll, SocketTyped, kernelVars, mainVars
<1>7. ASSUME NEW s \in Sockets, SendSome(s) PROVE SocketTyped'
  BY <1>7 DEF SendSome, SocketTyped, mainVars
<1>8. ASSUME NEW s \in Sockets, SendFails(s) PROVE SocketTyped'
  BY <1>8 DEF SendFails, Delete, SocketTyped, At, mainVars
<1>9. ASSUME NEW s \in Sockets, Receive(s) PROVE SocketTyped'
  <2>1. \/ myWorkerCounter' = myWorkerCounter
        \/ myWorkerCounter' = [myWorkerCounter EXCEPT ![s] = myWorkerCounter[s] + 1]
    BY <1>9 DEF Receive
  <2>2. myWorkerCounter' \in [Sockets -> Nat]
    BY <2>1 DEF SocketTyped
  <2> QED BY <1>9, <2>2 DEF Receive, SocketTyped
<1>10. ASSUME NEW s \in Sockets, ReceiveFails(s) PROVE SocketTyped'
  BY <1>10 DEF ReceiveFails, Delete, MayReceive, SocketTyped, At, mainVars
<1>11. ASSUME NEW s \in Sockets, Timeout(s) PROVE SocketTyped'
  BY <1>11 DEF Timeout, Delete, SocketTyped, At, mainVars
<1>12. ASSUME NEW s \in Sockets, FreeSocket(s) PROVE SocketTyped'
  BY <1>12 DEF FreeSocket, SocketTyped, kernelVars, epollVars, mainVars
<1>13. ASSUME NEW s \in Sockets, Accept(s) PROVE SocketTyped'
  BY <1>13 DEF Accept, Ready, SocketTyped, mainVars
<1>14. ASSUME NEW s \in Sockets, TimePasses(s) PROVE SocketTyped'
  BY <1>14 DEF TimePasses, SocketTyped, kernelVars, epollVars, mainVars
<1>15. ASSUME NEW w \in Workers, EnqueueResponse(w) PROVE SocketTyped'
  <2>1. job[w].socket \in Sockets
    BY <1>15 DEF EnqueueResponse, Jobs
  <2> QED BY <1>15, <2>1 DEF EnqueueResponse, SocketTyped
<1>16. ASSUME NEW w \in Workers, ReleaseWorker(w) PROVE SocketTyped'
  <2>1. job[w].socket \in Sockets /\ Serves(w, job[w].socket)
    BY <1>16 DEF ReleaseWorker, Jobs, Serves
  <2>2. myWorkerCounter[job[w].socket] - 1 \in Nat
    BY <2>1 DEF Counted
  <2> QED BY <1>16, <2>1, <2>2 DEF ReleaseWorker, SocketTyped
<1>17. CASE UNCHANGED <<object, sd, deleting, pollIn, myWorkerCounter, sendBuf, idle>>
  BY <1>17 DEF SocketTyped
<1> QED
  BY <1>0, <1>1, <1>2, <1>3, <1>4, <1>5, <1>6, <1>7, <1>8, <1>9, <1>10, <1>11, <1>12, <1>13, <1>14,
     <1>15, <1>16, <1>17 DEF Next, PollStep, MainStep, WorkerStep, vars, socketVars,
     kernelVars, epollVars, mainVars, Wait, EventsDone, Sweep, NextRound, Stop,
     AllWorkersBusy, HasWorker, ClientSends, ClientCloses, ClientReads, RearmPoll,
     DropResponse, CloseHttpSocket, Finish, FreeWorker

\* ... the kernel ...
LEMMA NextKernelTyped ==
    ASSUME SocketTyped, KernelTyped, EpollTyped, JobTyped, Jobs, [Next]_vars
    PROVE  KernelTyped'
<1> USE EpollAssumptions
<1>0. ASSUME NEW s \in Sockets, RequestTooLarge(s) PROVE KernelTyped'
  BY <1>0 DEF RequestTooLarge, KernelTyped
<1>1. CASE DispatchSendData
  <2>1. CASE UNCHANGED <<pollingSockets, edge, sd, deleting, epoll>>
    BY <1>1, <2>1, DispatchFacts DEF KernelTyped
  <2>2. ASSUME NEW s \in Sockets, NEW closing \in BOOLEAN, sd[s], Delete(s, closing, "dispatch")
        PROVE  KernelTyped'
    BY <1>1, <2>2, DispatchFacts DEF Delete, At, KernelTyped
  <2> QED BY <1>1, <2>1, <2>2, DispatchFacts
<1>2. CASE Wait
  BY <1>2 DEF Wait, KernelTyped, At, socketVars, mainVars
<1>3. CASE ReleaseSocket
  <2>1. release \in Sockets
    BY <1>3 DEF ReleaseSocket, JobTyped
  <2>2. edge' = edge \/ modifyPoll(release)
    BY <1>3 DEF ReleaseSocket
  <2>3. edge' \in [Sockets -> SUBSET {"in", "out"}]
    BY <2>1, <2>2, ModifyPollFacts DEF KernelTyped
  <2> QED BY <1>3, <2>3 DEF ReleaseSocket, KernelTyped
<1>4. ASSUME NEW s \in Sockets, SendSome(s) PROVE KernelTyped'
  BY <1>4 DEF SendSome, KernelTyped, mainVars
<1>5. ASSUME NEW s \in Sockets, SendFails(s) PROVE KernelTyped'
  BY <1>5 DEF SendFails, Delete, KernelTyped, At, mainVars
<1>6. ASSUME NEW s \in Sockets, AllWorkersBusy(s) PROVE KernelTyped'
  BY <1>6, ModifyPollFacts DEF AllWorkersBusy, KernelTyped
<1>7. ASSUME NEW s \in Sockets, Receive(s) PROVE KernelTyped'
  BY <1>7 DEF Receive, MayReceive, KernelTyped
<1>8. ASSUME NEW s \in Sockets, ReceiveFails(s) PROVE KernelTyped'
  BY <1>8 DEF ReceiveFails, Delete, MayReceive, KernelTyped, At, mainVars
<1>9. ASSUME NEW s \in Sockets, Timeout(s) PROVE KernelTyped'
  BY <1>9 DEF Timeout, Delete, KernelTyped, At, mainVars
<1>10. ASSUME NEW s \in Sockets, Accept(s) PROVE KernelTyped'
  BY <1>10 DEF Accept, Ready, KernelTyped, mainVars
<1>11. ASSUME NEW s \in Sockets, ClientSends(s) PROVE KernelTyped'
  <2>1. edge' \in [Sockets -> SUBSET {"in", "out"}]
    BY <1>11, ArrivesFacts DEF ClientSends
  <2>2. unread' \in [Sockets -> Nat] /\ asked' \in [Sockets -> Nat]
    BY <1>11 DEF ClientSends, KernelTyped
  <2> QED BY <1>11, <2>1, <2>2 DEF ClientSends, KernelTyped
<1>12. ASSUME NEW s \in Sockets, ClientCloses(s) PROVE KernelTyped'
  <2>1. edge' \in [Sockets -> SUBSET {"in", "out"}]
    BY <1>12, ArrivesFacts DEF ClientCloses
  <2> QED BY <1>12, <2>1 DEF ClientCloses, KernelTyped
<1>13. ASSUME NEW s \in Sockets, ClientReads(s) PROVE KernelTyped'
  <2>1. edge' \in [Sockets -> SUBSET {"in", "out"}]
    BY <1>13, ArrivesFacts DEF ClientReads
  <2> QED BY <1>13, <2>1 DEF ClientReads, KernelTyped
<1>14. ASSUME NEW w \in Workers, RearmPoll(w) PROVE KernelTyped'
  <2>1. job[w].socket \in Sockets
    BY <1>14 DEF RearmPoll, Jobs
  <2> QED BY <1>14, <2>1, ModifyPollFacts DEF RearmPoll, KernelTyped
<1>15. CASE UNCHANGED <<unread, hup, writable, edge, asked>>
  BY <1>15 DEF KernelTyped
<1> QED
  BY <1>0, <1>1, <1>2, <1>3, <1>4, <1>5, <1>6, <1>7, <1>8, <1>9, <1>10, <1>11, <1>12, <1>13, <1>14,
     <1>15 DEF Next, PollStep, MainStep, WorkerStep, vars, socketVars, kernelVars, epollVars,
     mainVars, SetPollIn, DeleteLater, EventsDone, Sweep, NextRound, LastRound, Stop, SendAll,
     HasWorker, FreeSocket, TimePasses, EnqueueResponse, DropResponse, CloseHttpSocket,
     Finish, ReleaseWorker, FreeWorker

\* ... the polling thread ...
LEMMA NextEpollTyped ==
    ASSUME SocketTyped, KernelTyped, EpollTyped, JobTyped, Jobs, Round, [Next]_vars
    PROVE  EpollTyped'
<1> USE EpollAssumptions
<1>0. ASSUME NEW s \in Sockets, RequestTooLarge(s) PROVE EpollTyped'
  BY <1>0 DEF RequestTooLarge, EpollTyped, At, Events
<1>1. CASE DispatchSendData
  <2>1. CASE UNCHANGED <<pollingSockets, edge, sd, deleting, epoll>>
    BY <1>1, <2>1, DispatchFacts DEF EpollTyped
  <2>2. ASSUME NEW s \in Sockets, NEW closing \in BOOLEAN, sd[s], Delete(s, closing, "dispatch")
        PROVE  EpollTyped'
    BY <1>1, <2>2, DispatchFacts DEF Delete, At, EpollTyped
  <2> QED BY <1>1, <2>1, <2>2, DispatchFacts
<1>2. CASE Wait
  BY <1>2 DEF Wait, EpollTyped, KernelTyped, Events, At
<1>3. CASE SetPollIn
  BY <1>3 DEF SetPollIn, EpollTyped, Events, At, kernelVars, mainVars
<1>4. CASE DeleteLater
  BY <1>4 DEF DeleteLater, EpollTyped, Events, At
<1>5. CASE EventsDone
  BY <1>5 DEF EventsDone, EpollTyped, Events, At, socketVars, kernelVars, mainVars
<1>6. CASE Sweep
  BY <1>6 DEF Sweep, EpollTyped, Events, At, socketVars, kernelVars, mainVars
<1>7. CASE NextRound
  BY <1>7 DEF NextRound, EpollTyped, Events, At, socketVars, kernelVars, mainVars
<1>8. CASE LastRound
  BY <1>8 DEF LastRound, EpollTyped, Events, At, kernelVars, mainVars
<1>9. CASE Stop
  BY <1>9 DEF Stop, EpollTyped, Events, socketVars, kernelVars, mainVars
<1>10. ASSUME NEW s \in Sockets, SendAll(s) PROVE EpollTyped'
  BY <1>10 DEF SendAll, EpollTyped, Events, kernelVars, mainVars
<1>11. ASSUME NEW s \in Sockets, SendSome(s) PROVE EpollTyped'
  BY <1>11 DEF SendSome, EpollTyped, Events, mainVars
<1>12. ASSUME NEW s \in Sockets, SendFails(s) PROVE EpollTyped'
  BY <1>12 DEF SendFails, Delete, EpollTyped, Events, At, mainVars
<1>13. ASSUME NEW s \in Sockets, AllWorkersBusy(s) PROVE EpollTyped'
  BY <1>13 DEF AllWorkersBusy, modifyPoll, Ready, EpollTyped, Events, socketVars, mainVars
<1>14. ASSUME NEW s \in Sockets, HasWorker(s) PROVE EpollTyped'
  BY <1>14 DEF HasWorker, EpollTyped, Events, At, socketVars, kernelVars, mainVars
<1>15. ASSUME NEW s \in Sockets, Receive(s) PROVE EpollTyped'
  <2>1. sendRequests' \in Seq(SendRequests)
    BY <1>15, UpgradedFacts DEF Receive
  <2> QED BY <1>15, <2>1 DEF Receive, EpollTyped, Events
<1>16. ASSUME NEW s \in Sockets, ReceiveFails(s) PROVE EpollTyped'
  <2>1. sendRequests' \in Seq(SendRequests)
    BY <1>16, UpgradedFacts DEF ReceiveFails
  <2> QED BY <1>16, <2>1 DEF ReceiveFails, Delete, EpollTyped, Events, At, mainVars
<1>17. ASSUME NEW s \in Sockets, Timeout(s) PROVE EpollTyped'
  BY <1>17 DEF Timeout, Delete, EpollTyped, Events, At, mainVars
<1>18. ASSUME NEW s \in Sockets, Accept(s) PROVE EpollTyped'
  BY <1>18 DEF Accept, Ready, EpollTyped, Events, mainVars
<1>19. ASSUME NEW w \in Workers, CloseHttpSocket(w) PROVE EpollTyped'
  <2>1. [method |-> "disconnect", socket |-> job[w].socket] \in SendRequests
    BY <1>19 DEF CloseHttpSocket, Jobs, SendRequests
  <2> QED BY <1>19, <2>1 DEF CloseHttpSocket, EpollTyped
<1>20. CASE UNCHANGED <<pollingSockets, sendRequests, batch, epoll, stopped>>
  BY <1>20 DEF EpollTyped, Events
<1> QED
  BY <1>0, <1>1, <1>2, <1>3, <1>4, <1>5, <1>6, <1>7, <1>8, <1>9, <1>10, <1>11, <1>12, <1>13, <1>14,
     <1>15, <1>16, <1>17, <1>18, <1>19, <1>20 DEF Next, PollStep, MainStep, WorkerStep, vars,
     socketVars, kernelVars, epollVars, mainVars, ReleaseSocket, FreeSocket, ClientSends,
     ClientCloses, ClientReads, TimePasses, EnqueueResponse, RearmPoll, DropResponse, Finish,
     ReleaseWorker, FreeWorker

\* ... and the jobs of the workers.
LEMMA NextJobs ==
    ASSUME SocketTyped, KernelTyped, EpollTyped, JobTyped, Jobs, [Next]_vars
    PROVE  (JobTyped /\ Jobs)'
<1> USE EpollAssumptions
<1>0. ASSUME NEW s \in Sockets, RequestTooLarge(s) PROVE (JobTyped /\ Jobs)'
  <2>1. NoJob \in JobType /\ NoJob.doing = "none"
    BY DEF NoJob, JobType
  <2> QED BY <1>0, <2>1 DEF RequestTooLarge, JobTyped, Jobs
<1>1. CASE ReleaseSocket
  BY <1>1 DEF ReleaseSocket, modifyPoll, Ready, JobTyped, Jobs, epollVars
<1>2. ASSUME NEW s \in Sockets, Receive(s) PROVE (JobTyped /\ Jobs)'
  <2>1. CASE UNCHANGED job
    BY <1>2, <2>1 DEF Receive, JobTyped, Jobs
  <2>2. ASSUME NEW w \in Workers, NEW rest \in 0 .. unread[s],
               job' = [job EXCEPT ![w] = [socket |-> s, doing |-> "run", left |-> rest]]
        PROVE  (JobTyped /\ Jobs)'
    <3>1. [socket |-> s, doing |-> "run", left |-> rest] \in JobType
      BY DEF JobType, KernelTyped
    <3> QED BY <1>2, <2>2, <3>1 DEF Receive, JobTyped, Jobs
  <2> QED BY <1>2, <2>1, <2>2 DEF Receive
<1>3. ASSUME NEW w \in Workers, WorkerStep(w) PROVE (JobTyped /\ Jobs)'
  BY <1>3, WorkerFacts DEF JobTyped, Jobs
<1>4. ASSUME NEW w \in Workers, ReleaseWorker(w) PROVE (JobTyped /\ Jobs)'
  <2>1. /\ job[w] \in JobType /\ job[w].socket \in Sockets
        /\ job' = [job EXCEPT ![w] = [@ EXCEPT !.doing = "released"]]
        /\ release' = job[w].socket
    BY <1>4 DEF ReleaseWorker, JobTyped, Jobs
  <2>2. /\ [job[w] EXCEPT !.doing = "released"] \in JobType
        /\ [job[w] EXCEPT !.doing = "released"].socket = job[w].socket
        /\ [job[w] EXCEPT !.doing = "released"].doing = "released"
    BY <2>1 DEF JobType
  <2> QED BY <2>1, <2>2 DEF JobTyped, Jobs
<1>5. ASSUME NEW w \in Workers, FreeWorker(w) PROVE (JobTyped /\ Jobs)'
  <2>1. NoJob \in JobType /\ NoJob.doing = "none"
    BY DEF NoJob, JobType
  <2> QED BY <1>5, <2>1 DEF FreeWorker, JobTyped, Jobs
<1>6. CASE UNCHANGED <<job, release>>
  BY <1>6 DEF JobTyped, Jobs
<1> QED
  BY <1>0, <1>1, <1>2, <1>3, <1>4, <1>5, <1>6 DEF Next, PollStep, MainStep, vars, socketVars,
     kernelVars, epollVars, mainVars, DispatchSendData, Wait, SetPollIn, DeleteLater,
     EventsDone, Sweep, NextRound, LastRound, Stop, SendAll, SendSome, SendFails,
     AllWorkersBusy, HasWorker, ReceiveFails, Timeout, FreeSocket, Accept, ClientSends,
     ClientCloses, ClientReads, TimePasses

-----------------------------------------------------------------------------
(* The polling thread.                                                      *)

\* The epoll set keeps holding the sockets that are open and not given up.
LEMMA NextPolled ==
    ASSUME SocketTyped, EpollTyped, JobTyped, Polled, Given, Round, [Next]_vars
    PROVE  Polled'
<1> USE EpollAssumptions
<1>0. ASSUME NEW s \in Sockets, RequestTooLarge(s) PROVE Polled'
  BY <1>0 DEF RequestTooLarge, Polled
<1>1. CASE DispatchSendData
  <2>1. CASE UNCHANGED <<pollingSockets, edge, sd, deleting, epoll>>
    BY <1>1, <2>1, DispatchFacts DEF SocketTyped, EpollTyped, Polled
  <2>2. ASSUME NEW s \in Sockets, NEW closing \in BOOLEAN, sd[s], Delete(s, closing, "dispatch")
        PROVE  Polled'
    <3>1. object' = object
      BY <1>1, DispatchFacts
    <3> QED BY <2>2, <3>1 DEF Delete, SocketTyped, Polled
  <2> QED BY <1>1, <2>1, <2>2, DispatchFacts
<1>2. CASE DeleteLater
  BY <1>2 DEF DeleteLater, SocketTyped, Polled, Round
<1>3. CASE LastRound
  BY <1>3 DEF LastRound, SocketTyped, EpollTyped, Polled, At, kernelVars, mainVars
<1>4. CASE ReleaseSocket
  BY <1>4 DEF ReleaseSocket, SocketTyped, JobTyped, Polled, epollVars
<1>5. ASSUME NEW s \in Sockets, SendFails(s) PROVE Polled'
  BY <1>5 DEF SendFails, Delete, SocketTyped, EpollTyped, Polled, At, mainVars
<1>6. ASSUME NEW s \in Sockets, ReceiveFails(s) PROVE Polled'
  BY <1>6 DEF ReceiveFails, Delete, MayReceive, SocketTyped, EpollTyped, Polled, At, mainVars
<1>7. ASSUME NEW s \in Sockets, Timeout(s) PROVE Polled'
  BY <1>7 DEF Timeout, Delete, SocketTyped, EpollTyped, Polled, At, mainVars
<1>8. ASSUME NEW s \in Sockets, FreeSocket(s) PROVE Polled'
  BY <1>8 DEF FreeSocket, SocketTyped, Polled, Given, epollVars
<1>9. ASSUME NEW s \in Sockets, Accept(s) PROVE Polled'
  BY <1>9 DEF Accept, SocketTyped, EpollTyped, Polled, Given
<1>10. CASE UNCHANGED <<pollingSockets, sd, deleting, object>>
  BY <1>10 DEF SocketTyped, EpollTyped, Polled
<1> QED
  BY <1>0, <1>1, <1>2, <1>3, <1>4, <1>5, <1>6, <1>7, <1>8, <1>9, <1>10 DEF Next, PollStep, MainStep,
     WorkerStep, vars, socketVars, kernelVars, epollVars, mainVars, Wait, SetPollIn,
     EventsDone, Sweep, NextRound, Stop, SendAll, SendSome, AllWorkersBusy, HasWorker,
     Receive, ClientSends, ClientCloses, ClientReads, TimePasses, EnqueueResponse, RearmPoll,
     DropResponse, CloseHttpSocket, Finish, ReleaseWorker, FreeWorker

\* A socket object goes only after it has been given up.
LEMMA NextGiven ==
    ASSUME SocketTyped, EpollTyped, JobTyped, Polled, Given, Round, Batched, [Next]_vars
    PROVE  Given'
<1> USE EpollAssumptions
<1>0. ASSUME NEW s \in Sockets, RequestTooLarge(s) PROVE Given'
  BY <1>0 DEF RequestTooLarge, Given, SocketTyped
<1>1. CASE DispatchSendData
  <2>1. CASE UNCHANGED <<pollingSockets, edge, sd, deleting, epoll>>
    BY <1>1, <2>1, DispatchFacts DEF Given
  <2>2. ASSUME NEW s \in Sockets, NEW closing \in BOOLEAN, sd[s], Delete(s, closing, "dispatch")
        PROVE  Given'
    <3>1. object[s] # "none" /\ object' = object
      BY <1>1, <2>2, DispatchFacts DEF Given
    <3> QED BY <2>2, <3>1 DEF Delete, SocketTyped, Given
  <2> QED BY <1>1, <2>1, <2>2, DispatchFacts
<1>2. CASE DeleteLater
  BY <1>2 DEF DeleteLater, SocketTyped, Given, Round
<1>3. CASE LastRound
  BY <1>3 DEF LastRound, SocketTyped, EpollTyped, Given, Polled
<1>4. CASE ReleaseSocket
  BY <1>4 DEF ReleaseSocket, SocketTyped, JobTyped, Given
<1>5. ASSUME NEW s \in Sockets, SendFails(s) PROVE Given'
  BY <1>5 DEF SendFails, Delete, SocketTyped, Polled, Given, Batched
<1>6. ASSUME NEW s \in Sockets, ReceiveFails(s) PROVE Given'
  <2>1. object[s] # "none" /\ Delete(s, TRUE, "events") /\ object' = object
    BY <1>6 DEF ReceiveFails, MayReceive, Polled, Batched
  <2> QED BY <2>1 DEF Delete, SocketTyped, Given
<1>7. ASSUME NEW s \in Sockets, Timeout(s) PROVE Given'
  <2>1. object[s] # "none" /\ Delete(s, TRUE, "sweep") /\ object' = object
    BY <1>7 DEF Timeout, Batched
  <2> QED BY <2>1 DEF Delete, SocketTyped, Given
<1>8. ASSUME NEW s \in Sockets, FreeSocket(s) PROVE Given'
  BY <1>8 DEF FreeSocket, SocketTyped, EpollTyped, Given, kernelVars, epollVars, mainVars
<1>9. ASSUME NEW s \in Sockets, Accept(s) PROVE Given'
  BY <1>9 DEF Accept, Ready, SocketTyped, EpollTyped, Given, mainVars
<1>10. CASE UNCHANGED <<sd, deleting, object>>
  BY <1>10 DEF SocketTyped, EpollTyped, Given
<1> QED
  BY <1>0, <1>1, <1>2, <1>3, <1>4, <1>5, <1>6, <1>7, <1>8, <1>9, <1>10 DEF Next, PollStep, MainStep,
     WorkerStep, vars, socketVars, kernelVars, epollVars, mainVars, Wait, SetPollIn,
     EventsDone, Sweep, NextRound, Stop, SendAll, SendSome, AllWorkersBusy, HasWorker,
     Receive, ClientSends, ClientCloses, ClientReads, TimePasses, EnqueueResponse, RearmPoll,
     DropResponse, CloseHttpSocket, Finish, ReleaseWorker, FreeWorker

\* The polling thread returns from deleteLater() to where it was.
LEMMA NextPlace ==
    ASSUME SocketTyped, EpollTyped, JobTyped, Round, [Next]_vars
    PROVE  Round'
<1> USE EpollAssumptions
<1>0. ASSUME NEW s \in Sockets, RequestTooLarge(s) PROVE Round'
  BY <1>0 DEF RequestTooLarge, Round, At
<1>1. CASE DispatchSendData
  <2>1. CASE UNCHANGED <<pollingSockets, edge, sd, deleting, epoll>>
    BY <1>1, <2>1, DispatchFacts DEF SocketTyped, EpollTyped, Round
  <2>2. ASSUME NEW s \in Sockets, NEW closing \in BOOLEAN, sd[s], Delete(s, closing, "dispatch")
        PROVE  Round'
    BY <1>1, <2>2, DispatchFacts DEF Delete, At, SocketTyped, EpollTyped, Round
  <2> QED BY <1>1, <2>1, <2>2, DispatchFacts
<1>2. CASE Wait
  BY <1>2 DEF Wait, SocketTyped, EpollTyped, Round, At, socketVars, mainVars
<1>3. CASE SetPollIn
  BY <1>3 DEF SetPollIn, SocketTyped, EpollTyped, Round, At, kernelVars, mainVars
<1>4. CASE DeleteLater
  BY <1>4 DEF DeleteLater, SocketTyped, EpollTyped, Round, At, kernelVars, mainVars
<1>5. CASE EventsDone
  BY <1>5 DEF EventsDone, SocketTyped, EpollTyped, Round, At, socketVars, kernelVars, mainVars
<1>6. CASE Sweep
  BY <1>6 DEF Sweep, SocketTyped, EpollTyped, Round, At, socketVars, kernelVars, mainVars
<1>7. CASE NextRound
  BY <1>7 DEF NextRound, SocketTyped, EpollTyped, Round, At, socketVars, kernelVars, mainVars
<1>8. CASE LastRound
  BY <1>8 DEF LastRound, SocketTyped, EpollTyped, Round, At, kernelVars, mainVars
<1>9. ASSUME NEW s \in Sockets, SendFails(s) PROVE Round'
  BY <1>9 DEF SendFails, Delete, SocketTyped, EpollTyped, Round, At, mainVars
<1>10. ASSUME NEW s \in Sockets, HasWorker(s) PROVE Round'
  BY <1>10 DEF HasWorker, SocketTyped, EpollTyped, Round, At, socketVars, kernelVars, mainVars
<1>11. ASSUME NEW s \in Sockets, ReceiveFails(s) PROVE Round'
  BY <1>11 DEF ReceiveFails, Delete, MayReceive, SocketTyped, EpollTyped, Round, At, mainVars
<1>12. ASSUME NEW s \in Sockets, Timeout(s) PROVE Round'
  BY <1>12 DEF Timeout, Delete, SocketTyped, EpollTyped, Round, At, mainVars
<1>13. CASE UNCHANGED <<epoll, deleting>>
  BY <1>13 DEF SocketTyped, EpollTyped, Round
<1> QED
  BY <1>0, <1>1, <1>2, <1>3, <1>4, <1>5, <1>6, <1>7, <1>8, <1>9, <1>10, <1>11, <1>12, <1>13 DEF
     Next, PollStep, MainStep, WorkerStep, vars, socketVars, kernelVars, epollVars, mainVars,
     ReleaseSocket, Stop, SendAll, SendSome, AllWorkersBusy, Receive, FreeSocket, Accept,
     ClientSends, ClientCloses, ClientReads, TimePasses, EnqueueResponse, RearmPoll,
     DropResponse, CloseHttpSocket, Finish, ReleaseWorker, FreeWorker

\* An event of this round stays with a socket of the set.
LEMMA NextBatched ==
    ASSUME SocketTyped, KernelTyped, EpollTyped, JobTyped, Polled, Given, Round,
           Batched, Edges, [Next]_vars
    PROVE  Batched'
<1> USE EpollAssumptions
<1>0. ASSUME NEW s \in Sockets, RequestTooLarge(s) PROVE Batched'
  BY <1>0 DEF RequestTooLarge, Batched, At
<1>1. CASE DispatchSendData
  <2>1. CASE UNCHANGED <<pollingSockets, edge, sd, deleting, epoll>>
    BY <1>1, <2>1, DispatchFacts DEF EpollTyped, Batched, Round
  <2>2. ASSUME NEW s \in Sockets, NEW closing \in BOOLEAN, sd[s], Delete(s, closing, "dispatch")
        PROVE  Batched'
    BY <1>1, <2>2, DispatchFacts DEF Delete, At, EpollTyped, Batched, Round
  <2> QED BY <1>1, <2>1, <2>2, DispatchFacts
<1>2. CASE Wait
  BY <1>2 DEF Wait, Batched, Edges, KernelTyped, At, socketVars
<1>3. CASE SetPollIn
  BY <1>3 DEF SetPollIn, EpollTyped, Batched, Round, At, kernelVars, mainVars
<1>4. CASE DeleteLater
  BY <1>4 DEF DeleteLater, At, SocketTyped, EpollTyped, Batched, Round
<1>5. CASE EventsDone
  BY <1>5 DEF EventsDone, EpollTyped, Batched, Round, At, socketVars, kernelVars, mainVars
<1>6. CASE Sweep
  BY <1>6 DEF Sweep, Batched, Round, At, socketVars
<1>7. CASE NextRound
  BY <1>7 DEF NextRound, EpollTyped, Batched, Round, At, socketVars, kernelVars, mainVars
<1>8. CASE LastRound
  BY <1>8 DEF LastRound, EpollTyped, Batched, Round, At, kernelVars, mainVars
<1>9. CASE ReleaseSocket
  BY <1>9 DEF ReleaseSocket, SocketTyped, JobTyped, Batched, epollVars
<1>10. ASSUME NEW s \in Sockets, SendAll(s) PROVE Batched'
  BY <1>10 DEF SendAll, EpollTyped, Batched, Round, kernelVars, mainVars
<1>11. ASSUME NEW s \in Sockets, SendSome(s) PROVE Batched'
  BY <1>11 DEF SendSome, EpollTyped, Batched, Round, mainVars
<1>12. ASSUME NEW s \in Sockets, SendFails(s) PROVE Batched'
  BY <1>12 DEF SendFails, Delete, EpollTyped, Batched, Round, At, mainVars
<1>13. ASSUME NEW s \in Sockets, AllWorkersBusy(s) PROVE Batched'
  BY <1>13 DEF AllWorkersBusy, modifyPoll, Ready, EpollTyped, Batched, Round, socketVars,
     mainVars
<1>14. ASSUME NEW s \in Sockets, HasWorker(s) PROVE Batched'
  BY <1>14 DEF HasWorker, EpollTyped, Batched, Round, At, socketVars, kernelVars, mainVars
<1>15. ASSUME NEW s \in Sockets, Receive(s) PROVE Batched'
  BY <1>15 DEF Receive, MayReceive, EpollTyped, Batched, Round
<1>16. ASSUME NEW s \in Sockets, ReceiveFails(s) PROVE Batched'
  BY <1>16 DEF ReceiveFails, Delete, MayReceive, EpollTyped, Batched, Round, At, mainVars
<1>17. ASSUME NEW s \in Sockets, Timeout(s) PROVE Batched'
  BY <1>17 DEF Timeout, Delete, EpollTyped, Batched, Round, At, mainVars
<1>18. ASSUME NEW s \in Sockets, FreeSocket(s) PROVE Batched'
  BY <1>18 DEF FreeSocket, SocketTyped, Batched, epollVars
<1>19. ASSUME NEW s \in Sockets, Accept(s) PROVE Batched'
  BY <1>19 DEF Accept, SocketTyped, EpollTyped, Batched
<1>20. CASE UNCHANGED <<epoll, batch, pollingSockets, object>>
  BY <1>20 DEF EpollTyped, Batched, Round
<1> QED
  BY <1>0, <1>1, <1>2, <1>3, <1>4, <1>5, <1>6, <1>7, <1>8, <1>9, <1>10, <1>11, <1>12, <1>13, <1>14,
     <1>15, <1>16, <1>17, <1>18, <1>19, <1>20 DEF Next, PollStep, MainStep, WorkerStep, vars,
     socketVars, kernelVars, epollVars, mainVars, Stop, ClientSends, ClientCloses,
     ClientReads, TimePasses, EnqueueResponse, RearmPoll, DropResponse, CloseHttpSocket,
     Finish, ReleaseWorker, FreeWorker

\* The kernel reports events of sockets of the set only.
LEMMA NextEdges ==
    ASSUME SocketTyped, KernelTyped, EpollTyped, JobTyped, Jobs, Polled, Round, Edges,
           [Next]_vars
    PROVE  Edges'
<1> USE EpollAssumptions
<1>0. ASSUME NEW s \in Sockets, RequestTooLarge(s) PROVE Edges'
  BY <1>0 DEF RequestTooLarge, Edges
<1>1. CASE DispatchSendData
  <2>1. CASE UNCHANGED <<pollingSockets, edge, sd, deleting, epoll>>
    BY <1>1, <2>1, DispatchFacts DEF KernelTyped, EpollTyped, Edges
  <2>2. ASSUME NEW s \in Sockets, NEW closing \in BOOLEAN, sd[s], Delete(s, closing, "dispatch")
        PROVE  Edges'
    BY <1>1, <2>2, DispatchFacts DEF Delete, At, KernelTyped, EpollTyped, Edges
  <2> QED BY <1>1, <2>1, <2>2, DispatchFacts
<1>2. CASE Wait
  BY <1>2 DEF Wait, Edges
<1>3. CASE SetPollIn
  BY <1>3 DEF SetPollIn, KernelTyped, EpollTyped, Edges, At, kernelVars, mainVars
<1>4. CASE DeleteLater
  BY <1>4 DEF DeleteLater, At, Edges, kernelVars
<1>5. CASE EventsDone
  BY <1>5 DEF EventsDone, KernelTyped, EpollTyped, Edges, At, socketVars, kernelVars, mainVars
<1>6. CASE Sweep
  BY <1>6 DEF Sweep, KernelTyped, EpollTyped, Edges, At, socketVars, kernelVars, mainVars
<1>7. CASE NextRound
  BY <1>7 DEF NextRound, KernelTyped, EpollTyped, Edges, At, socketVars, kernelVars, mainVars
<1>8. CASE LastRound
  BY <1>8 DEF LastRound, KernelTyped, EpollTyped, Edges, At, kernelVars, mainVars
<1>9. CASE ReleaseSocket
  <2>1. /\ release \in Sockets /\ UNCHANGED <<epoll, pollingSockets>>
        /\ edge' = edge \/ modifyPoll(release)
    BY <1>9 DEF ReleaseSocket, JobTyped, epollVars
  <2> QED BY <2>1, ModifyPollFacts DEF Edges
<1>10. ASSUME NEW s \in Sockets, SendFails(s) PROVE Edges'
  BY <1>10 DEF SendFails, Delete, KernelTyped, EpollTyped, Edges, At, mainVars
<1>11. ASSUME NEW s \in Sockets, AllWorkersBusy(s) PROVE Edges'
  BY <1>11, ModifyPollFacts DEF AllWorkersBusy, Edges
<1>12. ASSUME NEW s \in Sockets, HasWorker(s) PROVE Edges'
  BY <1>12 DEF HasWorker, KernelTyped, EpollTyped, Edges, At, socketVars, kernelVars, mainVars
<1>13. ASSUME NEW s \in Sockets, ReceiveFails(s) PROVE Edges'
  BY <1>13 DEF ReceiveFails, Delete, MayReceive, KernelTyped, EpollTyped, Edges, At, mainVars
<1>14. ASSUME NEW s \in Sockets, Timeout(s) PROVE Edges'
  BY <1>14 DEF Timeout, Delete, KernelTyped, EpollTyped, Edges, At, mainVars
<1>15. ASSUME NEW s \in Sockets, Accept(s) PROVE Edges'
  BY <1>15 DEF Accept, Ready, KernelTyped, EpollTyped, Edges, mainVars
<1>16. ASSUME NEW s \in Sockets, ClientSends(s) PROVE Edges'
  BY <1>16, ArrivesFacts DEF ClientSends, Edges, epollVars
<1>17. ASSUME NEW s \in Sockets, ClientCloses(s) PROVE Edges'
  BY <1>17, ArrivesFacts DEF ClientCloses, Edges, epollVars
<1>18. ASSUME NEW s \in Sockets, ClientReads(s) PROVE Edges'
  BY <1>18, ArrivesFacts DEF ClientReads, Edges, epollVars
<1>19. ASSUME NEW w \in Workers, RearmPoll(w) PROVE Edges'
  <2>1. /\ job[w].socket \in Sockets /\ modifyPoll(job[w].socket)
        /\ UNCHANGED <<epoll, pollingSockets>>
    BY <1>19 DEF RearmPoll, Jobs, epollVars
  <2> QED BY <2>1, ModifyPollFacts DEF Edges
<1>20. CASE UNCHANGED <<epoll, edge, pollingSockets>>
  BY <1>20 DEF KernelTyped, EpollTyped, Edges
<1> QED
  BY <1>0, <1>1, <1>2, <1>3, <1>4, <1>5, <1>6, <1>7, <1>8, <1>9, <1>10, <1>11, <1>12, <1>13, <1>14,
     <1>15, <1>16, <1>17, <1>18, <1>19, <1>20 DEF Next, PollStep, MainStep, WorkerStep, vars,
     socketVars, kernelVars, epollVars, mainVars, Stop, SendAll, SendSome, Receive,
     FreeSocket, TimePasses, EnqueueResponse, DropResponse, CloseHttpSocket, Finish,
     ReleaseWorker, FreeWorker

-----------------------------------------------------------------------------
(* The workers and their counter.                                           *)

\* A socket without a worker that gets one is counted for.
LEMMA Hire ==
    ASSUME JobTyped, SocketTyped, Counted, NEW w \in Workers, NEW s \in Sockets,
           job[w] = NoJob, myWorkerCounter[s] = 0, NEW n \in Nat,
           job' = [job EXCEPT ![w] = [socket |-> s, doing |-> "run", left |-> n]],
           myWorkerCounter' = [myWorkerCounter EXCEPT ![s] = myWorkerCounter[s] + 1]
    PROVE  Counted'
<1>1. /\ Serves(w, s)' /\ \A t \in Sockets : t # s => ~Serves(w, t)'
      /\ \A t \in Sockets : ~Serves(w, t)
  BY DEF Serves, JobTyped, JobType, NoJob
<1>2. \A v \in Workers, t \in Sockets : v # w => (Serves(v, t)' <=> Serves(v, t))
  BY DEF Serves, JobTyped
<1>3. /\ myWorkerCounter'[s] = 1
      /\ \A t \in Sockets : t # s => myWorkerCounter'[t] = myWorkerCounter[t]
      /\ \A v \in Workers : ~Serves(v, s)
  BY DEF SocketTyped, Counted
<1>4. Alone(w, s)'
  BY <1>1, <1>2, <1>3 DEF Alone
<1>5. ASSUME NEW t \in Sockets, t # s
      PROVE  \/ myWorkerCounter'[t] = 0 /\ \A v \in Workers : ~Serves(v, t)'
             \/ myWorkerCounter'[t] = 1 /\ \E v \in Workers : Alone(v, t)'
  <2>1. \A v \in Workers : Serves(v, t)' <=> Serves(v, t)
    BY <1>1, <1>2, <1>5
  <2>2. CASE myWorkerCounter[t] = 0 /\ \A v \in Workers : ~Serves(v, t)
    BY <1>3, <1>5, <2>1, <2>2
  <2>3. CASE myWorkerCounter[t] = 1 /\ \E v \in Workers : Alone(v, t)
    BY <1>3, <1>5, <2>1, <2>3 DEF Alone
  <2> QED BY <2>2, <2>3 DEF Counted
<1> QED BY <1>3, <1>4, <1>5 DEF Counted

\* Who serves a socket is the same when a job changes and stays a service.
LEMMA SameService ==
    ASSUME Counted, UNCHANGED myWorkerCounter,
           \A v \in Workers, t \in Sockets : Serves(v, t)' <=> Serves(v, t)
    PROVE  Counted'
<1> SUFFICES ASSUME NEW t \in Sockets
    PROVE  \/ myWorkerCounter'[t] = 0 /\ \A v \in Workers : ~Serves(v, t)'
           \/ myWorkerCounter'[t] = 1 /\ \E v \in Workers : Alone(v, t)'
  BY DEF Counted
<1>1. CASE myWorkerCounter[t] = 0 /\ \A v \in Workers : ~Serves(v, t)
  BY <1>1
<1>2. CASE myWorkerCounter[t] = 1 /\ \E v \in Workers : Alone(v, t)
  BY <1>2 DEF Alone
<1> QED BY <1>1, <1>2 DEF Counted

\* The counter of a socket keeps saying whether the socket has its worker.
LEMMA NextCounted ==
    ASSUME SocketTyped, KernelTyped, EpollTyped, JobTyped, Jobs, Counted, [Next]_vars
    PROVE  Counted'
<1> USE EpollAssumptions
<1>0. ASSUME NEW s \in Sockets, RequestTooLarge(s) PROVE Counted'
  BY <1>0 DEF RequestTooLarge, Counted, Serves, NoJob
<1>1. ASSUME NEW s \in Sockets, Receive(s) PROVE Counted'
  <2>1. CASE UNCHANGED <<job, myWorkerCounter>>
    BY <2>1 DEF Counted, Alone, Serves
  <2>2. ASSUME NEW w \in Workers, job[w] = NoJob, NEW rest \in 0 .. unread[s],
               job' = [job EXCEPT ![w] = [socket |-> s, doing |-> "run", left |-> rest]],
               myWorkerCounter' = [myWorkerCounter EXCEPT ![s] = myWorkerCounter[s] + 1]
        PROVE  Counted'
    <3>1. rest \in Nat /\ myWorkerCounter[s] = 0
      BY <1>1 DEF Receive, MayReceive, KernelTyped
    <3> QED BY <2>2, <3>1, Hire
  <2> QED BY <1>1, <2>1, <2>2 DEF Receive
<1>2. ASSUME NEW w \in Workers, WorkerStep(w) PROVE Counted'
  <2>1. \A v \in Workers, t \in Sockets : Serves(v, t)' <=> Serves(v, t)
    BY <1>2, WorkerFacts DEF Serves
  <2> QED BY <1>2, <2>1, WorkerFacts, SameService
<1>3. ASSUME NEW w \in Workers, ReleaseWorker(w) PROVE Counted'
  <2>1. PICK s \in Sockets : s = job[w].socket /\ Serves(w, s)
    BY <1>3 DEF ReleaseWorker, Jobs, Serves, JobTyped
  <2>2. /\ \A t \in Sockets : ~Serves(w, t)'
        /\ \A t \in Sockets : t # s => ~Serves(w, t)
    BY <1>3, <2>1 DEF ReleaseWorker, Serves, JobTyped, JobType
  <2>3. \A v \in Workers, t \in Sockets : v # w => (Serves(v, t)' <=> Serves(v, t))
    BY <1>3 DEF ReleaseWorker, Serves, JobTyped
  <2>4. myWorkerCounter[s] = 1 /\ \A v \in Workers : v # w => ~Serves(v, s)
    BY <2>1 DEF Counted, Alone
  <2>5. /\ myWorkerCounter'[s] = 0
        /\ \A t \in Sockets : t # s => myWorkerCounter'[t] = myWorkerCounter[t]
    BY <1>3, <2>1, <2>4 DEF ReleaseWorker, SocketTyped
  <2>6. ASSUME NEW t \in Sockets, t # s
        PROVE  \/ myWorkerCounter'[t] = 0 /\ \A v \in Workers : ~Serves(v, t)'
               \/ myWorkerCounter'[t] = 1 /\ \E v \in Workers : Alone(v, t)'
    <3>1. \A v \in Workers : Serves(v, t)' <=> Serves(v, t)
      BY <2>2, <2>3, <2>6
    <3>2. CASE myWorkerCounter[t] = 0 /\ \A v \in Workers : ~Serves(v, t)
      BY <2>5, <2>6, <3>1, <3>2
    <3>3. CASE myWorkerCounter[t] = 1 /\ \E v \in Workers : Alone(v, t)
      BY <2>5, <2>6, <3>1, <3>3 DEF Alone
    <3> QED BY <3>2, <3>3 DEF Counted
  <2>7. \A v \in Workers : ~Serves(v, s)'
    BY <2>1, <2>2, <2>3, <2>4
  <2> QED BY <2>1, <2>5, <2>6, <2>7 DEF Counted
<1>4. ASSUME NEW w \in Workers, FreeWorker(w) PROVE Counted'
  <2>1. \A v \in Workers, t \in Sockets : Serves(v, t)' <=> Serves(v, t)
    BY <1>4 DEF FreeWorker, Serves, JobTyped, NoJob
  <2> QED BY <1>4, <2>1, SameService DEF FreeWorker, socketVars
<1>5. CASE UNCHANGED <<myWorkerCounter, job>>
  BY <1>5 DEF Counted, Alone, Serves
<1> QED
  BY <1>0, <1>1, <1>2, <1>3, <1>4, <1>5 DEF Next, PollStep, MainStep, vars, socketVars, kernelVars,
     epollVars, mainVars, DispatchSendData, Wait, SetPollIn, DeleteLater, EventsDone, Sweep,
     NextRound, LastRound, ReleaseSocket, Stop, SendAll, SendSome, SendFails, AllWorkersBusy,
     HasWorker, ReceiveFails, Timeout, FreeSocket, Accept, ClientSends, ClientCloses,
     ClientReads, TimePasses

\* A socket object that goes has no worker, and gets none.
LEMMA NextGone ==
    ASSUME SocketTyped, KernelTyped, EpollTyped, JobTyped, Jobs, Polled, Round, Given,
           Batched, Counted, GoneAreIdle, [Next]_vars
    PROVE  GoneAreIdle'
<1> USE EpollAssumptions
<1>0. ASSUME NEW s \in Sockets, RequestTooLarge(s) PROVE GoneAreIdle'
  BY <1>0 DEF RequestTooLarge, GoneAreIdle
<1>1. CASE DeleteLater
  BY <1>1 DEF DeleteLater, SocketTyped, GoneAreIdle, Round
<1>2. CASE LastRound
  BY <1>2 DEF LastRound, SocketTyped, GoneAreIdle, At, kernelVars, mainVars
<1>3. CASE ReleaseSocket
  BY <1>3 DEF ReleaseSocket, SocketTyped, JobTyped, GoneAreIdle
<1>4. ASSUME NEW s \in Sockets, Receive(s) PROVE GoneAreIdle'
  <2>1. object[s] = "live"
    BY <1>4 DEF Receive, MayReceive, Batched, Polled
  <2>2. /\ object' = object
        /\ \A t \in Sockets : t # s => myWorkerCounter'[t] = myWorkerCounter[t]
    BY <1>4 DEF Receive, SocketTyped
  <2> QED BY <2>1, <2>2 DEF GoneAreIdle
<1>5. ASSUME NEW s \in Sockets, FreeSocket(s) PROVE GoneAreIdle'
  BY <1>5 DEF FreeSocket, SocketTyped, GoneAreIdle, kernelVars, epollVars, mainVars
<1>6. ASSUME NEW s \in Sockets, Accept(s) PROVE GoneAreIdle'
  BY <1>6 DEF Accept, Ready, SocketTyped, GoneAreIdle, mainVars
<1>7. ASSUME NEW w \in Workers, ReleaseWorker(w) PROVE GoneAreIdle'
  <2>1. job[w].socket \in Sockets /\ Serves(w, job[w].socket)
    BY <1>7 DEF ReleaseWorker, Jobs, Serves
  <2>2. myWorkerCounter[job[w].socket] = 1
    BY <2>1 DEF Counted
  <2> QED BY <1>7, <2>1, <2>2 DEF ReleaseWorker, SocketTyped, GoneAreIdle
<1>8. CASE UNCHANGED <<myWorkerCounter, object>>
  BY <1>8 DEF SocketTyped, GoneAreIdle
<1> QED
  BY <1>0, <1>1, <1>2, <1>3, <1>4, <1>5, <1>6, <1>7, <1>8 DEF Next, PollStep, MainStep, WorkerStep,
     vars, socketVars, kernelVars, epollVars, mainVars, DispatchSendData, Wait, SetPollIn,
     EventsDone, Sweep, NextRound, Stop, SendAll, SendSome, SendFails, AllWorkersBusy,
     HasWorker, ReceiveFails, Timeout, ClientSends, ClientCloses, ClientReads, TimePasses,
     EnqueueResponse, RearmPoll, DropResponse, CloseHttpSocket, Finish, FreeWorker

-----------------------------------------------------------------------------
(* Requests and responses.                                                  *)

\* The history is a flag for each socket.
LEMMA NextMissedTyped ==
    ASSUME MissedTyped, Round, [Next]_vars
    PROVE  MissedTyped'
<1>1. CASE SetPollIn
  <2>1. PICK s \in Sockets, b \in BOOLEAN : missed' = [missed EXCEPT ![s] = b]
    <3>1. (myWorkerCounter[epoll.socket] = 0 /\ release # epoll.socket) \in BOOLEAN
      BY Zenon
    <3> QED BY <1>1, <3>1 DEF SetPollIn, Round
  <2> QED BY <2>1 DEF MissedTyped
<1>2. ASSUME NEW s \in Sockets, Receive(s) PROVE MissedTyped'
  BY <1>2 DEF Receive, MissedTyped
<1>3. CASE UNCHANGED missed
  BY <1>3 DEF MissedTyped
<1> QED
  BY <1>1, <1>2, <1>3 DEF Next, PollStep, MainStep, WorkerStep, vars, mainVars,
     DispatchSendData, Wait, DeleteLater, EventsDone, Sweep, NextRound, LastRound, Stop,
     SendAll, SendSome, SendFails, AllWorkersBusy, HasWorker, ReceiveFails, RequestTooLarge,
     Timeout, ReleaseSocket, ReleaseWorker, FreeWorker, FreeSocket, Accept, ClientSends,
     ClientCloses, ClientReads, TimePasses, EnqueueResponse, RearmPoll, DropResponse,
     CloseHttpSocket, Finish

\* Who serves a socket goes on serving it, or is about to look at pollIn.
LEMMA HeldStays ==
    ASSUME UNCHANGED <<pollIn, missed>>, NEW t \in Sockets, Covered(t), Held(t) => Held(t)'
    PROVE  Covered(t)'
  BY DEF Covered

\* An event that is left to releaseWorker() stays so until it is asked for.
LEMMA NextCovered ==
    ASSUME SocketTyped, KernelTyped, EpollTyped, JobTyped, Jobs, MissedTyped, Polled, Round,
           Counted, [Next]_vars, NEW t \in Sockets, Covered(t)
    PROVE  Covered(t)' \/ unread'[t] = 0 \/ "in" \in edge'[t] \/ ~sd'[t] \/ deleting'[t]
<1> USE EpollAssumptions
<1>0. ASSUME NEW s \in Sockets, RequestTooLarge(s) PROVE ~sd'[t]
  BY <1>0 DEF RequestTooLarge
<1>1. CASE SetPollIn
  <2>1. CASE t = epoll.socket
    <3>1. pollIn'[t] /\ missed'[t] = (myWorkerCounter[t] = 0 /\ release # t)
      BY <1>1, <2>1 DEF SetPollIn, SocketTyped, MissedTyped
    <3>2. CASE myWorkerCounter[t] = 0 /\ release # t
      BY <3>1, <3>2 DEF Covered
    <3>3. CASE release = t
      BY <1>1, <3>1, <3>3 DEF SetPollIn, Covered, Held
    <3>4. CASE myWorkerCounter[t] # 0
      <4>1. \E w \in Workers : Serves(w, t)
        BY <3>4 DEF Counted, Alone
      <4>2. Held(t)'
        BY <1>1, <4>1 DEF SetPollIn, Held, Serves
      <4> QED BY <3>1, <4>2 DEF Covered
    <3> QED BY <3>2, <3>3, <3>4
  <2>2. CASE t # epoll.socket
    <3>1. UNCHANGED <<job, release>> /\ pollIn'[t] = pollIn[t] /\ missed'[t] = missed[t]
      BY <1>1, <2>2 DEF SetPollIn, SocketTyped, MissedTyped
    <3> QED BY <3>1 DEF Covered, Held, Serves
  <2> QED BY <2>1, <2>2
<1>2. CASE ReleaseSocket
  <2>1. PICK s \in Sockets : s = release
    BY <1>2 DEF ReleaseSocket, JobTyped
  <2>2. /\ UNCHANGED <<job, missed, deleting, sd, unread>>
        /\ \/ deleting[s] /\ UNCHANGED pollIn
           \/ ~deleting[s] /\ pollIn[s] /\ pollIn' = [pollIn EXCEPT ![s] = FALSE] /\ modifyPoll(s)
           \/ ~deleting[s] /\ ~pollIn[s] /\ UNCHANGED pollIn
    BY <1>2, <2>1 DEF ReleaseSocket
  <2>3. CASE t # s
    <3>1. pollIn'[t] = pollIn[t]
      BY <2>2, <2>3 DEF SocketTyped
    <3> QED BY <2>1, <2>2, <2>3, <3>1 DEF Covered, Held, Serves
  <2>4. CASE t = s /\ deleting[s]
    BY <2>2, <2>4
  <2>5. CASE t = s /\ modifyPoll(s) /\ ~deleting[s]
    <3>1. unread[s] > 0 /\ sd[s] => "in" \in edge'[s]
      BY <2>5, ModifyPollFacts DEF Polled
    <3> QED BY <2>2, <2>5, <3>1 DEF KernelTyped
  <2>6. CASE t = s /\ ~pollIn[s]
    BY <2>2, <2>6 DEF Covered
  <2> QED BY <2>2, <2>3, <2>4, <2>5, <2>6
<1>3. ASSUME NEW s \in Sockets, Receive(s) PROVE Covered(t)' \/ unread'[t] = 0
  <2>1. CASE t = s
    BY <1>3, <2>1 DEF Receive, KernelTyped
  <2>2. CASE t # s
    <3>1. UNCHANGED <<release, pollIn>> /\ missed'[t] = missed[t]
      BY <1>3, <2>2 DEF Receive, MissedTyped
    <3>2. \/ job' = job
          \/ \E w \in Workers : job[w] = NoJob /\ \E j : job' = [job EXCEPT ![w] = j]
      BY <1>3 DEF Receive
    <3>3. \A v \in Workers : Serves(v, t) => Serves(v, t)'
      BY <3>2 DEF Serves, JobTyped, NoJob
    <3> QED BY <3>1, <3>3 DEF Covered, Held
  <2> QED BY <2>1, <2>2
<1>4. ASSUME NEW w \in Workers, WorkerStep(w) PROVE Covered(t)'
  <2>1. \A v \in Workers : Serves(v, t) => Serves(v, t)'
    BY <1>4, WorkerFacts DEF Serves
  <2>2. UNCHANGED <<pollIn, missed, release>>
    BY <1>4 DEF WorkerStep, EnqueueResponse, RearmPoll, DropResponse, CloseHttpSocket, Finish,
       socketVars
  <2> QED BY <2>1, <2>2, HeldStays DEF Held
<1>5. ASSUME NEW w \in Workers, ReleaseWorker(w) PROVE Covered(t)'
  <2>1. /\ UNCHANGED <<pollIn, missed>> /\ release = NoSocket /\ release' = job[w].socket
        /\ \A v \in Workers : v # w => job'[v] = job[v]
    BY <1>5 DEF ReleaseWorker, JobTyped
  <2>2. Held(t) => Held(t)'
    <3>1. \A v \in Workers : v # w /\ Serves(v, t) => Serves(v, t)'
      BY <2>1 DEF Serves
    <3>2. Serves(w, t) => release' = t
      BY <2>1 DEF Serves
    <3> QED BY <2>1, <3>1, <3>2 DEF Held
  <2> QED BY <2>1, <2>2, HeldStays
<1>6. ASSUME NEW w \in Workers, FreeWorker(w) PROVE Covered(t)'
  <2>1. UNCHANGED <<pollIn, missed, release>>
    BY <1>6 DEF FreeWorker, socketVars
  <2>2. \A v \in Workers : Serves(v, t) => Serves(v, t)'
    BY <1>6 DEF FreeWorker, Serves, JobTyped, NoJob
  <2> QED BY <2>1, <2>2, HeldStays DEF Held
<1>7. CASE UNCHANGED <<pollIn, missed, job, release>>
  BY <1>7 DEF Covered, Held, Serves
<1> QED
  BY <1>0, <1>1, <1>2, <1>3, <1>4, <1>5, <1>6, <1>7 DEF Next, PollStep, MainStep, vars,
     socketVars, kernelVars, epollVars, mainVars, DispatchSendData, Wait, DeleteLater,
     EventsDone, Sweep, NextRound, LastRound, Stop, SendAll, SendSome, SendFails,
     AllWorkersBusy, HasWorker, ReceiveFails, Timeout, FreeSocket, Accept, ClientSends,
     ClientCloses, ClientReads, TimePasses

\* A request that came at whatever moment is still going to be read.
LEMMA NextNoticed ==
    ASSUME SocketTyped, KernelTyped, EpollTyped, JobTyped, Jobs, MissedTyped, Polled, Round,
           Batched, Counted, Noticed, [Next]_vars
    PROVE  Noticed'
<1> USE EpollAssumptions
<1>c. \A t \in Sockets : Covered(t) =>
          Covered(t)' \/ unread'[t] = 0 \/ "in" \in edge'[t] \/ ~sd'[t] \/ deleting'[t]
  BY NextCovered
<1>u. \A t \in Sockets : unread'[t] = 0 => ~(unread'[t] > 0)
  OBVIOUS
<1>0. ASSUME NEW s \in Sockets, RequestTooLarge(s) PROVE Noticed'
  BY <1>0 DEF RequestTooLarge, Noticed
<1>1. CASE DispatchSendData
  <2>1. CASE UNCHANGED <<pollingSockets, edge, sd, deleting, epoll>>
    BY <1>c, <1>u, <1>1, <2>1, DispatchFacts DEF SocketTyped, KernelTyped, EpollTyped, Noticed
  <2>2. ASSUME NEW s \in Sockets, NEW closing \in BOOLEAN, sd[s], Delete(s, closing, "dispatch")
        PROVE  Noticed'
    <3>1. deleting'[s] /\ UNCHANGED <<unread, batch>> /\ epoll.at = "dispatch"
      BY <1>1, <2>2, DispatchFacts DEF Delete, SocketTyped
    <3>2. \A t \in Sockets : t # s =>
             edge'[t] = edge[t] /\ sd'[t] = sd[t] /\ deleting'[t] = deleting[t]
      BY <2>2 DEF Delete, SocketTyped, KernelTyped
    <3> QED BY <1>c, <1>u, <3>1, <3>2 DEF Noticed
  <2> QED BY <1>c, <1>u, <1>1, <2>1, <2>2, DispatchFacts
<1>2. CASE Wait
  BY <1>c, <1>u, <1>2 DEF Wait, At, KernelTyped, Batched, Round, Noticed, socketVars
<1>3. CASE SetPollIn
  <2>1. PICK s \in Sockets : s = epoll.socket
    BY <1>3 DEF SetPollIn, Round
  <2>2. /\ UNCHANGED <<unread, sd, deleting, edge, batch>>
        /\ pollIn' = [pollIn EXCEPT ![s] = TRUE]
        /\ missed' = [missed EXCEPT ![s] = myWorkerCounter[s] = 0 /\ release # s]
        /\ UNCHANGED <<job, release>>
    BY <1>3, <2>1 DEF SetPollIn, kernelVars
  <2>3. Covered(s)'
    <3>1. pollIn'[s] /\ missed'[s] = (myWorkerCounter[s] = 0 /\ release # s)
      BY <2>2 DEF SocketTyped, MissedTyped
    <3>2. myWorkerCounter[s] # 0 => \E w \in Workers : Serves(w, s)
      BY DEF Counted, Alone
    <3>3. Held(s)' <=> Held(s)
      BY <2>2 DEF Held, Serves
    <3> QED BY <3>1, <3>2, <3>3 DEF Covered, Held
  <2> QED BY <1>c, <1>u, <2>1, <2>2, <2>3 DEF Noticed
<1>4. CASE DeleteLater
  BY <1>c, <1>u, <1>4 DEF DeleteLater, At, Round, Noticed, kernelVars
<1>5. CASE EventsDone
  BY <1>c, <1>u, <1>5 DEF EventsDone, SocketTyped, KernelTyped, EpollTyped, Noticed, At,
     socketVars, kernelVars, mainVars
<1>6. CASE Sweep
  BY <1>c, <1>u, <1>6 DEF Sweep, SocketTyped, KernelTyped, EpollTyped, Noticed, At, socketVars,
     kernelVars, mainVars
<1>7. CASE NextRound
  BY <1>c, <1>u, <1>7 DEF NextRound, SocketTyped, KernelTyped, EpollTyped, Noticed, At,
     socketVars, kernelVars, mainVars
<1>8. CASE LastRound
  BY <1>c, <1>u, <1>8 DEF LastRound, SocketTyped, KernelTyped, EpollTyped, Noticed, At,
     kernelVars, mainVars
<1>9. CASE ReleaseSocket
  <2>1. PICK s \in Sockets : s = release
    BY <1>c, <1>u, <1>9 DEF ReleaseSocket, JobTyped
  <2>2. /\ UNCHANGED <<sd, deleting, sendBuf, unread, writable, batch, epoll, job>>
        /\ UNCHANGED edge \/ modifyPoll(s)
    BY <1>c, <1>u, <1>9, <2>1 DEF ReleaseSocket, epollVars
  <2>3. CASE UNCHANGED edge
    BY <1>c, <1>u, <2>2, <2>3 DEF Noticed
  <2>4. CASE modifyPoll(s)
    BY <1>c, <1>u, <2>2, <2>4, ModifyPollFacts DEF Noticed, Polled, SocketTyped
  <2> QED BY <1>c, <1>u, <2>2, <2>3, <2>4
<1>10. ASSUME NEW s \in Sockets, SendAll(s) PROVE Noticed'
  BY <1>c, <1>u, <1>10 DEF SendAll, SocketTyped, KernelTyped, EpollTyped, Noticed, kernelVars,
     mainVars
<1>11. ASSUME NEW s \in Sockets, SendSome(s) PROVE Noticed'
  BY <1>c, <1>u, <1>11 DEF SendSome, SocketTyped, KernelTyped, EpollTyped, Noticed, mainVars
<1>12. ASSUME NEW s \in Sockets, SendFails(s) PROVE Noticed'
  BY <1>c, <1>u, <1>12 DEF SendFails, Delete, SocketTyped, KernelTyped, EpollTyped, Noticed,
     At, mainVars
<1>13. ASSUME NEW s \in Sockets, AllWorkersBusy(s) PROVE Noticed'
  <2>1. modifyPoll(s) /\ UNCHANGED <<sd, deleting, unread, pollIn, epoll>>
    BY <1>c, <1>u, <1>13 DEF AllWorkersBusy, socketVars
  <2>2. \A t \in Sockets : t # s => batch'[t] = batch[t]
    BY <1>c, <1>u, <1>13 DEF AllWorkersBusy, EpollTyped
  <2> QED BY <1>c, <1>u, <2>1, <2>2, ModifyPollFacts DEF Polled, Noticed
<1>14. ASSUME NEW s \in Sockets, HasWorker(s) PROVE Noticed'
  BY <1>c, <1>u, <1>14 DEF HasWorker, At, SocketTyped, EpollTyped, Noticed, socketVars,
     kernelVars
<1>15. ASSUME NEW s \in Sockets, Receive(s) PROVE Noticed'
  BY <1>c, <1>u, <1>15 DEF Receive, MayReceive, SocketTyped, KernelTyped, EpollTyped, Noticed
<1>16. ASSUME NEW s \in Sockets, ReceiveFails(s) PROVE Noticed'
  BY <1>c, <1>u, <1>16 DEF ReceiveFails, Delete, MayReceive, SocketTyped, KernelTyped, EpollTyped,
     Noticed, At, mainVars
<1>17. ASSUME NEW s \in Sockets, Timeout(s) PROVE Noticed'
  BY <1>c, <1>u, <1>17 DEF Timeout, Delete, SocketTyped, KernelTyped, EpollTyped, Noticed, At,
     mainVars
<1>18. ASSUME NEW s \in Sockets, FreeSocket(s) PROVE Noticed'
  BY <1>c, <1>u, <1>18 DEF FreeSocket, SocketTyped, KernelTyped, EpollTyped, Noticed,
     kernelVars, epollVars, mainVars
<1>19. ASSUME NEW s \in Sockets, Accept(s) PROVE Noticed'
  BY <1>c, <1>u, <1>19 DEF Accept, Ready, SocketTyped, KernelTyped, EpollTyped, Noticed,
     mainVars
<1>20. ASSUME NEW s \in Sockets, ClientSends(s) PROVE Noticed'
  BY <1>c, <1>u, <1>20, ArrivesFacts DEF ClientSends, KernelTyped, SocketTyped, Polled,
     Noticed, socketVars, epollVars
<1>21. ASSUME NEW s \in Sockets, ClientCloses(s) PROVE Noticed'
  BY <1>c, <1>u, <1>21, ArrivesFacts DEF ClientCloses, KernelTyped, SocketTyped, Polled,
     Noticed, socketVars, epollVars
<1>22. ASSUME NEW s \in Sockets, ClientReads(s) PROVE Noticed'
  BY <1>c, <1>u, <1>22, ArrivesFacts DEF ClientReads, KernelTyped, SocketTyped, Polled,
     Noticed, socketVars, epollVars
<1>23. ASSUME NEW w \in Workers, RearmPoll(w) PROVE Noticed'
  <2>1. PICK s \in Sockets : s = job[w].socket
    BY <1>c, <1>u, <1>23 DEF RearmPoll, Jobs
  <2>2. modifyPoll(s) /\ UNCHANGED <<socketVars, unread, writable, epollVars>>
    BY <1>c, <1>u, <1>23, <2>1 DEF RearmPoll
  <2> QED BY <1>c, <1>u, <1>23, <2>1, <2>2, ModifyPollFacts DEF Noticed, Polled,
          socketVars, epollVars
<1>24. CASE UNCHANGED <<unread, sd, deleting, edge, batch, epoll>>
  BY <1>c, <1>u, <1>24 DEF SocketTyped, KernelTyped, EpollTyped, Noticed
<1> QED
  BY <1>0, <1>1, <1>2, <1>3, <1>4, <1>5, <1>6, <1>7, <1>8, <1>9, <1>10, <1>11, <1>12, <1>13, <1>14,
     <1>15, <1>16, <1>17, <1>18, <1>19, <1>20, <1>21, <1>22, <1>23, <1>24 DEF Next, PollStep,
     MainStep, WorkerStep, vars, socketVars, kernelVars, epollVars, mainVars, Stop,
     TimePasses, EnqueueResponse, DropResponse, CloseHttpSocket, Finish, ReleaseWorker,
     FreeWorker

\* A worker that is about to tell epoll of its response stays so, unless it does it.
LEMMA TellingStays ==
    ASSUME \A v \in Workers : job[v].doing = "queued" =>
                                  job'[v].doing = "queued" /\ job'[v].socket = job[v].socket
    PROVE  \A t \in Sockets : Telling(t) => Telling(t)'
  BY DEF Telling

\* A response that was queued at whatever moment is still going to be sent.
LEMMA NextLeaving ==
    ASSUME SocketTyped, KernelTyped, EpollTyped, JobTyped, Jobs, Polled, Round, Batched,
           Leaving, [Next]_vars
    PROVE  Leaving'
<1> USE EpollAssumptions
<1>0. ASSUME NEW s \in Sockets, RequestTooLarge(s) PROVE Leaving'
  BY <1>0 DEF RequestTooLarge, Leaving
<1>1. CASE DispatchSendData
  <2>1. \A t \in Sockets : Telling(t) => Telling(t)'
    BY <1>1, DispatchFacts, TellingStays
  <2>2. CASE UNCHANGED <<pollingSockets, edge, sd, deleting, epoll>>
    BY <1>1, <2>1, <2>2, DispatchFacts DEF Leaving
  <2>3. ASSUME NEW s \in Sockets, NEW closing \in BOOLEAN, sd[s], Delete(s, closing, "dispatch")
        PROVE  Leaving'
    BY <1>1, <2>1, <2>3, DispatchFacts DEF Delete, SocketTyped, KernelTyped, Leaving
  <2> QED BY <1>1, <2>2, <2>3, DispatchFacts
<1>2. CASE Wait
  <2>1. \A t \in Sockets : Telling(t) => Telling(t)'
    BY <1>2, TellingStays DEF Wait, mainVars
  <2> QED BY <1>2, <2>1 DEF Wait, SocketTyped, EpollTyped, KernelTyped, Batched, Round,
          Leaving,
     At, socketVars, mainVars
<1>3. CASE Sweep
  <2>1. \A t \in Sockets : Telling(t) => Telling(t)'
    BY <1>3, TellingStays DEF Sweep, mainVars
  <2> QED BY <1>3, <2>1 DEF Sweep, SocketTyped, EpollTyped, Batched, Round, Leaving, At,
     socketVars, kernelVars, mainVars
<1>4. CASE LastRound
  <2>1. \A t \in Sockets : Telling(t) => Telling(t)'
    BY <1>4, TellingStays DEF LastRound, mainVars
  <2> QED BY <1>4, <2>1 DEF LastRound, SocketTyped, EpollTyped, Leaving, At, kernelVars,
          mainVars
<1>5. CASE ReleaseSocket
  <2>1. PICK s \in Sockets : s = release
    BY <1>5 DEF ReleaseSocket, JobTyped
  <2>2. /\ UNCHANGED <<sd, deleting, sendBuf, writable, batch, job>>
        /\ edge' = edge \/ modifyPoll(s)
    BY <1>5, <2>1 DEF ReleaseSocket, epollVars
  <2>3. \A t \in Sockets : Telling(t) => Telling(t)'
    BY <2>2, TellingStays
  <2>4. CASE edge' = edge
    BY <2>2, <2>3, <2>4 DEF Leaving
  <2>5. CASE modifyPoll(s)
    BY <2>2, <2>3, <2>5, ModifyPollFacts DEF Leaving, Polled
  <2> QED BY <2>2, <2>4, <2>5
<1>6. ASSUME NEW s \in Sockets, SendAll(s) PROVE Leaving'
  <2>1. \A t \in Sockets : Telling(t) => Telling(t)'
    BY <1>6, TellingStays DEF SendAll, mainVars
  <2> QED BY <1>6, <2>1 DEF SendAll, SocketTyped, EpollTyped, Leaving, kernelVars, mainVars
<1>7. ASSUME NEW s \in Sockets, SendSome(s) PROVE Leaving'
  <2>1. \A t \in Sockets : Telling(t) => Telling(t)'
    BY <1>7, TellingStays DEF SendSome, mainVars
  <2> QED BY <1>7, <2>1 DEF SendSome, SocketTyped, EpollTyped, KernelTyped, Leaving, mainVars
<1>8. ASSUME NEW s \in Sockets, SendFails(s) PROVE Leaving'
  <2>1. \A t \in Sockets : Telling(t) => Telling(t)'
    BY <1>8, TellingStays DEF SendFails, mainVars
  <2> QED BY <1>8, <2>1 DEF SendFails, Delete, SocketTyped, EpollTyped, Leaving, At, mainVars
<1>9. ASSUME NEW s \in Sockets, AllWorkersBusy(s) PROVE Leaving'
  <2>1. \A t \in Sockets : Telling(t) => Telling(t)'
    BY <1>9, TellingStays DEF AllWorkersBusy, mainVars
  <2>2. modifyPoll(s) /\ UNCHANGED <<sd, deleting, sendBuf, writable>>
    BY <1>9 DEF AllWorkersBusy, socketVars
  <2>3. \A t \in Sockets : t # s => batch'[t] = batch[t]
    BY <1>9 DEF AllWorkersBusy, EpollTyped
  <2> QED BY <2>1, <2>2, <2>3, ModifyPollFacts DEF Polled, Leaving
<1>10. ASSUME NEW s \in Sockets, HasWorker(s) PROVE Leaving'
  <2>1. \A t \in Sockets : Telling(t) => Telling(t)'
    BY <1>10, TellingStays DEF HasWorker, mainVars
  <2> QED BY <1>10, <2>1 DEF HasWorker, SocketTyped, EpollTyped, Leaving, At, socketVars,
     kernelVars, mainVars
<1>11. ASSUME NEW s \in Sockets, Receive(s) PROVE Leaving'
  <2>1. \A v \in Workers : job[v].doing = "queued" => job'[v] = job[v]
    <3>1. \/ job' = job
          \/ \E w \in Workers : job[w] = NoJob /\ \E j : job' = [job EXCEPT ![w] = j]
      BY <1>11 DEF Receive
    <3> QED BY <3>1 DEF JobTyped, NoJob
  <2>2. \A t \in Sockets : Telling(t) => Telling(t)'
    BY <2>1, TellingStays
  <2>3. \A t \in Sockets : batch'[t] = batch[t] \/ batch[t] = {"in"}
    BY <1>11 DEF Receive, MayReceive, EpollTyped
  <2>4. UNCHANGED <<sendBuf, sd, deleting, edge, writable>>
    BY <1>11 DEF Receive
  <2> QED BY <2>2, <2>3, <2>4 DEF Leaving
<1>12. ASSUME NEW s \in Sockets, ReceiveFails(s) PROVE Leaving'
  <2>1. \A t \in Sockets : Telling(t) => Telling(t)'
    BY <1>12, TellingStays DEF ReceiveFails, mainVars
  <2> QED BY <1>12, <2>1 DEF ReceiveFails, Delete, MayReceive, SocketTyped, EpollTyped,
          Leaving,
     At, mainVars
<1>13. ASSUME NEW s \in Sockets, Timeout(s) PROVE Leaving'
  <2>1. \A t \in Sockets : Telling(t) => Telling(t)'
    BY <1>13, TellingStays DEF Timeout, mainVars
  <2> QED BY <1>13, <2>1 DEF Timeout, Delete, SocketTyped, EpollTyped, Leaving, At, mainVars
<1>14. ASSUME NEW s \in Sockets, FreeSocket(s) PROVE Leaving'
  <2>1. \A t \in Sockets : Telling(t) => Telling(t)'
    BY <1>14, TellingStays DEF FreeSocket, mainVars
  <2> QED BY <1>14, <2>1 DEF FreeSocket, SocketTyped, EpollTyped, Leaving, kernelVars,
          epollVars,
     mainVars
<1>15. ASSUME NEW s \in Sockets, Accept(s) PROVE Leaving'
  <2>1. \A t \in Sockets : Telling(t) => Telling(t)'
    BY <1>15, TellingStays DEF Accept, mainVars
  <2> QED BY <1>15, <2>1 DEF Accept, Ready, SocketTyped, EpollTyped, KernelTyped, Leaving,
     mainVars
<1>16. ASSUME NEW s \in Sockets, ClientSends(s) PROVE Leaving'
  <2>1. \A t \in Sockets : Telling(t) => Telling(t)'
    BY <1>16, TellingStays DEF ClientSends, mainVars
  <2> QED BY <1>16, <2>1, ArrivesFacts DEF ClientSends, SocketTyped, EpollTyped, KernelTyped,
     Polled, Leaving, socketVars, epollVars
<1>17. ASSUME NEW s \in Sockets, ClientCloses(s) PROVE Leaving'
  <2>1. \A t \in Sockets : Telling(t) => Telling(t)'
    BY <1>17, TellingStays DEF ClientCloses, mainVars
  <2> QED BY <1>17, <2>1, ArrivesFacts DEF ClientCloses, SocketTyped, EpollTyped, KernelTyped,
     Polled, Leaving, socketVars, epollVars
<1>18. ASSUME NEW s \in Sockets, ClientReads(s) PROVE Leaving'
  <2>1. \A t \in Sockets : Telling(t) => Telling(t)'
    BY <1>18, TellingStays DEF ClientReads, mainVars
  <2> QED BY <1>18, <2>1, ArrivesFacts DEF ClientReads, SocketTyped, EpollTyped, KernelTyped,
     Polled, Leaving, socketVars, epollVars
<1>19. ASSUME NEW w \in Workers, EnqueueResponse(w) PROVE Leaving'
  <2>1. PICK s \in Sockets : s = job[w].socket
    BY <1>19 DEF EnqueueResponse, Jobs
  <2>2. /\ UNCHANGED <<sd, deleting, edge, writable, batch>>
        /\ \A t \in Sockets : t # s => sendBuf'[t] = sendBuf[t]
    BY <1>19, <2>1 DEF EnqueueResponse, kernelVars, epollVars, SocketTyped
  <2>3. /\ job'[w].socket = s /\ job'[w].doing = "queued"
        /\ \A v \in Workers : v # w => job'[v] = job[v]
    BY <1>19, <2>1 DEF EnqueueResponse, JobTyped, JobType
  <2>4. Telling(s)' /\ \A t \in Sockets : Telling(t) => Telling(t)'
    BY <2>1, <2>3 DEF Telling
  <2> QED BY <2>2, <2>4 DEF Leaving
<1>20. ASSUME NEW w \in Workers, RearmPoll(w) PROVE Leaving'
  <2>1. PICK s \in Sockets : s = job[w].socket
    BY <1>20 DEF RearmPoll, Jobs
  <2>2. modifyPoll(s) /\ UNCHANGED <<sd, deleting, sendBuf, writable, batch, pollingSockets>>
    BY <1>20, <2>1 DEF RearmPoll, socketVars, epollVars
  <2>3. \A v \in Workers : v # w => job'[v] = job[v]
    BY <1>20 DEF RearmPoll, JobTyped
  <2>4. \A t \in Sockets : t # s /\ Telling(t) => Telling(t)'
    BY <2>1, <2>3 DEF Telling
  <2> QED BY <2>2, <2>4, ModifyPollFacts DEF Leaving, Polled
<1>21. ASSUME NEW w \in Workers, DropResponse(w) PROVE Leaving'
  <2>1. /\ UNCHANGED <<sd, deleting, sendBuf, edge, writable, batch>>
        /\ \A v \in Workers : job[v].doing = "queued" => job'[v] = job[v]
    BY <1>21 DEF DropResponse, JobTyped, socketVars, kernelVars, epollVars
  <2>2. \A t \in Sockets : Telling(t) => Telling(t)'
    BY <2>1, TellingStays
  <2> QED BY <2>1, <2>2 DEF Leaving
<1>22. ASSUME NEW w \in Workers, CloseHttpSocket(w) PROVE Leaving'
  <2>1. /\ UNCHANGED <<sd, deleting, sendBuf, edge, writable, batch>>
        /\ \A v \in Workers : job[v].doing = "queued" => job'[v] = job[v]
    BY <1>22 DEF CloseHttpSocket, JobTyped, socketVars, kernelVars, epollVars
  <2>2. \A t \in Sockets : Telling(t) => Telling(t)'
    BY <2>1, TellingStays
  <2> QED BY <2>1, <2>2 DEF Leaving
<1>23. ASSUME NEW w \in Workers, Finish(w) PROVE Leaving'
  <2>1. /\ UNCHANGED <<sd, deleting, sendBuf, edge, writable, batch>>
        /\ \A v \in Workers : job[v].doing = "queued" => job'[v] = job[v]
    BY <1>23 DEF Finish, JobTyped, socketVars, kernelVars, epollVars
  <2>2. \A t \in Sockets : Telling(t) => Telling(t)'
    BY <2>1, TellingStays
  <2> QED BY <2>1, <2>2 DEF Leaving
<1>24. ASSUME NEW w \in Workers, ReleaseWorker(w) PROVE Leaving'
  <2>1. /\ UNCHANGED <<sd, deleting, sendBuf, edge, writable, batch>>
        /\ \A v \in Workers : job[v].doing = "queued" => job'[v] = job[v]
    BY <1>24 DEF ReleaseWorker, JobTyped, socketVars, kernelVars, epollVars
  <2>2. \A t \in Sockets : Telling(t) => Telling(t)'
    BY <2>1, TellingStays
  <2> QED BY <2>1, <2>2 DEF Leaving
<1>25. ASSUME NEW w \in Workers, FreeWorker(w) PROVE Leaving'
  <2>1. /\ UNCHANGED <<sd, deleting, sendBuf, edge, writable, batch>>
        /\ \A v \in Workers : job[v].doing = "queued" => job'[v] = job[v]
    BY <1>25 DEF FreeWorker, JobTyped, socketVars, kernelVars, epollVars
  <2>2. \A t \in Sockets : Telling(t) => Telling(t)'
    BY <2>1, TellingStays
  <2> QED BY <2>1, <2>2 DEF Leaving
<1>26. CASE UNCHANGED <<sendBuf, sd, deleting, edge, batch, writable, job>>
  BY <1>26 DEF Leaving, Telling
<1> QED
  BY <1>0, <1>1, <1>2, <1>3, <1>4, <1>5, <1>6, <1>7, <1>8, <1>9, <1>10, <1>11, <1>12, <1>13, <1>14,
     <1>15, <1>16, <1>17, <1>18, <1>19, <1>20, <1>21, <1>22, <1>23, <1>24, <1>25, <1>26 DEF
     Next, PollStep, MainStep, WorkerStep, vars, socketVars, kernelVars, epollVars, mainVars,
     SetPollIn, DeleteLater, EventsDone, NextRound, Stop, TimePasses

-----------------------------------------------------------------------------
(* The theorems.                                                            *)

\* The invariant holds before the first connection ...
LEMMA InitInv == Init => EpollInv /\ Noticed /\ Leaving
<1> SUFFICES ASSUME Init PROVE EpollInv /\ Noticed /\ Leaving
  OBVIOUS
<1>1. SocketTyped /\ KernelTyped
  BY DEF Init, SocketTyped, KernelTyped
<1>2. EpollTyped
  <2>1. epoll \in [at : {"dispatch", "events", "pollIn", "delete", "sweep", "ended"},
                  socket : Sockets \cup {NoSocket}, back : {"dispatch", "events", "sweep"}]
    BY DEF Init, At
  <2>2. sendRequests \in Seq(SendRequests)
    BY DEF Init
  <2> QED BY <2>1, <2>2 DEF Init, EpollTyped
<1>3. JobTyped /\ Jobs
  <2>1. NoJob \in JobType /\ NoJob.doing = "none"
    BY DEF NoJob, JobType
  <2> QED BY <2>1 DEF Init, JobTyped, Jobs
<1>4. Polled /\ Given /\ Edges /\ GoneAreIdle
  BY DEF Init, Polled, Given, Edges, GoneAreIdle
<1>5. Round /\ Batched
  BY DEF Init, Round, Batched, At
<1>6. Counted
  BY DEF Init, Counted, Serves, NoJob
<1>7. Noticed /\ Leaving /\ MissedTyped
  BY DEF Init, Noticed, Leaving, MissedTyped
<1> QED BY <1>1, <1>2, <1>3, <1>4, <1>5, <1>6, <1>7 DEF EpollInv

\* ... and every step of every thread keeps it.
LEMMA NextInv ==
    ASSUME EpollInv, Noticed, Leaving, [Next]_vars
    PROVE  (EpollInv /\ Noticed /\ Leaving)'
<1>1. SocketTyped' /\ KernelTyped' /\ EpollTyped' /\ JobTyped' /\ Jobs'
  BY NextSocketTyped, NextKernelTyped, NextEpollTyped, NextJobs DEF EpollInv
<1>2. Polled' /\ Given' /\ Round' /\ Batched' /\ Edges'
  BY NextPolled, NextGiven, NextPlace, NextBatched, NextEdges DEF EpollInv
<1>3. Counted' /\ GoneAreIdle'
  BY NextCounted, NextGone DEF EpollInv
<1>4. Noticed' /\ Leaving' /\ MissedTyped'
  BY NextNoticed, NextLeaving, NextMissedTyped DEF EpollInv
<1> QED BY <1>1, <1>2, <1>3, <1>4 DEF EpollInv

\* The inductive invariant.
LEMMA Invariant == Spec => [](EpollInv /\ Noticed /\ Leaving)
<1>1. Init => EpollInv /\ Noticed /\ Leaving
  BY InitInv
<1>2. EpollInv /\ Noticed /\ Leaving /\ [Next]_vars
          => (EpollInv /\ Noticed /\ Leaving)'
  BY NextInv
<1> QED BY <1>1, <1>2, PTL DEF Spec

\* The variables of the hybrid MPM keep their types.
THEOREM EpollTypeCorrect == Spec => []TypeOK
<1>1. EpollInv => TypeOK
  BY DEF EpollInv, TypeOK, SocketTyped, KernelTyped, EpollTyped, JobTyped, JobType,
     SendRequests, MissedTyped
<1> QED BY <1>1, Invariant, PTL

\* myWorkerCounter is the number of workers of a socket, and 0 when the object is
\* left to QObject::deleteLater(), for any number of sockets and workers and in
\* every order of the polling thread's and the main thread's steps.
THEOREM SocketsOutliveWorkers == Spec => []SocketOutlivesWorkers
<1>1. ASSUME Counted, NEW s \in Sockets
      PROVE  myWorkerCounter[s] = Cardinality({w \in Workers : Serves(w, s)})
  <2>1. CASE myWorkerCounter[s] = 0 /\ \A w \in Workers : ~Serves(w, s)
    <3>1. {w \in Workers : Serves(w, s)} = {}
      BY <2>1
    <3> QED BY <2>1, <3>1, FS_EmptySet
  <2>2. ASSUME myWorkerCounter[s] = 1, NEW w \in Workers, Alone(w, s)
        PROVE  myWorkerCounter[s] = Cardinality({v \in Workers : Serves(v, s)})
    <3>1. {v \in Workers : Serves(v, s)} = {w}
      BY <2>2 DEF Alone
    <3> QED BY <2>2, <3>1, FS_Singleton
  <2> QED BY <1>1, <2>1, <2>2 DEF Counted
<1>2. EpollInv => SocketOutlivesWorkers
  BY <1>1 DEF EpollInv, GoneAreIdle, SocketOutlivesWorkers
<1> QED BY <1>2, Invariant, PTL

\* A connection never has two workers, so its responses are queued in order.
THEOREM OneWorkerAtATime == Spec => []OneWorkerPerSocket
<1>1. Counted => OneWorkerPerSocket
  BY DEF Counted, Alone, OneWorkerPerSocket
<1>2. EpollInv => OneWorkerPerSocket
  BY <1>1 DEF EpollInv
<1> QED BY <1>2, Invariant, PTL

\* No event is handled on a socket that is closed or whose object is going.
THEOREM EventsOfLiveSockets == Spec => []EventsAreLive
<1>1. Batched /\ Polled => EventsAreLive
  BY DEF Batched, Polled, EventsAreLive
<1>2. EpollInv => EventsAreLive
  BY <1>1 DEF EpollInv
<1> QED BY <1>2, Invariant, PTL

\* The edge-triggered poll loses a request in the race of the poller's countWorker()
\* and its store to pollIn with the release of the last worker, and nowhere else: else
\* the request is reported, at hand, or left to a release that is still to look at
\* pollIn, whatever the workers and the main thread do in between.
THEOREM NoRequestIsMissed == Spec => []RequestsAreNoticed
<1>1. Noticed => RequestsAreNoticed
  BY DEF Noticed, Covered, Held, RequestsAreNoticed
<1> QED BY <1>1, Invariant, PTL

\* It loses no response that a worker queues while the polling thread sends.
THEOREM NoResponseIsMissed == Spec => []ResponsesLeave
<1>1. Leaving => ResponsesLeave
  BY DEF Leaving, Telling, ResponsesLeave
<1> QED BY <1>1, Invariant, PTL

=============================================================================
