-------------------------- MODULE WebSocket_proofs --------------------------
(***************************************************************************)
(* Proofs about a WebSocket and its workers, under either MPM and for any    *)
(* number of frames.  Whether a property of the closing handshake lasts      *)
(* depends on what the three atomics closing, closeSent and deleting say     *)
(* together, on the counter being that of the workers there are, and on the  *)
(* tasks a worker of each mode can have: this is what the invariant adds.    *)
(***************************************************************************)
EXTENDS WebSocket, TLAPS

\* The flags record the calls of onClose() and the Close frames.
FlagsRecord ==
    /\ onClose = 0 \/ (onClose = 1 /\ closing)
    /\ closeFrames = 0 \/ (closeFrames = 1 /\ closeSent)

\* The opening worker does not run sendClose(), and only one thread is between the
\* exchange of closeSent and the write: the frame is then still to come.
WritesOnce ==
    /\ \A w \in Workers : job[w].at \in {"exchange", "write"} => w # "Opening" /\ job[w].tasks # <<>>
    /\ \A w \in Workers : job[w].at = "write" => closeSent /\ closeFrames = 0 /\ ~closer
    /\ \A v, w \in Workers : job[v].at = "write" /\ job[w].at = "write" => v = w
    /\ closer => closeSent /\ closeFrames = 0
    /\ closeSent /\ ~deleting =>
          onOpen = "refused" \/ closeFrames = 1 \/ closer \/ job["Receiving"].at = "write"

JobType == [at : {"none", "execute", "tasks", "exchange", "write", "finished"},
            payloads : Seq(Frames), tasks : Seq(Tasks), sendTask : BOOLEAN]

JobsTyped == job \in [Workers -> JobType] /\ inbox \in Seq(Frames)

\* An opening worker that refuses has no other task, and only it has this one.
TasksOf(w) ==
    IF w = "Opening" THEN IF onOpen = "refused" THEN {"OpenError"}
                          ELSE {"OpenSuccess", "StartKeepAlive"}
    ELSE {"SendText", "SendClose"}

TasksFit == \A w \in Workers : job[w].tasks \in Seq(TasksOf(w))

N(w) == IF job[w].at = "none" THEN 0 ELSE 1

Counted == myWorkerCounter = N("Opening") + N("Receiving") + N("Closing")

\* onOpen() is called once, and under epoll it is what the socket begins with.
OpensOnce ==
    /\ opener => onOpen = "none" /\ job["Opening"].at = "none"
    /\ job["Opening"].at = "execute" => onOpen = "none" /\ ~opener
    /\ job["Opening"].payloads = <<>>
    /\ mpm = "hybrid" /\ onOpen = "none" =>
          job["Opening"].at = "execute" /\ job["Receiving"].at = "none"

\* The descriptor is closed with deleting; the closing worker comes after both.
EndsOnce ==
    /\ deleting => ~open
    /\ reader = "closing" => deleting /\ job["Closing"].at = "none"
    /\ job["Closing"].at # "none" => deleting
    /\ object # "live" => deleting
    /\ deleting => reader = "closing" \/ job["Closing"].at = "execute" \/ closing

\* What closing says.
ClosingMeans ==
    /\ closing => onOpen = "refused" \/ onClose = 1
    /\ closing /\ ~deleting => onOpen = "refused" \/ closeReceived

\* Nothing can start a worker for the object that goes.
GoesAlone ==
    object # "live" /\ ~overtaken =>
        ~opener /\ reader # "closing" /\ \A w \in Workers : job[w].at = "none"

SocketInv ==
    /\ JobsTyped /\ FlagsRecord /\ WritesOnce /\ TasksFit /\ Counted /\ OpensOnce /\ EndsOnce
    /\ ClosingMeans /\ GoesAlone /\ HandshakeBeforeCut
-----------------------------------------------------------------------------
(* Jobs.                                                                    *)

\* A new job is one, and so is the absence of one.
LEMMA JobFacts ==
    /\ NoJob \in JobType
    /\ [NoJob EXCEPT !.at = "finished"] \in JobType
    /\ \A p \in Seq(Frames) : Job(p) \in JobType
  <1>1. <<>> \in Seq(Frames) /\ <<>> \in Seq(Tasks) /\ FALSE \in BOOLEAN
    OBVIOUS
  <1>2. NoJob \in JobType
    BY <1>1 DEF NoJob, JobType
  <1>3. [NoJob EXCEPT !.at = "finished"] \in JobType
    BY <1>2 DEF JobType
  <1>4. ASSUME NEW p \in Seq(Frames) PROVE Job(p) \in JobType
    BY <1>2 DEF JobType, Job
  <1> QED
    BY <1>2, <1>3, <1>4

\* What is in them.
LEMMA JobFields ==
    /\ NoJob.at = "none" /\ NoJob.payloads = <<>> /\ NoJob.tasks = <<>>
    /\ \A p : Job(p).at = "execute" /\ Job(p).payloads = p /\ Job(p).tasks = <<>>
  BY DEF NoJob, Job

\* There is nothing in no task.
LEMMA NoTasks == \A S : <<>> \in Seq(S)
  OBVIOUS

\* Short lists.
LEMMA FewTasks == \A S : \A a, b \in S : <<a>> \in Seq(S) /\ <<a, b>> \in Seq(S)
  OBVIOUS

\* The initial states satisfy the invariant.
LEMMA InitSocket == Init => SocketInv
  <1> SUFFICES ASSUME Init PROVE SocketInv
    OBVIOUS
  <1> USE DEF Init
  <1> USE DEF Workers
  <1>1. /\ job["Opening"] = IF mpm = "hybrid" THEN Job(<<>>) ELSE NoJob
        /\ job["Receiving"] = NoJob /\ job["Closing"] = NoJob
    OBVIOUS
  <1>2. JobsTyped
    <2>1. Job(<<>>) \in JobType /\ NoJob \in JobType
      BY JobFacts, NoTasks
    <2>2. \A w \in Workers : job[w] \in JobType
      BY <1>1, <2>1
    <2>3. job \in [Workers -> JobType]
      BY <2>2
    <2> QED
      BY <2>3, NoTasks DEF JobsTyped
  <1>3. TasksFit
    BY <1>1, JobFields, NoTasks DEF TasksFit
  <1>4. Counted
    BY <1>1, JobFields DEF Counted, N
  <1>5. OpensOnce
    BY <1>1, JobFields DEF OpensOnce
  <1>6. EndsOnce /\ GoesAlone
    BY DEF EndsOnce, GoesAlone, NoJob, Workers
  <1>7. FlagsRecord /\ ClosingMeans /\ HandshakeBeforeCut
    BY DEF FlagsRecord, ClosingMeans, HandshakeBeforeCut
  <1>8. WritesOnce
    <2>1. \A w \in Workers : job[w].at \in {"none", "execute"}
      BY <1>1, JobFields
    <2> QED
      BY <2>1 DEF WritesOnce
  <1> QED
    BY <1>2, <1>3, <1>4, <1>5, <1>6, <1>7, <1>8 DEF SocketInv

\* Steps that concern neither the workers nor the end of the connection.
LEMMA Untouched ==
    ASSUME SocketInv, inbox' \in Seq(Frames),
           UNCHANGED <<mpm, object, open, deleting, closing, closeSent, closer, disconnects, opener,
                       myWorkerCounter, job, onOpen, onClose, closeFrames, closeReceived,
                       overtaken>>,
           reader' = "closing" <=> reader = "closing"
    PROVE  SocketInv'
  <1> USE DEF SocketInv
  <1>1. JobsTyped'
    BY DEF JobsTyped
  <1>2. FlagsRecord' /\ WritesOnce' /\ ClosingMeans' /\ HandshakeBeforeCut'
    BY DEF FlagsRecord, WritesOnce, ClosingMeans, HandshakeBeforeCut
  <1>3. TasksFit' /\ Counted'
    BY DEF TasksFit, TasksOf, Counted, N
  <1>4. OpensOnce' /\ EndsOnce' /\ GoesAlone'
    BY DEF OpensOnce, EndsOnce, GoesAlone
  <1> QED
    BY <1>1, <1>2, <1>3, <1>4

\* The reading thread gives the socket up.
LEMMA GivenUp ==
    ASSUME SocketInv, ~deleting, Delete, inbox' \in Seq(Frames),
           UNCHANGED <<mpm, object, closing, closeSent, closer, opener, myWorkerCounter, job, onOpen,
                       onClose, closeFrames, closeReceived, overtaken>>
    PROVE  SocketInv'
  <1> USE DEF SocketInv, Delete
  <1>1. JobsTyped'
    BY DEF JobsTyped
  <1>2. FlagsRecord' /\ WritesOnce' /\ ClosingMeans' /\ HandshakeBeforeCut'
    BY DEF FlagsRecord, WritesOnce, ClosingMeans, HandshakeBeforeCut
  <1>3. TasksFit' /\ Counted'
    BY DEF TasksFit, TasksOf, Counted, N
  <1>4. OpensOnce' /\ EndsOnce' /\ GoesAlone'
    BY DEF OpensOnce, EndsOnce, GoesAlone
  <1> QED
    BY <1>1, <1>2, <1>3, <1>4

\* A worker that is not inside sendClose() leaves the Close frame alone.
LEMMA NotWriting ==
    ASSUME WritesOnce, NEW w \in Workers, job[w].at # "write",
           job'[w].at \notin {"exchange", "write"}, \A v \in Workers \ {w} : job'[v] = job[v],
           UNCHANGED <<closeSent, closer, closeFrames, deleting>>,
           onOpen' = onOpen \/ onOpen # "refused"
    PROVE  WritesOnce'
  <1>1. \A v \in Workers : job'[v].at = "write" <=> job[v].at = "write"
    OBVIOUS
  <1>2. \A v \in Workers : job'[v].at \in {"exchange", "write"} => job'[v] = job[v]
    OBVIOUS
  <1>3. "Receiving" \in Workers
    BY DEF Workers
  <1> QED
    BY <1>1, <1>2, <1>3 DEF WritesOnce

\* A worker is started for the frames that have come.
LEMMA Reads ==
    ASSUME SocketInv, ~deleting, myWorkerCounter = 0, Read,
           UNCHANGED <<mpm, object, open, deleting, closing, closeSent, closer, disconnects, opener,
                       reader, onOpen, onClose, closeFrames, closeReceived, overtaken>>
    PROVE  SocketInv'
  <1> USE DEF SocketInv
  <1>1. inbox' \in Seq(Frames)
    BY DEF Read
  <1>2. CASE inbox = <<>>
    BY <1>1, <1>2, Untouched DEF Read
  <1>3. CASE inbox # <<>>
    <2>1. /\ job' = [job EXCEPT !["Receiving"] = Job(inbox)]
          /\ myWorkerCounter' = 1
          /\ inbox \in Seq(Frames)
      BY <1>3 DEF Read, startWorker, JobsTyped
    <2>2. \A w \in Workers : job[w].at = "none"
      BY DEF Counted, N, Workers
    <2>3. JobsTyped'
      BY <1>1, <2>1, JobFacts DEF JobsTyped, Workers
    <2>4. /\ job'["Receiving"] = Job(inbox)
          /\ job'["Receiving"].at = "execute" /\ job'["Receiving"].tasks = <<>>
          /\ job'["Opening"] = job["Opening"] /\ job'["Closing"] = job["Closing"]
      BY <2>1, JobFields DEF JobsTyped, Workers
    <2>5. TasksFit'
      <3>1. \A w : TasksOf(w)' = TasksOf(w)
        BY DEF TasksOf
      <3>2. \A w \in Workers : job'[w].tasks = <<>> \/ job'[w] = job[w]
        BY <2>4 DEF Workers
      <3> QED
        BY <3>1, <3>2, NoTasks DEF TasksFit
    <2>6. Counted'
      BY <2>1, <2>2, <2>4 DEF Counted, N, Workers
    <2>7. OpensOnce' /\ EndsOnce' /\ GoesAlone'
      BY <2>2, <2>4 DEF OpensOnce, EndsOnce, GoesAlone, Workers
    <2>8. FlagsRecord' /\ WritesOnce' /\ ClosingMeans' /\ HandshakeBeforeCut'
      <3>1. WritesOnce'
        BY <2>2, <2>4, NotWriting DEF Workers
      <3> QED
        BY <3>1 DEF FlagsRecord, ClosingMeans, HandshakeBeforeCut
    <2> QED
      BY <2>3, <2>5, <2>6, <2>7, <2>8
  <1> QED
    BY <1>2, <1>3

-----------------------------------------------------------------------------
(* What the steps of a worker do to the jobs.                               *)

\* The job of w is in the state `at` and has these tasks; the others are as before.
JobStep(w, at, tasks) ==
    /\ job' \in [Workers -> JobType]
    /\ job'[w].at = at /\ job'[w].tasks = tasks
    /\ job'[w].payloads = job[w].payloads
    /\ \A v \in Workers \ {w} : job'[v] = job[v]

\* A handler leaves its tasks, or none.
LEMMA HandlerStep ==
    ASSUME JobsTyped, NEW w \in Workers, NEW tasks \in Seq(Tasks),
           Leaves(w, tasks) \/ (tasks = <<>> /\ Throws(w))
    PROVE  JobStep(w, "tasks", tasks)
  <1> DEFINE j == [job[w] EXCEPT !.at = "tasks", !.tasks = tasks]
             k == [job[w] EXCEPT !.at = "tasks", !.tasks = <<>>, !.sendTask = TRUE]
  <1>1. job \in [Workers -> JobType] /\ job[w] \in JobType /\ <<>> \in Seq(Tasks)
    BY NoTasks DEF JobsTyped
  <1>2. j \in JobType /\ j.at = "tasks" /\ j.tasks = tasks /\ j.payloads = job[w].payloads
    BY <1>1 DEF JobType
  <1>3. k \in JobType /\ k.at = "tasks" /\ k.tasks = <<>> /\ k.payloads = job[w].payloads
    BY <1>1 DEF JobType
  <1>4. CASE Leaves(w, tasks)
    <2>1. job' = [job EXCEPT ![w] = j]
      BY <1>4, <1>1 DEF Leaves
    <2> HIDE DEF j
    <2> QED
      BY <2>1, <1>1, <1>2 DEF JobStep
  <1>5. CASE tasks = <<>> /\ Throws(w)
    <2>1. job' = [job EXCEPT ![w] = k]
      BY <1>5, <1>1 DEF Throws
    <2> HIDE DEF k
    <2> QED
      BY <2>1, <1>1, <1>3, <1>5 DEF JobStep
  <1> QED
    BY <1>4, <1>5

\* A task that is done is taken off.
LEMMA TaskStep ==
    ASSUME JobsTyped, NEW w \in Workers, NEW sends \in BOOLEAN,
           job[w].tasks # <<>>, TaskDone(w, sends)
    PROVE  JobStep(w, "tasks", Tail(job[w].tasks))
  <1> DEFINE j == [job[w] EXCEPT !.at = "tasks", !.tasks = Tail(@), !.sendTask = @ \/ sends]
  <1>1. job \in [Workers -> JobType] /\ job[w] \in JobType
    BY DEF JobsTyped
  <1>2. Tail(job[w].tasks) \in Seq(Tasks)
    BY <1>1 DEF JobType
  <1>3. (job[w].sendTask \/ sends) \in BOOLEAN
    BY Zenon
  <1>4. j \in JobType /\ j.at = "tasks" /\ j.tasks = Tail(job[w].tasks)
        /\ j.payloads = job[w].payloads
    BY <1>1, <1>2, <1>3 DEF JobType
  <1>5. job' = [job EXCEPT ![w] = j]
    BY <1>1 DEF TaskDone
  <1> HIDE DEF j
  <1> QED
    BY <1>1, <1>4, <1>5 DEF JobStep

\* The task goes on.
LEMMA AtStep ==
    ASSUME JobsTyped, NEW w \in Workers, NEW at \in {"exchange", "write"},
           job' = [job EXCEPT ![w].at = at]
    PROVE  JobStep(w, at, job[w].tasks)
  <1> DEFINE j == [job[w] EXCEPT !.at = at]
  <1>1. job \in [Workers -> JobType] /\ job[w] \in JobType
    BY DEF JobsTyped
  <1>2. j \in JobType /\ j.at = at /\ j.tasks = job[w].tasks /\ j.payloads = job[w].payloads
    BY <1>1 DEF JobType
  <1>3. job' = [job EXCEPT ![w] = j]
    BY <1>1
  <1> HIDE DEF j
  <1> QED
    BY <1>1, <1>2, <1>3 DEF JobStep

\* A worker at work: the parts of the invariant that speak of its job.
LEMMA Working ==
    ASSUME SocketInv, NEW w \in Workers, NEW tasks, NEW at, JobStep(w, at, tasks),
           job[w].at # "none", at # "none", tasks \in Seq(TasksOf(w)'),
           w = "Opening" \/ onOpen' = onOpen,
           UNCHANGED <<object, opener, reader, myWorkerCounter, inbox, overtaken>>
    PROVE  JobsTyped' /\ TasksFit' /\ Counted' /\ GoesAlone'
  <1> USE DEF SocketInv, JobStep
  <1>1. JobsTyped'
    BY DEF JobsTyped
  <1>2. TasksFit'
    <2>1. ASSUME NEW v \in Workers, v # w PROVE job'[v].tasks \in Seq(TasksOf(v)')
      <3>1. TasksOf(v)' = TasksOf(v)
        BY <2>1 DEF TasksOf
      <3>2. job'[v] = job[v] /\ job[v].tasks \in Seq(TasksOf(v))
        BY <2>1 DEF TasksFit
      <3> QED
        BY <3>1, <3>2
    <2> QED
      BY <2>1 DEF TasksFit
  <1>3. Counted'
    <2>1. \A v \in Workers : N(v)' = N(v)
      BY DEF N
    <2> QED
      BY <2>1 DEF Counted, Workers
  <1>4. GoesAlone'
    BY DEF GoesAlone
  <1> QED
    BY <1>1, <1>2, <1>3, <1>4

\* Handlers.
LEMMA Executes ==
    ASSUME SocketInv,
           ExecuteOpening \/ ExecuteClosing \/ ExecuteText \/ ExecuteClose
    PROVE  SocketInv'
  <1> USE DEF SocketInv, socketVars, flagVars, writeVars, threadVars, peerVars, history
  <1>0. JobsTyped
    OBVIOUS
  <1>1. CASE ExecuteOpening
    <2> DEFINE w == "Opening"
    <2>1. /\ job[w].at = "execute" /\ w \in Workers
          /\ UNCHANGED <<mpm, object, open, deleting, closing, closeSent, closer, disconnects, opener,
                          reader, myWorkerCounter, inbox, onClose, closeFrames, closeReceived,
                          overtaken>>
      BY <1>1 DEF ExecuteOpening, Workers
    <2>2. onOpen = "none" /\ ~opener
      BY <2>1 DEF OpensOnce
    <2>3. PICK tasks \in Seq(Tasks) :
             /\ JobStep(w, "tasks", tasks) /\ tasks \in Seq(TasksOf(w)')
             /\ onOpen' # "none"
      <3>1. CASE onOpen' = "accepted" /\ Leaves(w, <<"OpenSuccess", "StartKeepAlive">>)
        <4>1. <<"OpenSuccess", "StartKeepAlive">> \in Seq(Tasks) /\ <<"OpenSuccess", "StartKeepAlive">> \in Seq({"OpenSuccess", "StartKeepAlive"})
          BY FewTasks DEF Tasks
        <4>2. TasksOf(w)' = {"OpenSuccess", "StartKeepAlive"}
          BY <3>1 DEF TasksOf
        <4> QED
          <5>1. JobStep(w, "tasks", <<"OpenSuccess", "StartKeepAlive">>)
            BY <3>1, <4>1, <2>1, <1>0, HandlerStep
          <5> QED
            BY <5>1, <3>1, <4>1, <4>2
      <3>2. CASE onOpen' = "accepted" /\ Leaves(w, <<"OpenSuccess">>)
        <4>1. <<"OpenSuccess">> \in Seq(Tasks) /\ <<"OpenSuccess">> \in Seq({"OpenSuccess", "StartKeepAlive"})
          BY FewTasks DEF Tasks
        <4>2. TasksOf(w)' = {"OpenSuccess", "StartKeepAlive"}
          BY <3>2 DEF TasksOf
        <4> QED
          <5>1. JobStep(w, "tasks", <<"OpenSuccess">>)
            BY <3>2, <4>1, <2>1, <1>0, HandlerStep
          <5> QED
            BY <5>1, <3>2, <4>1, <4>2
      <3>3. CASE onOpen' = "refused" /\ Leaves(w, <<"OpenError">>)
        <4>1. <<"OpenError">> \in Seq(Tasks) /\ <<"OpenError">> \in Seq({"OpenError"})
          BY FewTasks DEF Tasks
        <4>2. TasksOf(w)' = {"OpenError"}
          BY <3>3 DEF TasksOf
        <4> QED
          <5>1. JobStep(w, "tasks", <<"OpenError">>)
            BY <3>3, <4>1, <2>1, <1>0, HandlerStep
          <5> QED
            BY <5>1, <3>3, <4>1, <4>2
      <3>4. CASE onOpen' = "threw" /\ Throws(w)
        BY <3>4, <2>1, <1>0, NoTasks, HandlerStep
      <3> QED
        BY <1>1, <3>1, <3>2, <3>3, <3>4 DEF ExecuteOpening
    <2>4. JobsTyped' /\ TasksFit' /\ Counted' /\ GoesAlone'
      BY <2>1, <2>3, Working
    <2>5. OpensOnce' /\ EndsOnce'
      BY <2>1, <2>2, <2>3 DEF OpensOnce, EndsOnce, JobStep, Workers
    <2>6. FlagsRecord' /\ WritesOnce' /\ ClosingMeans' /\ HandshakeBeforeCut'
      <3>1. WritesOnce'
        BY <2>1, <2>2, <2>3, NotWriting DEF JobStep
      <3> QED
        BY <3>1, <2>1, <2>2 DEF FlagsRecord, ClosingMeans, HandshakeBeforeCut
    <2> QED
      BY <2>4, <2>5, <2>6
  <1>2. CASE ExecuteClosing
    <2> DEFINE w == "Closing"
    <2>1. /\ job[w].at = "execute" /\ w \in Workers /\ CallOnClose
          /\ UNCHANGED <<mpm, object, open, deleting, closeSent, closer, disconnects, opener, reader,
                          myWorkerCounter, inbox, onOpen, closeFrames, closeReceived, overtaken>>
      BY <1>2 DEF ExecuteClosing, Workers
    <2>2. JobStep(w, "tasks", <<>>) /\ <<>> \in Seq(TasksOf(w)')
      BY <1>2, <2>1, <1>0, NoTasks, HandlerStep DEF ExecuteClosing
    <2>3. JobsTyped' /\ TasksFit' /\ Counted' /\ GoesAlone'
      BY <2>1, <2>2, Working
    <2>4. OpensOnce'
      BY <2>1, <2>2 DEF OpensOnce, JobStep, Workers
    <2>5. EndsOnce'
      BY <2>1, <2>2 DEF EndsOnce, JobStep, Workers, CallOnClose
    <2>6. FlagsRecord' /\ WritesOnce' /\ ClosingMeans' /\ HandshakeBeforeCut'
      <3>1. WritesOnce'
        BY <2>1, <2>2, NotWriting DEF JobStep
      <3> QED
        BY <3>1, <2>1 DEF FlagsRecord, ClosingMeans, HandshakeBeforeCut, CallOnClose, EndsOnce
    <2> QED
      BY <2>3, <2>4, <2>5, <2>6
  <1>3. CASE ExecuteText
    <2> DEFINE w == "Receiving"
    <2>1. /\ job[w].at = "execute" /\ w \in Workers
          /\ UNCHANGED <<mpm, object, open, deleting, closing, closeSent, closer, disconnects, opener,
                          reader, myWorkerCounter, inbox, onOpen, onClose, closeFrames,
                          closeReceived, overtaken>>
      BY <1>3 DEF ExecuteText, Workers
    <2>2. PICK tasks \in {<<>>, <<"SendText">>, <<"SendClose">>} :
             Leaves(w, tasks) \/ (tasks = <<>> /\ Throws(w))
      BY <1>3 DEF ExecuteText
    <2>3. tasks \in Seq(Tasks) /\ tasks \in Seq({"SendText", "SendClose"})
      BY <2>2, NoTasks, FewTasks DEF Tasks
    <2>4. JobStep(w, "tasks", tasks) /\ tasks \in Seq(TasksOf(w)')
      BY <2>1, <2>2, <2>3, <1>0, HandlerStep DEF TasksOf
    <2>5. JobsTyped' /\ TasksFit' /\ Counted' /\ GoesAlone'
      BY <2>1, <2>4, Working
    <2>6. OpensOnce' /\ EndsOnce'
      BY <2>1, <2>4 DEF OpensOnce, EndsOnce, JobStep, Workers
    <2>7. FlagsRecord' /\ WritesOnce' /\ ClosingMeans' /\ HandshakeBeforeCut'
      <3>1. WritesOnce'
        BY <2>1, <2>4, NotWriting DEF JobStep
      <3> QED
        BY <3>1, <2>1 DEF FlagsRecord, ClosingMeans, HandshakeBeforeCut
    <2> QED
      BY <2>5, <2>6, <2>7
  <1>4. CASE ExecuteClose
    <2> DEFINE w == "Receiving"
    <2>1. /\ job[w].at = "execute" /\ w \in Workers /\ CallOnClose /\ closeReceived'
          /\ UNCHANGED <<mpm, object, open, deleting, closeSent, closer, disconnects, opener, reader,
                          myWorkerCounter, inbox, onOpen, closeFrames, overtaken>>
      BY <1>4 DEF ExecuteClose, Workers
    <2>2. PICK tasks \in {<<>>, <<"SendClose">>} :
             Leaves(w, tasks) \/ (tasks = <<>> /\ Throws(w))
      BY <1>4 DEF ExecuteClose
    <2>3. tasks \in Seq(Tasks) /\ tasks \in Seq({"SendText", "SendClose"})
      BY <2>2, NoTasks, FewTasks DEF Tasks
    <2>4. JobStep(w, "tasks", tasks) /\ tasks \in Seq(TasksOf(w)')
      BY <2>1, <2>2, <2>3, <1>0, HandlerStep DEF TasksOf
    <2>5. JobsTyped' /\ TasksFit' /\ Counted' /\ GoesAlone'
      BY <2>1, <2>4, Working
    <2>6. OpensOnce'
      BY <2>1, <2>4 DEF OpensOnce, JobStep, Workers
    <2>7. EndsOnce'
      BY <2>1, <2>4 DEF EndsOnce, JobStep, Workers, CallOnClose
    <2>8. FlagsRecord' /\ WritesOnce' /\ ClosingMeans' /\ HandshakeBeforeCut'
      <3>1. WritesOnce'
        BY <2>1, <2>4, NotWriting DEF JobStep
      <3> QED
        BY <3>1, <2>1 DEF FlagsRecord, ClosingMeans, HandshakeBeforeCut, CallOnClose
    <2> QED
      BY <2>5, <2>6, <2>7, <2>8
  <1> QED
    BY <1>1, <1>2, <1>3, <1>4

\* Tasks: only the opening worker of an endpoint that refuses cuts the connection at
\* once; SendClose does so when closing and closeSent are both set.
LEMMA RunsTask ==
    ASSUME SocketInv, NEW w \in Workers, RunTask(w)
    PROVE  SocketInv'
  <1> USE DEF SocketInv, socketVars, threadVars
  <1> DEFINE tasks == job[w].tasks
  <1>0. JobsTyped
    OBVIOUS
  <1>1. /\ job[w].at = "tasks" /\ tasks # <<>>
        /\ UNCHANGED <<mpm, object, open, deleting, opener, reader, closer, myWorkerCounter,
                        inbox, onOpen, onClose, closeReceived, overtaken>>
    BY DEF RunTask
  <1>2. tasks \in Seq(TasksOf(w)) /\ TasksOf(w)' = TasksOf(w)
    BY <1>1 DEF TasksFit, TasksOf
  <1>3. Head(tasks) \in TasksOf(w) /\ Tail(tasks) \in Seq(TasksOf(w)')
    BY <1>1, <1>2
  <1>4. PICK at \in {"tasks", "exchange"}, rest \in Seq(TasksOf(w)') :
           /\ JobStep(w, at, rest)
           /\ at = "exchange" => w # "Opening" /\ rest # <<>>
    <2>1. CASE \E sends \in BOOLEAN : TaskDone(w, sends)
      <3>1. JobStep(w, "tasks", Tail(tasks))
        BY <1>0, <1>1, <2>1, TaskStep
      <3> QED
        BY <3>1, <1>3
    <2>2. CASE Head(tasks) = "SendClose" /\ job' = [job EXCEPT ![w].at = "exchange"]
      <3>1. JobStep(w, "exchange", tasks)
        BY <1>0, <2>2, AtStep
      <3>2. w # "Opening"
        BY <1>3, <2>2 DEF TasksOf
      <3> QED
        BY <3>1, <3>2, <1>1, <1>2
    <2> QED
      BY <2>1, <2>2 DEF RunTask, OpenSuccess, OpenError, SendText, SendClose, StartKeepAlive,
                        DisconnectOrSendClose
  <1>5. at # "none"
    OBVIOUS
  <1>6. JobsTyped' /\ TasksFit' /\ Counted' /\ GoesAlone'
    BY <1>1, <1>3, <1>4, <1>5, Working
  <1>7. OpensOnce'
    BY <1>1, <1>4 DEF OpensOnce, JobStep, Workers
  <1>8. /\ closing' = closing \/ (closing' /\ onOpen = "refused")
        /\ closing => closing'
        /\ closeSent' = closeSent \/ (closeSent' /\ onOpen = "refused")
        /\ closeFrames' = closeFrames
        /\ disconnects' => \/ disconnects \/ onOpen = "refused"
                           \/ closing /\ closeSent /\ w # "Opening"
    <2>1. CASE OpenSuccess(w)
      BY <2>1, <1>1 DEF OpenSuccess
    <2>2. CASE OpenError(w) /\ Head(tasks) = "OpenError"
      <3>1. onOpen = "refused"
        BY <2>2, <1>3 DEF TasksOf
      <3> QED
        BY <2>2, <3>1, <1>1 DEF OpenError
    <2>3. CASE SendText(w)
      BY <2>3, <1>1 DEF SendText
    <2>4. CASE SendClose(w) /\ Head(tasks) = "SendClose"
      <3>1. w # "Opening"
        BY <1>3, <2>4 DEF TasksOf
      <3> QED
        <4>1. CASE closing /\ closeSent /\ UNCHANGED <<closing, closeSent, closeFrames>>
          BY <4>1, <3>1
        <4>2. CASE UNCHANGED <<closing, closeSent, closeFrames, disconnects>>
          BY <4>2
        <4> QED
          BY <2>4, <4>1, <4>2 DEF SendClose, DisconnectOrSendClose
    <2>5. CASE StartKeepAlive(w)
      BY <2>5, <1>1 DEF StartKeepAlive
    <2> QED
      BY <2>1, <2>2, <2>3, <2>4, <2>5 DEF RunTask
  <1>9. EndsOnce'
    BY <1>1, <1>4, <1>8 DEF EndsOnce, JobStep, Workers
  <1>10. FlagsRecord' /\ ClosingMeans'
    BY <1>1, <1>8 DEF FlagsRecord, ClosingMeans
  <1>11. WritesOnce'
    <2>1. /\ closeSent => closeSent'
          /\ closeSent' => closeSent \/ onOpen = "refused"
      BY <1>8
    <2>2. /\ \A v \in Workers : job'[v].at = "write" => job[v].at = "write" /\ v # w
          /\ job["Receiving"].at = "write" => job'["Receiving"].at = "write"
      BY <1>1, <1>4 DEF JobStep, Workers
    <2>3. \A v \in Workers : job'[v].at \in {"exchange", "write"} =>
                               v # "Opening" /\ job'[v].tasks # <<>>
      BY <1>4 DEF JobStep, WritesOnce
    <2> QED
      BY <1>1, <1>8, <2>1, <2>2, <2>3 DEF WritesOnce
  <1>12. HandshakeBeforeCut'
    <2>1. CASE disconnects \/ onOpen = "refused" \/ ~disconnects' \/ deleting
      BY <2>1, <1>1, <1>8 DEF HandshakeBeforeCut
    <2>2. CASE closing /\ closeSent /\ w # "Opening" /\ ~deleting /\ onOpen # "refused"
      <3>1. w = "Receiving"
        BY <1>1, <2>2 DEF EndsOnce, Workers
      <3>2. closeReceived /\ onClose = 1 /\ (closeFrames = 1 \/ closer)
        BY <2>2, <3>1, <1>1 DEF ClosingMeans, WritesOnce
      <3> QED
        BY <3>2, <1>1, <1>8 DEF HandshakeBeforeCut
    <2> QED
      BY <2>1, <2>2, <1>8
  <1> QED
    BY <1>6, <1>7, <1>9, <1>10, <1>11, <1>12

\* sendClose() of a task raises closeSent ...
LEMMA Exchanges ==
    ASSUME SocketInv, NEW w \in Workers, ExchangeCloseSent(w)
    PROVE  SocketInv'
  <1> USE DEF SocketInv, socketVars, writeVars, threadVars, peerVars, history
  <1>0. JobsTyped
    OBVIOUS
  <1>1. /\ job[w].at = "exchange" /\ closeSent'
        /\ UNCHANGED <<mpm, object, open, deleting, closing, closer, disconnects, opener, reader,
                        myWorkerCounter, inbox, onOpen, onClose, closeFrames, closeReceived,
                        overtaken>>
    BY DEF ExchangeCloseSent
  <1>2. w # "Opening" /\ job[w].tasks # <<>> /\ job[w].tasks \in Seq(TasksOf(w))
        /\ TasksOf(w)' = TasksOf(w)
    BY <1>1 DEF WritesOnce, TasksFit, TasksOf
  <1>3. PICK at \in {"tasks", "write"}, rest \in Seq(TasksOf(w)') :
           /\ JobStep(w, at, rest)
           /\ at = "write" => ~closeSent /\ rest # <<>>
           /\ at = "tasks" => closeSent
    <2>1. CASE closeSent /\ TaskDone(w, TRUE)
      <3>1. JobStep(w, "tasks", Tail(job[w].tasks))
        BY <1>0, <1>2, <2>1, TaskStep
      <3>2. Tail(job[w].tasks) \in Seq(TasksOf(w)')
        BY <1>2
      <3> QED
        BY <3>1, <3>2, <2>1
    <2>2. CASE ~closeSent /\ job' = [job EXCEPT ![w].at = "write"]
      <3>1. JobStep(w, "write", job[w].tasks)
        BY <1>0, <2>2, AtStep
      <3> QED
        BY <3>1, <1>2, <2>2
    <2> QED
      BY <2>1, <2>2 DEF ExchangeCloseSent
  <1>4. at # "none"
    OBVIOUS
  <1>5. JobsTyped' /\ TasksFit' /\ Counted' /\ GoesAlone'
    BY <1>1, <1>3, <1>4, Working
  <1>6. OpensOnce' /\ EndsOnce'
    BY <1>1, <1>2, <1>3 DEF OpensOnce, EndsOnce, JobStep, Workers
  <1>7. FlagsRecord' /\ ClosingMeans' /\ HandshakeBeforeCut'
    BY <1>1 DEF FlagsRecord, ClosingMeans, HandshakeBeforeCut
  <1>8. WritesOnce'
    <2>1. CASE at = "write"
      <3>1. /\ \A v \in Workers : job[v].at # "write"
            /\ closeFrames = 0 /\ ~closer
        BY <2>1, <1>3 DEF WritesOnce, FlagsRecord
      <3>2. w = "Receiving" \/ deleting
        BY <1>1, <1>2 DEF EndsOnce, Workers
      <3>3. \A v \in Workers : job'[v].at = "write" <=> v = w
        BY <2>1, <1>3, <3>1 DEF JobStep
      <3> QED
        BY <1>1, <1>2, <1>3, <2>1, <3>1, <3>2, <3>3 DEF WritesOnce, JobStep, Workers
    <2>2. CASE at = "tasks"
      <3>1. \A v \in Workers : job'[v].at = "write" <=> job[v].at = "write"
        BY <2>2, <1>1, <1>3 DEF JobStep
      <3>2. \A v \in Workers : job'[v].at \in {"exchange", "write"} => job'[v] = job[v]
        BY <2>2, <1>3 DEF JobStep
      <3>3. "Receiving" \in Workers
        BY DEF Workers
      <3> QED
        BY <1>1, <1>3, <2>2, <3>1, <3>2, <3>3 DEF WritesOnce
    <2> QED
      BY <2>1, <2>2
  <1> QED
    BY <1>5, <1>6, <1>7, <1>8

\* ... and writes the frame, which is the only one.
LEMMA WritesFrame ==
    ASSUME SocketInv, NEW w \in Workers, SendCloseFrame(w)
    PROVE  SocketInv'
  <1> USE DEF SocketInv, socketVars, flagVars, threadVars
  <1>0. JobsTyped
    OBVIOUS
  <1>1. /\ job[w].at = "write" /\ TaskDone(w, TRUE) /\ WriteClose
        /\ UNCHANGED <<mpm, object, open, deleting, closing, closeSent, closer, disconnects,
                        opener, reader, myWorkerCounter, inbox, onOpen, onClose, closeReceived,
                        overtaken>>
    BY DEF SendCloseFrame
  <1>2. /\ w # "Opening" /\ job[w].tasks # <<>> /\ job[w].tasks \in Seq(TasksOf(w))
        /\ TasksOf(w)' = TasksOf(w)
        /\ closeSent /\ closeFrames = 0 /\ ~closer
        /\ \A v \in Workers : job[v].at = "write" => v = w
    BY <1>1 DEF WritesOnce, TasksFit, TasksOf
  <1>3. JobStep(w, "tasks", Tail(job[w].tasks)) /\ Tail(job[w].tasks) \in Seq(TasksOf(w)')
    <2>1. JobStep(w, "tasks", Tail(job[w].tasks))
      BY <1>0, <1>1, <1>2, TaskStep
    <2> QED
      BY <1>2, <2>1
  <1>4. closeFrames' = IF deleting THEN 0 ELSE 1
    BY <1>1, <1>2 DEF WriteClose
  <1>5. JobsTyped' /\ TasksFit' /\ Counted' /\ GoesAlone'
    BY <1>1, <1>3, Working
  <1>6. OpensOnce' /\ EndsOnce'
    BY <1>1, <1>2, <1>3 DEF OpensOnce, EndsOnce, JobStep, Workers
  <1>7. FlagsRecord' /\ ClosingMeans' /\ HandshakeBeforeCut'
    BY <1>1, <1>2, <1>4 DEF FlagsRecord, ClosingMeans, HandshakeBeforeCut
  <1>8. WritesOnce'
    <2>1. \A v \in Workers : job'[v].at # "write"
      BY <1>2, <1>3 DEF JobStep
    <2>2. \A v \in Workers : job'[v].at \in {"exchange", "write"} => job'[v] = job[v]
      BY <1>3 DEF JobStep
    <2> QED
      BY <1>1, <1>2, <1>4, <2>1, <2>2 DEF WritesOnce
  <1> QED
    BY <1>5, <1>6, <1>7, <1>8

\* The next payload, or the end of the worker.
LEMMA EndsTasks ==
    ASSUME SocketInv, NEW w \in Workers, EndOfTasks(w)
    PROVE  SocketInv'
  <1> USE DEF SocketInv, socketVars, flagVars, threadVars, peerVars, history
  <1> DEFINE fin == [NoJob EXCEPT !.at = "finished"]
             next == IF Len(job[w].payloads) > 1 THEN Job(Tail(job[w].payloads)) ELSE fin
  <1>1. /\ job[w].at = "tasks" /\ job' = [job EXCEPT ![w] = next]
        /\ UNCHANGED <<mpm, object, open, deleting, closing, closeSent, closer, disconnects, opener,
                        reader, myWorkerCounter, inbox, onOpen, onClose, closeFrames,
                        closeReceived, overtaken>>
    BY DEF EndOfTasks, JobsTyped
  <1>2. job \in [Workers -> JobType] /\ job[w].payloads \in Seq(Frames)
    BY DEF JobsTyped, JobType
  <1>3. fin.at = "finished" /\ fin.tasks = <<>> /\ fin.payloads = <<>> /\ fin \in JobType
    BY JobFacts DEF NoJob
  <1>4. /\ next \in JobType /\ next.tasks = <<>>
        /\ next.at \notin {"none", "exchange", "write"}
    <2>1. CASE Len(job[w].payloads) > 1
      <3>1. Tail(job[w].payloads) \in Seq(Frames)
        BY <1>2, <2>1
      <3> HIDE DEF fin
      <3> QED
        BY <2>1, <3>1, JobFacts, JobFields
    <2>2. CASE ~(Len(job[w].payloads) > 1)
      BY <2>2, <1>3
    <2> QED
      BY <2>1, <2>2
  <1>5. w = "Opening" => next.at = "finished" /\ next.payloads = <<>>
    BY <1>3 DEF OpensOnce
  <1> HIDE DEF next
  <1>6. /\ job' \in [Workers -> JobType] /\ job'[w] = next
        /\ \A v \in Workers \ {w} : job'[v] = job[v]
    BY <1>1, <1>2, <1>4
  <1>7. JobsTyped'
    BY <1>1, <1>6 DEF JobsTyped
  <1>8. TasksFit'
    <2>1. \A v : TasksOf(v)' = TasksOf(v)
      BY <1>1 DEF TasksOf
    <2> QED
      BY <2>1, <1>4, <1>6, NoTasks DEF TasksFit
  <1>9. Counted'
    <2>1. \A v \in Workers : N(v)' = N(v)
      BY <1>1, <1>4, <1>6 DEF N
    <2> QED
      BY <2>1, <1>1 DEF Counted, Workers
  <1>10. OpensOnce'
    BY <1>1, <1>5, <1>6 DEF OpensOnce, Workers
  <1>11. EndsOnce' /\ GoesAlone'
    BY <1>1, <1>4, <1>6 DEF EndsOnce, GoesAlone, Workers
  <1>12. FlagsRecord' /\ WritesOnce' /\ ClosingMeans' /\ HandshakeBeforeCut'
    <2>1. WritesOnce'
      BY <1>1, <1>4, <1>6, NotWriting
    <2> QED
      BY <2>1, <2>1, <1>1 DEF FlagsRecord, ClosingMeans, HandshakeBeforeCut
  <1> QED
    BY <1>7, <1>8, <1>9, <1>10, <1>11, <1>12

\* releaseWorker() counts the worker down that has gone.
LEMMA Releases ==
    ASSUME SocketInv, NEW w \in Workers, ReleaseWorker(w)
    PROVE  SocketInv'
  <1> USE DEF SocketInv, flagVars, writeVars, peerVars, history
  <1>1. /\ job[w].at = "finished" /\ job' = [job EXCEPT ![w] = NoJob]
        /\ myWorkerCounter' = myWorkerCounter - 1
        /\ UNCHANGED <<mpm, object, open, deleting, closing, closeSent, closer, disconnects, opener,
                        reader, inbox, onOpen, onClose, closeFrames, closeReceived, overtaken>>
    BY DEF ReleaseWorker
  <1>2. /\ job' \in [Workers -> JobType] /\ job'[w] = NoJob
        /\ \A v \in Workers \ {w} : job'[v] = job[v]
    BY <1>1, JobFacts DEF JobsTyped
  <1>3. JobsTyped'
    BY <1>1, <1>2 DEF JobsTyped
  <1>4. TasksFit'
    <2>1. \A v : TasksOf(v)' = TasksOf(v)
      BY <1>1 DEF TasksOf
    <2> QED
      BY <2>1, <1>2, NoTasks, JobFields DEF TasksFit
  <1>5. Counted'
    <2>1. N(w) = 1 /\ N(w)' = 0 /\ \A v \in Workers \ {w} : N(v)' = N(v)
      BY <1>1, <1>2, JobFields DEF N
    <2>2. \A v \in Workers : N(v) \in {0, 1}
      BY DEF N
    <2> QED
      BY <2>1, <2>2, <1>1 DEF Counted, Workers
  <1>6. OpensOnce' /\ EndsOnce' /\ GoesAlone'
    BY <1>1, <1>2, JobFields DEF OpensOnce, EndsOnce, GoesAlone, Workers
  <1>7. FlagsRecord' /\ WritesOnce' /\ ClosingMeans' /\ HandshakeBeforeCut'
    <2>1. WritesOnce'
      BY <1>1, <1>2, JobFields, NotWriting
    <2> QED
      BY <2>1, <2>1, <1>1 DEF FlagsRecord, ClosingMeans, HandshakeBeforeCut
  <1> QED
    BY <1>3, <1>4, <1>5, <1>6, <1>7

-----------------------------------------------------------------------------
(* The opening and the closing worker, and the deletion.                    *)

\* A worker without payloads is started where there is none.
LEMMA Starts ==
    ASSUME SocketInv, NEW w \in Workers, job[w].at = "none", startWorker(w, <<>>),
           UNCHANGED <<inbox, onOpen>>
    PROVE  /\ JobsTyped' /\ TasksFit' /\ Counted'
           /\ job'[w].at = "execute" /\ job'[w].payloads = <<>>
           /\ \A v \in Workers \ {w} : job'[v] = job[v]
  <1> USE DEF SocketInv
  <1>1. Job(<<>>) \in JobType /\ Job(<<>>).at = "execute"
        /\ Job(<<>>).payloads = <<>> /\ Job(<<>>).tasks = <<>>
    BY JobFacts, JobFields, NoTasks
  <1>2. /\ job' \in [Workers -> JobType] /\ job'[w] = Job(<<>>)
        /\ \A v \in Workers \ {w} : job'[v] = job[v]
    BY <1>1 DEF startWorker, JobsTyped
  <1>3. JobsTyped'
    BY <1>2 DEF JobsTyped
  <1>4. TasksFit'
    <2>1. \A v : TasksOf(v)' = TasksOf(v)
      BY DEF TasksOf
    <2> QED
      BY <2>1, <1>1, <1>2, NoTasks DEF TasksFit
  <1>5. Counted'
    <2>1. N(w) = 0 /\ N(w)' = 1 /\ \A v \in Workers \ {w} : N(v)' = N(v)
      BY <1>1, <1>2 DEF N
    <2>2. \A v \in Workers : N(v) \in {0, 1}
      BY DEF N
    <2> QED
      BY <2>1, <2>2 DEF Counted, Workers, startWorker
  <1> QED
    BY <1>1, <1>2, <1>3, <1>4, <1>5

\* The action thread starts the opening worker.
LEMMA Opens ==
    ASSUME SocketInv, startWorkerForOpening
    PROVE  SocketInv'
  <1> USE DEF SocketInv, flagVars, writeVars, peerVars, history
  <1>1. /\ opener /\ ~opener' /\ startWorker("Opening", <<>>)
        /\ UNCHANGED <<mpm, object, open, deleting, closing, closeSent, closer, disconnects, reader,
                        inbox, onOpen, onClose, closeFrames, closeReceived, overtaken>>
    BY DEF startWorkerForOpening
  <1>2. "Opening" \in Workers /\ job["Opening"].at = "none" /\ onOpen = "none"
    BY <1>1 DEF OpensOnce, Workers
  <1>3. /\ JobsTyped' /\ TasksFit' /\ Counted'
        /\ job'["Opening"].at = "execute" /\ job'["Opening"].payloads = <<>>
        /\ \A v \in Workers \ {"Opening"} : job'[v] = job[v]
    BY <1>1, <1>2, Starts
  <1>4. OpensOnce' /\ EndsOnce' /\ GoesAlone'
    BY <1>1, <1>2, <1>3 DEF OpensOnce, EndsOnce, GoesAlone, Workers
  <1>5. FlagsRecord' /\ WritesOnce' /\ ClosingMeans' /\ HandshakeBeforeCut'
    <2>1. WritesOnce'
      BY <1>1, <1>2, <1>3, NotWriting
    <2> QED
      BY <2>1, <2>1, <1>1 DEF FlagsRecord, ClosingMeans, HandshakeBeforeCut
  <1> QED
    BY <1>3, <1>4, <1>5

\* The counter is zero when there is no worker.
LEMMA NoneCounted ==
    ASSUME Counted, myWorkerCounter = 0
    PROVE  \A w \in Workers : job[w].at = "none"
  BY DEF Counted, N, Workers

\* deleteLater() called again: the object goes if no worker has it.
LEMMA Dooms ==
    ASSUME SocketInv, NEW overtaking, Doom(overtaking),
           deleting, closing \/ reader' = reader, opener \/ reader' = "closing" => overtaking,
           overtaken \/ object = "live" \/ (reader # "closing" /\ reader' = reader),
           UNCHANGED <<mpm, open, deleting, closing, closeSent, closer, disconnects, opener,
                       myWorkerCounter, job, inbox, onOpen, onClose, closeFrames,
                       closeReceived>>,
           reader' = "closing" => reader = "closing"
    PROVE  SocketInv'
  <1> USE DEF SocketInv
  <1>1. JobsTyped' /\ TasksFit' /\ Counted'
    BY DEF JobsTyped, TasksFit, TasksOf, Counted, N
  <1>2. OpensOnce' /\ EndsOnce'
    BY DEF OpensOnce, EndsOnce, Doom
  <1>3. GoesAlone'
    <2>1. CASE myWorkerCounter = 0
      BY <2>1, NoneCounted DEF GoesAlone, Doom
    <2>2. CASE myWorkerCounter # 0
      BY <2>2 DEF GoesAlone, Doom
    <2> QED
      BY <2>1, <2>2
  <1>4. FlagsRecord' /\ WritesOnce' /\ ClosingMeans' /\ HandshakeBeforeCut'
    BY DEF FlagsRecord, WritesOnce, ClosingMeans, HandshakeBeforeCut
  <1> QED
    BY <1>1, <1>2, <1>3, <1>4

\* The first call of deleteLater() starts the closing worker or deletes at once.
LEMMA Closes ==
    ASSUME SocketInv, startWorkerForClosing
    PROVE  SocketInv'
  <1> USE DEF SocketInv, flagVars, writeVars, peerVars
  <1>1. /\ reader = "closing" /\ reader' = "idle"
        /\ UNCHANGED <<mpm, open, deleting, closing, closeSent, closer, disconnects, opener, inbox,
                        onOpen, onClose, closeFrames, closeReceived>>
    BY DEF startWorkerForClosing
  <1>2. "Closing" \in Workers /\ deleting /\ job["Closing"].at = "none"
    BY <1>1 DEF EndsOnce, Workers
  <1>3. object = "live" \/ overtaken
    BY <1>1 DEF GoesAlone
  <1>4. CASE startWorker("Closing", <<>>) /\ UNCHANGED <<object, overtaken>>
    <2>1. /\ JobsTyped' /\ TasksFit' /\ Counted'
          /\ job'["Closing"].at = "execute" /\ job'["Closing"].payloads = <<>>
          /\ \A v \in Workers \ {"Closing"} : job'[v] = job[v]
      BY <1>1, <1>2, <1>4, Starts
    <2>2. OpensOnce' /\ EndsOnce' /\ GoesAlone'
      BY <1>1, <1>2, <1>3, <1>4, <2>1 DEF OpensOnce, EndsOnce, GoesAlone, Workers
    <2>3. FlagsRecord' /\ WritesOnce' /\ ClosingMeans' /\ HandshakeBeforeCut'
      <3>1. WritesOnce'
        BY <1>1, <1>2, <2>1, NotWriting
      <3> QED
        BY <3>1, <1>1 DEF FlagsRecord, ClosingMeans, HandshakeBeforeCut
    <2> QED
      BY <2>1, <2>2, <2>3
  <1>5. CASE closing /\ Doom(opener) /\ UNCHANGED <<job, myWorkerCounter>>
    BY <1>1, <1>2, <1>3, <1>5, Dooms
  <1> QED
    BY <1>4, <1>5 DEF startWorkerForClosing

\* The second half of releaseWorker().
LEMMA ReleasesSocket ==
    ASSUME SocketInv, ReleaseSocket
    PROVE  SocketInv'
  <1> USE DEF SocketInv, flagVars, writeVars, peerVars, history
  <1>1. UNCHANGED <<mpm, closing, closeSent, closer, disconnects, opener, onOpen, onClose, closeFrames,
                    closeReceived>>
    BY DEF ReleaseSocket
  <1>2. inbox \in Seq(Frames) /\ <<>> \in Seq(Frames)
    BY NoTasks DEF JobsTyped
  <1>3. CASE /\ deleting /\ Doom(opener \/ reader = "closing")
             /\ UNCHANGED <<open, deleting, myWorkerCounter, reader, job, inbox>>
    <2>1. overtaken \/ object = "live" \/ reader # "closing"
      BY DEF GoesAlone
    <2> QED
      BY <1>1, <1>3, <2>1, Dooms
  <1>4. CASE UNCHANGED <<object, open, deleting, myWorkerCounter, reader, job, inbox, overtaken>>
    BY <1>1, <1>2, <1>4, Untouched
  <1>5. CASE /\ ~deleting /\ Delete /\ inbox' = <<>>
             /\ UNCHANGED <<job, myWorkerCounter, object, overtaken>>
    BY <1>1, <1>2, <1>5, GivenUp
  <1>6. CASE /\ ~deleting /\ myWorkerCounter = 0 /\ Read
             /\ UNCHANGED <<open, deleting, reader, object, overtaken>>
    BY <1>1, <1>6, Reads
  <1> QED
    BY <1>3, <1>4, <1>5, <1>6 DEF ReleaseSocket

\* Deferred deletion.
LEMMA Frees ==
    ASSUME SocketInv, Free
    PROVE  SocketInv'
  <1> USE DEF SocketInv, flagVars, threadVars, peerVars, history
  <1>1. /\ object = "doomed" /\ object' = "freed" /\ ~open'
        /\ UNCHANGED <<mpm, deleting, closing, closeSent, closer, disconnects, opener, reader,
                        myWorkerCounter, job, inbox, onOpen, onClose, closeFrames,
                        closeReceived, overtaken>>
    BY DEF Free
  <1>2. JobsTyped' /\ TasksFit' /\ Counted'
    BY <1>1 DEF JobsTyped, TasksFit, TasksOf, Counted, N
  <1>3. OpensOnce' /\ EndsOnce' /\ GoesAlone'
    BY <1>1 DEF OpensOnce, EndsOnce, GoesAlone
  <1>4. FlagsRecord' /\ WritesOnce' /\ ClosingMeans' /\ HandshakeBeforeCut'
    BY <1>1 DEF FlagsRecord, WritesOnce, ClosingMeans, HandshakeBeforeCut
  <1> QED
    BY <1>2, <1>3, <1>4

\* closeSocket() of another socket's worker.
LEMMA ClosedByOthers ==
    ASSUME SocketInv, CloseSocket \/ CloseSocketWrites
    PROVE  SocketInv'
  <1> USE DEF SocketInv, socketVars, flagVars, writeVars, peerVars, history
  <1>1. /\ closeSent'
        /\ UNCHANGED <<mpm, object, open, deleting, closing, disconnects, opener, reader,
                        myWorkerCounter, job, inbox, onOpen, onClose, closeReceived, overtaken>>
    BY DEF CloseSocket, CloseSocketWrites, WritesOnce
  <1>2. JobsTyped' /\ TasksFit' /\ Counted'
    BY <1>1 DEF JobsTyped, TasksFit, TasksOf, Counted, N
  <1>3. OpensOnce' /\ EndsOnce' /\ GoesAlone'
    BY <1>1 DEF OpensOnce, EndsOnce, GoesAlone
  <1>4. CASE CloseSocket
    <2>1. closer' /\ ~closeSent /\ closeFrames' = closeFrames
      BY <1>4 DEF CloseSocket
    <2>2. closeFrames = 0 /\ \A w \in Workers : job[w].at # "write"
      BY <2>1 DEF FlagsRecord, WritesOnce
    <2>3. FlagsRecord' /\ WritesOnce' /\ ClosingMeans' /\ HandshakeBeforeCut'
      BY <1>1, <2>1, <2>2 DEF FlagsRecord, WritesOnce, ClosingMeans, HandshakeBeforeCut
    <2> QED
      BY <1>2, <1>3, <2>3
  <1>5. CASE CloseSocketWrites
    <2>1. ~closer' /\ closer /\ closeSent /\ closeFrames = 0
      BY <1>5 DEF CloseSocketWrites, WritesOnce
    <2>2. closeFrames' = IF deleting THEN 0 ELSE 1
      BY <1>5, <2>1 DEF CloseSocketWrites, WriteClose
    <2>3. \A w \in Workers : job[w].at # "write"
      BY <2>1 DEF WritesOnce
    <2>4. FlagsRecord' /\ WritesOnce' /\ ClosingMeans' /\ HandshakeBeforeCut'
      BY <1>1, <2>1, <2>2, <2>3 DEF FlagsRecord, WritesOnce, ClosingMeans, HandshakeBeforeCut
    <2> QED
      BY <1>2, <1>3, <2>4
  <1> QED
    BY <1>4, <1>5

\* Every step of the reading thread.
LEMMA ReaderSteps ==
    ASSUME SocketInv, ReaderStep
    PROVE  SocketInv'
  <1> USE DEF flagVars, socketVars, writeVars, threadVars, peerVars, history
  <1>0. inbox \in Seq(Frames) /\ <<>> \in Seq(Frames) /\ (open => ~deleting)
    BY NoTasks DEF SocketInv, JobsTyped, EndsOnce
  <1>1. CASE Receive
    <2>1. ~deleting /\ myWorkerCounter = 0 /\ Read
      BY <1>0, <1>1 DEF Receive, MayRead
    <2> QED
      BY <1>1, <2>1, Reads DEF Receive
  <1>2. CASE ReceiveFails
    BY <1>0, <1>2, GivenUp DEF ReceiveFails
  <1>3. CASE Disconnected
    BY <1>0, <1>3, GivenUp DEF Disconnected
  <1>4. CASE HasWorker
    BY <1>0, <1>4, Untouched DEF HasWorker
  <1>5. CASE SetPollIn
    BY <1>0, <1>5, Untouched DEF SetPollIn
  <1>6. CASE SendAll
    BY <1>0, <1>6, Untouched DEF SendAll
  <1>7. CASE SendFails
    BY <1>0, <1>7, GivenUp DEF SendFails
  <1>8. CASE Disconnect /\ open
    BY <1>0, <1>8, GivenUp DEF Disconnect
  <1>9. CASE Disconnect /\ ~open
    <2>1. /\ inbox' \in Seq(Frames) /\ ~disconnects'
          /\ UNCHANGED <<mpm, object, open, deleting, closing, closeSent, closer, opener, reader,
                          myWorkerCounter, job, onOpen, onClose, closeFrames, closeReceived,
                          overtaken>>
      BY <1>0, <1>9 DEF Disconnect
    <2> USE DEF SocketInv
    <2>2. JobsTyped' /\ TasksFit' /\ Counted'
      BY <2>1 DEF JobsTyped, TasksFit, TasksOf, Counted, N
    <2>3. OpensOnce' /\ EndsOnce' /\ GoesAlone'
      BY <2>1 DEF OpensOnce, EndsOnce, GoesAlone
    <2>4. FlagsRecord' /\ WritesOnce' /\ ClosingMeans' /\ HandshakeBeforeCut'
      BY <2>1 DEF FlagsRecord, WritesOnce, ClosingMeans, HandshakeBeforeCut
    <2> QED
      BY <2>2, <2>3, <2>4
  <1>10. CASE startWorkerForClosing
    BY <1>10, Closes
  <1> QED
    BY <1>1, <1>2, <1>3, <1>4, <1>5, <1>6, <1>7, <1>8, <1>9, <1>10 DEF ReaderStep

\* Every step preserves the invariant.
LEMMA NextSocket == SocketInv /\ [Next]_vars => SocketInv'
  <1> SUFFICES ASSUME SocketInv, [Next]_vars PROVE SocketInv'
    OBVIOUS
  <1> USE DEF flagVars, socketVars, writeVars, threadVars, peerVars, history
  <1>0. inbox \in Seq(Frames)
    BY DEF SocketInv, JobsTyped
  <1>1. CASE ReaderStep
    BY <1>1, ReaderSteps
  <1>2. ASSUME NEW w \in Workers, WorkerStep(w) PROVE SocketInv'
    BY <1>2, Executes, RunsTask, Exchanges, WritesFrame, EndsTasks DEF WorkerStep
  <1>3. CASE MainStep
    BY <1>3, ReleasesSocket, Frees, Releases DEF MainStep
  <1>4. CASE startWorkerForOpening
    BY <1>4, Opens
  <1>5. CASE Ping
    BY <1>0, <1>5, Untouched DEF Ping
  <1>6. CASE CloseSocket \/ CloseSocketWrites
    BY <1>6, ClosedByOthers
  <1>7. CASE PeerHangsUp
    BY <1>0, <1>7, Untouched DEF PeerHangsUp
  <1>8. ASSUME NEW frame \in Frames, PeerSends(frame) PROVE SocketInv'
    <2>1. inbox' \in Seq(Frames)
      BY <1>0, <1>8 DEF PeerSends
    <2> QED
      BY <1>8, <2>1, Untouched DEF PeerSends
  <1>9. CASE UNCHANGED vars
    BY <1>0, <1>9, Untouched DEF vars
  <1> QED
    BY <1>1, <1>2, <1>3, <1>4, <1>5, <1>6, <1>7, <1>8, <1>9 DEF Next

-----------------------------------------------------------------------------
\* The invariant holds of every behaviour.
LEMMA SocketInvariant == Spec => []SocketInv
  <1> QED
    BY InitSocket, NextSocket, PTL DEF Spec

\* However the endpoint, the peer's Close frame, the end of the connection and other
\* sockets race to close, onClose() is called at most once and one Close frame sent.
THEOREM SocketClosesOnce == Spec => []CloseOnce
  <1>1. SocketInv => CloseOnce
    BY DEF SocketInv, FlagsRecord, CloseOnce
  <1> QED
    BY <1>1, SocketInvariant, PTL

\* disconnect() follows a refusal, or the peer's Close frame, onClose() and the
\* server's own Close frame; the frame may be late only if it is the one of another
\* socket's closeSocket(), in the moment between its exchange of closeSent and its
\* write.
THEOREM SocketHandshakeBeforeCut == Spec => []HandshakeBeforeCut
  <1>1. SocketInv => HandshakeBeforeCut
    BY DEF SocketInv
  <1> QED
    BY <1>1, SocketInvariant, PTL

\* Under epoll onOpen() returns before the first payload is handed over.
THEOREM SocketOpensBeforePayload == Spec => []OpenBeforePayload
  <1>1. SocketInv => OpenBeforePayload
    BY DEF SocketInv, OpensOnce, OpenBeforePayload
  <1> QED
    BY <1>1, SocketInvariant, PTL

\* An object that deleteLater() does not overtake goes when no worker has it any more
\* and its endpoint has seen onClose(): the destructor's warning is not logged for it.
THEOREM SocketGoesClosed == Spec => []GoesClosed
  <1>1. ASSUME SocketInv PROVE GoesClosed
    <2>1. SUFFICES ASSUME object # "live", ~overtaken
                   PROVE  /\ \A w \in Workers : job[w].at = "none"
                          /\ closing /\ (onOpen # "refused" => onClose = 1)
      BY DEF GoesClosed
    <2>2. reader # "closing" /\ \A w \in Workers : job[w].at = "none"
      BY <1>1, <2>1 DEF SocketInv, GoesAlone
    <2>3. closing
      BY <1>1, <2>1, <2>2 DEF SocketInv, EndsOnce, Workers
    <2> QED
      BY <1>1, <2>2, <2>3 DEF SocketInv, ClosingMeans
  <1> QED
    BY <1>1, SocketInvariant, PTL

=============================================================================
