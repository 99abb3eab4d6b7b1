--------------------------- MODULE ServerManager ---------------------------
(***************************************************************************)
(* The treefrog manager process (managerMain and class ServerManager) and   *)
(* the tadpole application servers it forks, watches, replaces and stops.   *)
(* The manager is one thread: between exec() and its return it runs one     *)
(* slot at a time; stop() blocks in waitForFinished().  The servers are     *)
(* processes of their own, so they load, install their signal handler,      *)
(* enter their event loop, crash and exit at any moment in between.         *)
(***************************************************************************)
EXTENDS Integers, FiniteSets

CONSTANTS
    Processes,      \* QProcess objects
    MaxArg, MinArg, \* the arguments of ServerManager's constructor
    Signals,        \* the signals users may send to the manager
    StartFailures,  \* may QProcess::start() fail (FailedToStart)?
    MaxStarts,      \* bound: no server exits by itself from this count on
    MaxSignals      \* bound: signals sent to the manager

ASSUME ManagerAssumptions ==
    /\ MaxArg \in Int /\ MinArg \in Int
    /\ Signals \subseteq {"TERM", "HUP"}
    /\ StartFailures \in BOOLEAN
    /\ MaxStarts \in Nat /\ MaxSignals \in Nat

\* The constructor: at least one server, and no fewer at most than at least.
minServers == IF MinArg > 1 THEN MinArg ELSE 1
maxServers == IF MaxArg > minServers THEN MaxArg ELSE minServers

Absent == -1     \* not a key of serversStatus

VARIABLES
    managerState,   \* ServerManager::managerState
    listening,      \* listeningSocket > 0
    serversStatus,  \* the ID of each process in the map, or Absent
    startCounter,
    announced,      \* processes whose started() has been delivered
    life,           \* what the process really is, seen by the operating system
    signalled,      \* servers whose unixSignal is set
    at,             \* where managerMain is
    ret,            \* what app.exec() returned
    unixSignal,     \* of the manager
    sent            \* bound: how many signals it has been sent

processVars == <<serversStatus, startCounter, announced, life, signalled>>
mainVars    == <<at, ret, unixSignal, sent>>
vars        == <<managerState, listening, serversStatus, startCounter, announced, life,
                 signalled, at, ret, unixSignal, sent>>

\* forked: not yet exec'd; loaded: SIGTERM has its default action; booting: the
\* handler is installed; serving: in the event loop, whose timer polls the signal.
Lives  == {"none", "forked", "loaded", "booting", "serving", "dead", "failed"}
Alive  == {p \in Processes : life[p] \in {"forked", "loaded", "booting", "serving"}}
Mapped == {p \in Processes : serversStatus[p] # Absent}

serverCount == Cardinality(Mapped)
isRunning   == managerState \in {"Starting", "Running"}

\* Fault: without -i a server takes itself for number 0.
ServerIdDefault(p) == IF serversStatus[p] < maxServers THEN serversStatus[p] ELSE 0

\* The ID given with -i, which only IDs below maxServers are.
ServerId(p) == IF serversStatus[p] < maxServers THEN serversStatus[p] ELSE -1

TypeOK ==
    /\ managerState \in {"NotRunning", "Starting", "Running", "Stopping"}
    /\ listening \in BOOLEAN
    /\ serversStatus \in [Processes -> Nat \cup {Absent}]
    /\ startCounter \in Nat
    /\ announced \in SUBSET Processes
    /\ life \in [Processes -> Lives]
    /\ signalled \in SUBSET Processes
    /\ at \in {"startup", "started", "exec", "stopping", "down"}
    /\ ret \in {"none", "TERM", "HUP"}
    /\ unixSignal \in {"none", "TERM", "HUP"}
    /\ sent \in 0 .. MaxSignals

Init ==
    /\ managerState = "NotRunning"
    /\ listening = FALSE
    /\ serversStatus = [p \in Processes |-> Absent]
    /\ startCounter = 0
    /\ announced = {}
    /\ life = [p \in Processes |-> "none"]
    /\ signalled = {}
    /\ at = "startup"
    /\ ret = "none"
    /\ unixSignal = "none"
    /\ sent = 0

-----------------------------------------------------------------------------
(* ServerManager.                                                           *)

\* Fault: startCounter is not counted up.
startServerUncounted(p, id) ==
    /\ serversStatus' = [serversStatus EXCEPT ![p] = id]
    /\ life' = [life EXCEPT ![p] = "forked"]
    /\ UNCHANGED startCounter

startServer(p, id) ==
    /\ serversStatus' = [serversStatus EXCEPT ![p] = id]
    /\ life' = [life EXCEPT ![p] = "forked"]
    /\ startCounter' = startCounter + 1

\* Start one more, or note that there are enough; state is managerState so far.
ajustServers(state) ==
    \/ /\ state \in {"Starting", "Running"}
       /\ serverCount < maxServers /\ serverCount < minServers
       /\ \E p \in Processes \ Mapped : startServer(p, startCounter)
       /\ managerState' = state
    \/ /\ state \in {"Starting", "Running"}
       /\ ~(serverCount < maxServers /\ serverCount < minServers)
       /\ managerState' = "Running"
       /\ UNCHANGED <<serversStatus, life, startCounter>>
    \/ /\ state \notin {"Starting", "Running"}
       /\ managerState' = state
       /\ UNCHANGED <<serversStatus, life, startCounter>>

\* start(): listen, then start the first server.
start ==
    /\ at = "startup"
    /\ listening' = TRUE
    /\ ajustServers("Starting")
    /\ at' = "started"
    /\ UNCHANGED <<announced, signalled, ret, unixSignal, sent>>

startFails ==
    /\ at = "startup"
    /\ at' = "down"
    /\ UNCHANGED <<managerState, listening, processVars, ret, unixSignal, sent>>

\* Fault: started() does not make the manager start the next server.
updateServerStatusOnly(p) ==
    /\ at \in {"exec", "stopping"}
    /\ p \in Mapped \ announced
    /\ life[p] \in {"loaded", "booting", "serving", "dead"}
    /\ announced' = announced \cup {p}
    /\ UNCHANGED <<managerState, serversStatus, life, startCounter>>
    /\ UNCHANGED <<listening, signalled, mainVars>>

\* updateServerStatus(), the slot of started(); inside stop() it comes from
\* waitForFinished().
updateServerStatus(p) ==
    /\ at \in {"exec", "stopping"}
    /\ p \in Mapped \ announced
    /\ life[p] \in {"loaded", "booting", "serving", "dead"}
    /\ announced' = announced \cup {p}
    /\ ajustServers(managerState)
    /\ UNCHANGED <<listening, signalled, mainVars>>

\* Faults: the replacement takes a new ID; ID 0 counts as "not in the map".
serverFinishNewId(p) ==
    /\ at = "exec"
    /\ p \in Mapped \cap announced
    /\ life[p] = "dead"
    /\ isRunning
    /\ startServer(p, startCounter)
    /\ announced' = announced \ {p}
    /\ UNCHANGED <<managerState, listening, signalled, mainVars>>

serverFinishNonZero(p) ==
    /\ at = "exec"
    /\ p \in Mapped \cap announced
    /\ life[p] = "dead"
    /\ isRunning /\ serversStatus[p] > 0
    /\ startServer(p, serversStatus[p])
    /\ announced' = announced \ {p}
    /\ UNCHANGED <<managerState, listening, signalled, mainVars>>

\* serverFinish(), while the signal is connected: a new process, the same ID.
serverFinish(p) ==
    /\ at = "exec"
    /\ p \in Mapped \cap announced
    /\ life[p] = "dead"
    /\ isRunning
    /\ startServer(p, serversStatus[p])
    /\ announced' = announced \ {p}
    /\ UNCHANGED <<managerState, listening, signalled, mainVars>>

\* stop(), up to its first waitForFinished(): SIGTERM to every server.  A child
\* that has not exec'd yet catches it with the manager's handler, for nothing.
stop ==
    /\ managerState' = "Stopping"
    /\ listening' = FALSE
    /\ signalled' = signalled \cup {p \in Mapped : life[p] \in {"booting", "serving"}}
    /\ life' = [p \in Processes |-> IF p \in Mapped /\ life[p] = "loaded"
                                    THEN "dead" ELSE life[p]]
    /\ UNCHANGED <<serversStatus, startCounter, announced>>

-----------------------------------------------------------------------------
(* managerMain.                                                             *)

\* app.exec() forgets any earlier signal and enters the event loop.
exec ==
    /\ at = "started"
    /\ at' = "exec"
    /\ unixSignal' = "none"
    /\ UNCHANGED <<managerState, listening, processVars, ret, sent>>

\* The 500 ms timer polls the signal; exec() returns; manager->stop() begins.
timerEvent ==
    /\ at = "exec"
    /\ unixSignal # "none"
    /\ ret' = unixSignal
    /\ at' = "stopping"
    /\ stop
    /\ UNCHANGED <<unixSignal, sent>>

\* Fault: stop() does not wait for the servers to finish.
stoppedEarly ==
    /\ at = "stopping"
    /\ managerState' = "NotRunning"
    /\ serversStatus' = [p \in Processes |-> Absent]
    /\ life' = [p \in Processes |-> IF life[p] \in {"dead", "failed"} THEN "none" ELSE life[p]]
    /\ announced' = {}
    /\ signalled' = {}
    /\ startCounter' = 0
    /\ at' = IF ret = "HUP" THEN "startup" ELSE "down"
    /\ UNCHANGED <<listening, ret, unixSignal, sent>>

\* Fault: waitForFinished() waits for a process that could not be started.
stoppedUnlessFailed ==
    /\ at = "stopping"
    /\ \A p \in Mapped : life[p] = "dead"
    /\ managerState' = "NotRunning"
    /\ serversStatus' = [p \in Processes |-> Absent]
    /\ life' = [p \in Processes |-> IF p \in Mapped THEN "none" ELSE life[p]]
    /\ announced' = {}
    /\ signalled' = {}
    /\ startCounter' = 0
    /\ at' = IF ret = "HUP" THEN "startup" ELSE "down"
    /\ UNCHANGED <<listening, ret, unixSignal, sent>>

\* Every waitForFinished() has returned; once more round the loop after SIGHUP.
stopped ==
    /\ at = "stopping"
    /\ \A p \in Mapped : life[p] \in {"dead", "failed"}
    /\ managerState' = "NotRunning"
    /\ serversStatus' = [p \in Processes |-> Absent]
    /\ life' = [p \in Processes |-> IF p \in Mapped THEN "none" ELSE life[p]]
    /\ announced' = {}
    /\ signalled' = {}
    /\ startCounter' = 0
    /\ at' = IF ret = "HUP" THEN "startup" ELSE "down"
    /\ UNCHANGED <<listening, ret, unixSignal, sent>>

\* treefrog -k stop / restart; the handler keeps the last signal only.
Signal(s) ==
    /\ at # "down"
    /\ sent < MaxSignals
    /\ sent' = sent + 1
    /\ unixSignal' = s
    /\ UNCHANGED <<managerState, listening, processVars, at, ret>>

-----------------------------------------------------------------------------
(* The servers (tfserver's main).                                           *)

Becomes(p, from, to) ==
    /\ life[p] \in from
    /\ life' = [life EXCEPT ![p] = to]
    /\ UNCHANGED <<managerState, listening, serversStatus, startCounter, announced,
                   mainVars>>

Load(p) == Becomes(p, {"forked"}, "loaded") /\ UNCHANGED signalled

\* webapp.watchUnixSignal(SIGTERM)
WatchSignal(p) == Becomes(p, {"loaded"}, "booting") /\ UNCHANGED signalled

\* webapp.exec() forgets any earlier signal, here too.
EnterLoop(p) == Becomes(p, {"booting"}, "serving") /\ signalled' = signalled \ {p}

ServerStops(p) ==
    p \in signalled /\ Becomes(p, {"serving"}, "dead") /\ UNCHANGED signalled

\* A crash, a failed start-up or, with exit code 127, an automatic reload.
ServerExits(p) ==
    /\ startCounter < MaxStarts
    /\ Becomes(p, {"loaded", "booting", "serving"}, "dead")
    /\ UNCHANGED signalled

\* FailedToStart: errorDetect() kills what never ran, finished() is not emitted.
FailsToStart(p) ==
    StartFailures /\ Becomes(p, {"forked"}, "failed") /\ UNCHANGED signalled

-----------------------------------------------------------------------------
ManagerStep ==
    \/ start \/ exec \/ timerEvent \/ stopped
    \/ \E p \in Processes : updateServerStatus(p) \/ serverFinish(p)

ServerStep(p) == Load(p) \/ WatchSignal(p) \/ EnterLoop(p) \/ ServerStops(p)

Next ==
    \/ ManagerStep \/ startFails
    \/ \E s \in Signals : Signal(s)
    \/ \E p \in Processes : ServerStep(p) \/ ServerExits(p) \/ FailsToStart(p)

Spec == Init /\ [][Next]_vars

(* The manager and the servers are scheduled.  Nobody has to send a signal, *)
(* and nothing has to fail.                                                 *)
FairSpec ==
    /\ Spec
    /\ WF_vars(ManagerStep)
    /\ \A p \in Processes : WF_vars(ServerStep(p))

-----------------------------------------------------------------------------
(* Properties.                                                              *)

\* However crashes, restarts and start-up interleave, the map never holds more
\* servers than configured, nor two with the same ID.
FleetBounded ==
    /\ IsFiniteSet(Mapped) /\ serverCount <= minServers
    /\ \A p, q \in Mapped : serversStatus[p] = serversStatus[q] => p = q

\* At most one living server process runs the jobs of TApplicationScheduler,
\* which starts where the server ID is 0, even through crashes and restarts
\* (tapplicationscheduler.cpp: "in only one application server process").
OneScheduler ==
    \A p, q \in Alive : ServerId(p) = 0 /\ ServerId(q) = 0 => p = q

\* Once start-up is complete the fleet stays at full strength and has a server
\* 0: a restarted server keeps the ID of the one it replaces.
FleetComplete ==
    managerState = "Running" =>
        /\ serverCount = minServers
        /\ \E p \in Mapped : ServerId(p) = 0

\* No server process outlives stop(), and none is started inside it: when
\* managerMain comes to its next round, or to its end, none is left.
NoOrphans == at \in {"startup", "down"} => Alive = {} /\ Mapped = {}

\* Start-up ends with all servers there, whatever crashes on the way, unless a
\* signal ends it before or a server cannot even be executed (FailedToStart, to
\* which errorDetect() answers with a log line and nothing else).
StartupCompletes ==
    managerState = "Starting" ~> \/ managerState # "Starting"
                                 \/ \E p \in Processes : life[p] = "failed"

\* A server that has gone down is replaced, or the manager is stopping
\* (performance/index.md: "the treefrog process will detect it and then
\* restart the tadpole process").
CrashedAreReplaced ==
    \A p \in Processes :
        at = "exec" /\ life[p] = "dead" ~> at # "exec" \/ life[p] # "dead"

\* stop() ends, or waits for a server that serves and has forgotten its SIGTERM:
\* one that got it between watchUnixSignal() and exec(), or before it was even
\* executed.  Nothing else can hold waitForFinished(-1) up, not a server that could
\* not be started or that crashes meanwhile.
StopEnds ==
    at = "stopping" ~> \/ at # "stopping"
                       \/ \E p \in Mapped : life[p] = "serving" /\ p \notin signalled
=============================================================================
