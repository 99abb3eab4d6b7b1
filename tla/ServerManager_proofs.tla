------------------------ MODULE ServerManager_proofs ------------------------
(***************************************************************************)
(* Proofs about the manager of the application servers, for any number of   *)
(* servers, crashes, failed starts and signals.  The inductive invariant    *)
(* adds to the properties what makes them last: every ID in the map is      *)
(* below startCounter, so that the next new one is fresh; a process that is *)
(* not in the map does not exist; and what the state of the manager says    *)
(* about the map at each place of managerMain.                              *)
(***************************************************************************)
EXTENDS ServerManager, FiniteSetTheorems, TLAPS

\* IDs are handed out in ascending order, restarts included.
IdsBelowCounter == \A p \in Mapped : serversStatus[p] < startCounter

IdsDistinct == \A p, q \in Mapped : serversStatus[p] = serversStatus[q] => p = q

\* Server 0 is the first to be started and is in the map until stop() ends.
ServerZero == isRunning => \E p \in Mapped : serversStatus[p] = 0

CountBounded ==
    /\ IsFiniteSet(Mapped) /\ serverCount <= minServers
    /\ managerState = "Running" => serverCount = minServers

UnmappedAreNothing == \A p \in Processes : p \notin Mapped => life[p] = "none"

StateOfMain ==
    /\ at \in {"started", "exec"} => isRunning
    /\ at = "stopping" => managerState = "Stopping"
    /\ at \in {"startup", "down"} =>
          managerState = "NotRunning" /\ Mapped = {} /\ startCounter = 0

FleetInv ==
    /\ TypeOK /\ IdsBelowCounter /\ IdsDistinct /\ ServerZero /\ CountBounded
    /\ UnmappedAreNothing /\ StateOfMain

\* What the constructor makes of its arguments.
LEMMA ServerNumbers ==
    minServers \in Nat \ {0} /\ maxServers \in Nat /\ minServers <= maxServers
  BY ManagerAssumptions DEF minServers, maxServers

\* The initial state satisfies the invariant.
LEMMA InitFleet == Init => FleetInv
  <1> SUFFICES ASSUME Init PROVE FleetInv
    OBVIOUS
  <1>1. Mapped = {}
    BY DEF Init, Mapped
  <1>2. IsFiniteSet(Mapped) /\ serverCount = 0
    BY <1>1, FS_EmptySet DEF serverCount
  <1>3. TypeOK
    <2>1. serversStatus \in [Processes -> Nat \cup {Absent}]
      BY DEF Init
    <2>2. life \in [Processes -> Lives]
      BY DEF Init, Lives
    <2>3. sent \in 0 .. MaxSignals /\ startCounter \in Nat
      BY ManagerAssumptions DEF Init
    <2>4. announced \in SUBSET Processes /\ signalled \in SUBSET Processes
      BY DEF Init
    <2> QED
      BY <2>1, <2>2, <2>3, <2>4, Zenon DEF Init, TypeOK
  <1>4. IdsBelowCounter /\ IdsDistinct
    BY <1>1 DEF IdsBelowCounter, IdsDistinct
  <1>5. CountBounded
    BY <1>2, ServerNumbers DEF Init, CountBounded
  <1>6. ServerZero /\ UnmappedAreNothing /\ StateOfMain
    BY <1>1 DEF Init, ServerZero, UnmappedAreNothing, StateOfMain, isRunning
  <1> QED
    BY <1>3, <1>4, <1>5, <1>6 DEF FleetInv

\* The invariant implies the properties.
LEMMA FleetInvImplies ==
    FleetInv => TypeOK /\ FleetBounded /\ OneScheduler /\ FleetComplete /\ NoOrphans
  <1> SUFFICES ASSUME FleetInv
               PROVE TypeOK /\ FleetBounded /\ OneScheduler /\ FleetComplete /\ NoOrphans
    OBVIOUS
  <1>1. Alive \subseteq Mapped
    BY DEF FleetInv, UnmappedAreNothing, Alive
  <1>2. \A p \in Mapped : ServerId(p) = 0 <=> serversStatus[p] = 0
    BY ServerNumbers DEF FleetInv, TypeOK, Mapped, ServerId, Absent
  <1>3. OneScheduler
    BY <1>1, <1>2 DEF OneScheduler, FleetInv, IdsDistinct
  <1>4. FleetBounded
    BY DEF FleetBounded, FleetInv, IdsDistinct, CountBounded
  <1>5. FleetComplete
    BY <1>2 DEF FleetComplete, FleetInv, CountBounded, ServerZero, isRunning
  <1>6. NoOrphans
    BY <1>1 DEF NoOrphans, FleetInv, StateOfMain
  <1> QED
    BY <1>3, <1>4, <1>5, <1>6 DEF FleetInv

-----------------------------------------------------------------------------
\* A step that leaves the map and the manager's state alone keeps the count.
LEMMA SameMap ==
    ASSUME FleetInv, UNCHANGED <<managerState, serversStatus, startCounter>>
    PROVE  /\ Mapped' = Mapped
           /\ IdsBelowCounter' /\ IdsDistinct' /\ ServerZero' /\ CountBounded'
  BY DEF FleetInv, Mapped, IdsBelowCounter, IdsDistinct, ServerZero, CountBounded,
         serverCount, isRunning

\* Starting a server under a fresh ID, in a manager that has not enough.
LEMMA StartFresh ==
    ASSUME FleetInv, NEW p \in Processes \ Mapped,
           startServer(p, startCounter), serverCount < minServers,
           managerState' = "Starting"
             \/ (managerState' = managerState /\ managerState \in {"Starting", "Running"}),
           managerState' = "Starting" => (startCounter = 0 \/ managerState = "Starting")
    PROVE  /\ Mapped' = Mapped \cup {p}
           /\ IdsBelowCounter' /\ IdsDistinct' /\ ServerZero' /\ CountBounded'
           /\ UnmappedAreNothing'
           /\ serversStatus' \in [Processes -> Nat \cup {Absent}]
           /\ startCounter' \in Nat /\ startCounter' # 0
           /\ life' \in [Processes -> Lives]
  <1>0. TypeOK
    BY DEF FleetInv
  <1>1. /\ serversStatus' = [serversStatus EXCEPT ![p] = startCounter]
        /\ life' = [life EXCEPT ![p] = "forked"]
        /\ startCounter' = startCounter + 1
    BY DEF startServer
  <1>2. /\ serversStatus' \in [Processes -> Nat \cup {Absent}]
        /\ startCounter' \in Nat /\ startCounter' # 0
        /\ life' \in [Processes -> Lives]
    BY <1>0, <1>1 DEF TypeOK, Lives
  <1>3. Mapped' = Mapped \cup {p}
    BY <1>0, <1>1 DEF TypeOK, Mapped, Absent
  <1>4. IdsBelowCounter'
    BY <1>0, <1>1, <1>3 DEF TypeOK, FleetInv, IdsBelowCounter, Mapped
  <1>5. IdsDistinct'
    <2> SUFFICES ASSUME NEW q \in Mapped', NEW r \in Mapped', serversStatus'[q] = serversStatus'[r]
                 PROVE q = r
      BY DEF IdsDistinct
    <2>1. \A u \in Mapped : serversStatus'[u] = serversStatus[u] /\ serversStatus[u] < startCounter
      BY <1>0, <1>1 DEF TypeOK, FleetInv, IdsBelowCounter, Mapped
    <2>2. serversStatus'[p] = startCounter /\ startCounter \in Nat
      BY <1>0, <1>1 DEF TypeOK
    <2> QED
      BY <2>1, <2>2, <1>3 DEF FleetInv, IdsDistinct
  <1>6. ServerZero'
    <2>1. CASE startCounter = 0
      BY <2>1, <1>0, <1>1, <1>3 DEF ServerZero, TypeOK
    <2>2. CASE managerState \in {"Starting", "Running"}
      <3>1. PICK z \in Mapped : serversStatus[z] = 0
        BY <2>2 DEF FleetInv, ServerZero, isRunning
      <3>2. z \in Mapped' /\ serversStatus'[z] = 0
        BY <3>1, <1>0, <1>1, <1>3 DEF TypeOK, Mapped
      <3> QED
        BY <3>2 DEF ServerZero
    <2> QED
      BY <2>1, <2>2
  <1>7. CountBounded'
    <2>1. IsFiniteSet(Mapped) /\ p \notin Mapped
      BY DEF FleetInv, CountBounded
    <2>2. IsFiniteSet(Mapped') /\ Cardinality(Mapped') = Cardinality(Mapped) + 1
      BY <2>1, <1>3, FS_AddElement
    <2>3. Cardinality(Mapped) \in Nat
      BY <2>1, FS_CardinalityType
    <2>4. managerState' # "Running"
      BY ServerNumbers DEF FleetInv, CountBounded
    <2> QED
      BY <2>2, <2>3, <2>4, ServerNumbers DEF CountBounded, serverCount
  <1>8. UnmappedAreNothing'
    BY <1>0, <1>1, <1>3 DEF TypeOK, FleetInv, UnmappedAreNothing
  <1> QED
    BY <1>2, <1>3, <1>4, <1>5, <1>6, <1>7, <1>8

\* ajustServers(), whatever the state: the map keeps its invariant.
LEMMA AjustServersInv ==
    ASSUME FleetInv, NEW state,
           state = managerState \/ (state = "Starting" /\ Mapped = {} /\ startCounter = 0),
           ajustServers(state)
    PROVE  /\ Mapped \subseteq Mapped'
           /\ managerState' \in {"NotRunning", "Starting", "Running", "Stopping"}
           /\ state \in {"Starting", "Running"} => managerState' \in {"Starting", "Running"}
           /\ state \notin {"Starting", "Running"} => managerState' = state
           /\ IdsBelowCounter' /\ IdsDistinct' /\ ServerZero' /\ CountBounded'
           /\ UnmappedAreNothing'
           /\ serversStatus' \in [Processes -> Nat \cup {Absent}]
           /\ startCounter' \in Nat
           /\ life' \in [Processes -> Lives]
  <1>0. TypeOK
    BY DEF FleetInv
  <1>c. serverCount \in Nat /\ serverCount <= minServers
    BY FS_CardinalityType DEF FleetInv, CountBounded, serverCount
  <1>1. CASE /\ state \in {"Starting", "Running"}
             /\ serverCount < maxServers /\ serverCount < minServers
             /\ \E p \in Processes \ Mapped : startServer(p, startCounter)
             /\ managerState' = state
    <2>1. PICK p \in Processes \ Mapped : startServer(p, startCounter)
      BY <1>1
    <2>2. managerState' = "Starting"
            \/ (managerState' = managerState /\ managerState \in {"Starting", "Running"})
      BY <1>1
    <2>3. managerState' = "Starting" => (startCounter = 0 \/ managerState = "Starting")
      BY <1>1
    <2> HIDE DEF startServer
    <2>4. /\ Mapped' = Mapped \cup {p}
          /\ IdsBelowCounter' /\ IdsDistinct' /\ ServerZero' /\ CountBounded'
          /\ UnmappedAreNothing'
          /\ serversStatus' \in [Processes -> Nat \cup {Absent}]
          /\ startCounter' \in Nat
          /\ life' \in [Processes -> Lives]
      BY <1>1, <2>1, <2>2, <2>3, StartFresh
    <2> QED
      BY <1>1, <2>4
  <1>2. CASE /\ state \in {"Starting", "Running"}
             /\ ~(serverCount < maxServers /\ serverCount < minServers)
             /\ managerState' = "Running"
             /\ UNCHANGED <<serversStatus, life, startCounter>>
    <2>1. serverCount = minServers
      BY <1>2, <1>c, ServerNumbers
    <2>2. Mapped # {}
      BY <2>1, ServerNumbers, FS_EmptySet DEF serverCount
    <2>3. state = managerState
      BY <2>2
    <2>4. Mapped' = Mapped
      BY <1>2 DEF Mapped
    <2> QED
      BY <1>0, <1>2, <2>1, <2>3, <2>4
         DEF TypeOK, FleetInv, IdsBelowCounter, IdsDistinct, ServerZero, CountBounded,
             serverCount, isRunning, UnmappedAreNothing
  <1>3. CASE /\ state \notin {"Starting", "Running"}
             /\ managerState' = state
             /\ UNCHANGED <<serversStatus, life, startCounter>>
    <2>1. state = managerState
      BY <1>3
    <2>2. Mapped' = Mapped
      BY <1>3 DEF Mapped
    <2> QED
      BY <1>0, <1>3, <2>1, <2>2
         DEF TypeOK, FleetInv, IdsBelowCounter, IdsDistinct, ServerZero, CountBounded,
             serverCount, isRunning, UnmappedAreNothing
  <1> QED
    BY <1>1, <1>2, <1>3 DEF ajustServers

-----------------------------------------------------------------------------
\* A step of a server process alone keeps the invariant.
LEMMA BecomesInv ==
    ASSUME FleetInv, NEW p \in Processes, NEW from, NEW to \in Lives,
           "none" \notin from, Becomes(p, from, to), signalled' \in SUBSET Processes
    PROVE  FleetInv'
  <1>1. UNCHANGED <<managerState, listening, serversStatus, startCounter, announced, at, ret,
                    unixSignal, sent>>
    BY DEF Becomes, mainVars
  <1>2. /\ Mapped' = Mapped
        /\ IdsBelowCounter' /\ IdsDistinct' /\ ServerZero' /\ CountBounded'
    BY <1>1, SameMap
  <1>3. life' = [life EXCEPT ![p] = to] /\ life[p] \in from
    BY DEF Becomes
  <1>4. life' \in [Processes -> Lives]
    BY <1>3 DEF FleetInv, TypeOK
  <1>5. TypeOK'
    BY <1>1, <1>4 DEF FleetInv, TypeOK
  <1>6. UnmappedAreNothing'
    BY <1>2, <1>3 DEF FleetInv, TypeOK, UnmappedAreNothing
  <1>7. StateOfMain'
    BY <1>1, <1>2 DEF FleetInv, StateOfMain, isRunning
  <1> QED
    BY <1>2, <1>5, <1>6, <1>7 DEF FleetInv

\* Every step keeps the invariant.
LEMMA NextFleet == FleetInv /\ [Next]_vars => FleetInv'
  <1> SUFFICES ASSUME FleetInv, [Next]_vars PROVE FleetInv'
    OBVIOUS
  <1>t. TypeOK
    BY DEF FleetInv
  <1>1. CASE start
    <2>1. ajustServers("Starting") /\ Mapped = {} /\ startCounter = 0
      BY <1>1 DEF start, FleetInv, StateOfMain
    <2>2. /\ managerState' \in {"Starting", "Running"}
          /\ IdsBelowCounter' /\ IdsDistinct' /\ ServerZero' /\ CountBounded'
          /\ UnmappedAreNothing'
          /\ serversStatus' \in [Processes -> Nat \cup {Absent}]
          /\ startCounter' \in Nat
          /\ life' \in [Processes -> Lives]
      BY <2>1, AjustServersInv
    <2>3. TypeOK' /\ StateOfMain'
      BY <1>1, <1>t, <2>2 DEF start, TypeOK, StateOfMain, isRunning
    <2> QED
      BY <2>2, <2>3 DEF FleetInv
  <1>2. CASE startFails
    <2>1. UNCHANGED <<managerState, serversStatus, startCounter>>
      BY <1>2 DEF startFails, processVars
    <2>2. /\ Mapped' = Mapped
          /\ IdsBelowCounter' /\ IdsDistinct' /\ ServerZero' /\ CountBounded'
      BY <2>1, SameMap
    <2>3. TypeOK' /\ StateOfMain' /\ UnmappedAreNothing'
      BY <1>2, <1>t, <2>1, <2>2
         DEF startFails, processVars, TypeOK, FleetInv, StateOfMain, UnmappedAreNothing
    <2> QED
      BY <2>2, <2>3 DEF FleetInv
  <1>3. CASE exec
    <2>1. UNCHANGED <<managerState, serversStatus, startCounter>>
      BY <1>3 DEF exec, processVars
    <2>2. /\ Mapped' = Mapped
          /\ IdsBelowCounter' /\ IdsDistinct' /\ ServerZero' /\ CountBounded'
      BY <2>1, SameMap
    <2>3. TypeOK' /\ StateOfMain' /\ UnmappedAreNothing'
      BY <1>3, <1>t, <2>1, <2>2
         DEF exec, processVars, TypeOK, FleetInv, StateOfMain, UnmappedAreNothing, isRunning
    <2> QED
      BY <2>2, <2>3 DEF FleetInv
  <1>4. CASE timerEvent
    <2>1. UNCHANGED <<serversStatus, startCounter, announced>> /\ managerState' = "Stopping"
      BY <1>4 DEF timerEvent, stop
    <2>2. Mapped' = Mapped
      BY <2>1 DEF Mapped
    <2>3. IdsBelowCounter' /\ IdsDistinct' /\ ServerZero' /\ CountBounded'
      BY <2>1, <2>2 DEF FleetInv, IdsBelowCounter, IdsDistinct, ServerZero, CountBounded,
                        serverCount, isRunning
    <2>4. life' = [p \in Processes |-> IF p \in Mapped /\ life[p] = "loaded"
                                       THEN "dead" ELSE life[p]]
      BY <1>4 DEF timerEvent, stop
    <2>5. life' \in [Processes -> Lives] /\ UnmappedAreNothing'
      BY <2>2, <2>4, <1>t DEF TypeOK, FleetInv, UnmappedAreNothing, Lives
    <2>6. signalled' \in SUBSET Processes
      BY <1>4, <1>t DEF timerEvent, stop, Mapped, TypeOK
    <2>7. TypeOK' /\ StateOfMain'
      BY <1>4, <1>t, <2>1, <2>5, <2>6 DEF timerEvent, stop, TypeOK, StateOfMain
    <2> QED
      BY <2>3, <2>5, <2>7 DEF FleetInv
  <1>5. CASE stopped
    <2>1. /\ serversStatus' = [p \in Processes |-> Absent] /\ startCounter' = 0
          /\ managerState' = "NotRunning"
          /\ life' = [p \in Processes |-> IF p \in Mapped THEN "none" ELSE life[p]]
      BY <1>5 DEF stopped
    <2>2. Mapped' = {}
      BY <2>1 DEF Mapped
    <2>3. IdsBelowCounter' /\ IdsDistinct' /\ ServerZero'
      BY <2>1, <2>2 DEF IdsBelowCounter, IdsDistinct, ServerZero, isRunning
    <2>4. CountBounded'
      BY <2>1, <2>2, FS_EmptySet, ServerNumbers DEF CountBounded, serverCount
    <2>5. life' \in [Processes -> Lives] /\ UnmappedAreNothing'
      BY <2>1, <1>t DEF TypeOK, FleetInv, UnmappedAreNothing, Lives
    <2>6. TypeOK' /\ StateOfMain'
      BY <1>5, <1>t, <2>1, <2>2, <2>5 DEF stopped, TypeOK, StateOfMain
    <2> QED
      BY <2>3, <2>4, <2>5, <2>6 DEF FleetInv
  <1>6. ASSUME NEW p \in Processes, updateServerStatus(p) PROVE FleetInv'
    <2>1. ajustServers(managerState)
      BY <1>6 DEF updateServerStatus
    <2>2. /\ managerState' \in {"NotRunning", "Starting", "Running", "Stopping"}
          /\ managerState \in {"Starting", "Running"} => managerState' \in {"Starting", "Running"}
          /\ managerState \notin {"Starting", "Running"} => managerState' = managerState
          /\ IdsBelowCounter' /\ IdsDistinct' /\ ServerZero' /\ CountBounded'
          /\ UnmappedAreNothing'
          /\ serversStatus' \in [Processes -> Nat \cup {Absent}]
          /\ startCounter' \in Nat
          /\ life' \in [Processes -> Lives]
      BY <2>1, AjustServersInv
    <2>3. TypeOK' /\ StateOfMain'
      BY <1>6, <1>t, <2>2
         DEF updateServerStatus, mainVars, TypeOK, FleetInv, StateOfMain, isRunning
    <2> QED
      BY <2>2, <2>3 DEF FleetInv
  <1>7. ASSUME NEW p \in Processes, serverFinish(p) PROVE FleetInv'
    <2>1. /\ serversStatus' = [serversStatus EXCEPT ![p] = serversStatus[p]]
          /\ life' = [life EXCEPT ![p] = "forked"]
          /\ startCounter' = startCounter + 1
          /\ managerState' = managerState /\ p \in Mapped
      BY <1>7 DEF serverFinish, startServer
    <2>2. serversStatus' = serversStatus
      BY <2>1, <1>t DEF TypeOK
    <2>3. Mapped' = Mapped
      BY <2>2 DEF Mapped
    <2>4. IdsBelowCounter'
      BY <2>1, <2>2, <2>3, <1>t DEF FleetInv, IdsBelowCounter, TypeOK, Mapped
    <2>4a. IdsDistinct' /\ ServerZero' /\ CountBounded'
      BY <2>1, <2>2, <2>3
         DEF FleetInv, IdsDistinct, ServerZero, CountBounded, serverCount, isRunning
    <2>5. UnmappedAreNothing' /\ life' \in [Processes -> Lives]
      BY <2>1, <2>3, <1>t DEF TypeOK, FleetInv, UnmappedAreNothing, Lives
    <2>6. TypeOK' /\ StateOfMain'
      BY <1>7, <1>t, <2>1, <2>2, <2>5
         DEF serverFinish, mainVars, TypeOK, FleetInv, StateOfMain, isRunning
    <2> QED
      BY <2>4, <2>4a, <2>5, <2>6 DEF FleetInv
  <1>8. ASSUME NEW s \in Signals, Signal(s) PROVE FleetInv'
    <2>1. UNCHANGED <<managerState, serversStatus, startCounter>>
      BY <1>8 DEF Signal, processVars
    <2>2. /\ Mapped' = Mapped
          /\ IdsBelowCounter' /\ IdsDistinct' /\ ServerZero' /\ CountBounded'
      BY <2>1, SameMap
    <2>3. sent' \in 0 .. MaxSignals
      BY <1>8, <1>t, ManagerAssumptions DEF Signal, TypeOK
    <2>4. unixSignal' \in {"none", "TERM", "HUP"}
      BY <1>8, ManagerAssumptions DEF Signal
    <2>5. TypeOK' /\ StateOfMain' /\ UnmappedAreNothing'
      BY <1>8, <1>t, <2>1, <2>2, <2>3, <2>4
         DEF Signal, processVars, TypeOK, FleetInv, StateOfMain, UnmappedAreNothing, isRunning
    <2> QED
      BY <2>2, <2>5 DEF FleetInv
  <1>9. ASSUME NEW p \in Processes, ServerStep(p) \/ ServerExits(p) \/ FailsToStart(p)
        PROVE FleetInv'
    <2>s. signalled' \in SUBSET Processes
      BY <1>9, <1>t DEF ServerStep, Load, WatchSignal, EnterLoop, ServerStops, ServerExits,
                        FailsToStart, TypeOK
    <2>1. CASE Load(p)
      BY <2>1, <2>s, BecomesInv DEF Load, Lives
    <2>2. CASE WatchSignal(p)
      BY <2>2, <2>s, BecomesInv DEF WatchSignal, Lives
    <2>3. CASE EnterLoop(p)
      BY <2>3, <2>s, BecomesInv DEF EnterLoop, Lives
    <2>4. CASE ServerStops(p)
      BY <2>4, <2>s, BecomesInv DEF ServerStops, Lives
    <2>5. CASE ServerExits(p)
      BY <2>5, <2>s, BecomesInv DEF ServerExits, Lives
    <2>6. CASE FailsToStart(p)
      BY <2>6, <2>s, BecomesInv DEF FailsToStart, Lives
    <2> QED
      BY <1>9, <2>1, <2>2, <2>3, <2>4, <2>5, <2>6 DEF ServerStep
  <1>10. CASE UNCHANGED vars
    <2>1. /\ Mapped' = Mapped
          /\ IdsBelowCounter' /\ IdsDistinct' /\ ServerZero' /\ CountBounded'
      BY <1>10, SameMap DEF vars
    <2>2. TypeOK' /\ StateOfMain' /\ UnmappedAreNothing'
      BY <1>10, <1>t, <2>1
         DEF vars, TypeOK, FleetInv, StateOfMain, UnmappedAreNothing, isRunning
    <2> QED
      BY <2>1, <2>2 DEF FleetInv
  <1> QED
    BY <1>1, <1>2, <1>3, <1>4, <1>5, <1>6, <1>7, <1>8, <1>9, <1>10 DEF Next, ManagerStep

\* The manager never has more servers than configured or two with one ID; at
\* most one living server is server 0; once Running, the map is complete and has
\* a server 0; and nothing survives stop(): for every number of servers, and
\* every interleaving of crashes, start-up, failed starts and signals.
THEOREM FleetInvariant ==
    Spec => [](TypeOK /\ FleetBounded /\ OneScheduler /\ FleetComplete /\ NoOrphans)
  <1>1. Spec => []FleetInv
    BY InitFleet, NextFleet, PTL DEF Spec
  <1> QED
    BY <1>1, FleetInvImplies, PTL

\* startServer() and serverFinish() never put more servers in the map than configured,
\* nor two with the same ID.
THEOREM ServersBounded == Spec => []FleetBounded
  <1> QED
    BY FleetInvariant, PTL

\* While the manager is Running the map is full and has a server 0, since serverFinish()
\* gives a new process the ID of the one that ended.
THEOREM ServersComplete == Spec => []FleetComplete
  <1> QED
    BY FleetInvariant, PTL

\* stop() returns when no server is left.
THEOREM ServersNotOrphaned == Spec => []NoOrphans
  <1> QED
    BY FleetInvariant, PTL

=============================================================================
