---------------------------- MODULE DatabasePool ----------------------------
(***************************************************************************)
(* TSqlDatabasePool and TKvsDatabasePool: per database id a stack of cached *)
(* (open) connections and a stack of available (closed) names, used by      *)
(* concurrent contexts and by a 10 second timer that closes connections     *)
(* nobody has returned for 30 seconds.  Both stacks are TStack objects, so  *)
(* a push or a pop is one atomic step; everything between two of them can   *)
(* be interleaved with the other threads.                                   *)
(*                                                                          *)
(* A connection name is a pair <<id, i>>, the two numbers CONN_NAME_FORMAT  *)
(* prints into it.                                                          *)
(***************************************************************************)
EXTENDS Naturals, Sequences, FiniteSets

CONSTANTS
    Kind,         \* "sql" or "kvs": which of the two pools this is
    Contexts,     \* the TDatabaseContext objects that call the pool
    DatabaseIds,  \* database ids (SQL) or KVS types
    MaxConnects,  \* names per database: maxNumberOfThreadsPerAppServer()
    Nobody        \* no context, and no connection

ASSUME PoolAssumptions ==
    /\ Kind \in {"sql", "kvs"}
    /\ MaxConnects \in Nat \ {0}
    /\ DatabaseIds \subseteq Nat
    /\ DatabaseIds # {}
    /\ Nobody \notin Contexts
    /\ Nobody \notin DatabaseIds \X (1 .. MaxConnects)

Names == DatabaseIds \X (1 .. MaxConnects)

IdOf(n) == n[1]     \* getDatabaseId()

VARIABLES
    cachedDatabase,   \* stack of pooled connections per id
    availableNames,   \* stack of closed connections per id
    recent,           \* recent[id]: lastCachedTime[id] is less than 30 s old
    open,             \* the connections that isOpen()
    held,             \* held[c][id]: sqlDatabases[id] / kvsDatabases[id]
    call,             \* call[c]: the pool call that c is in
    timer,            \* the timer event in progress
    closed            \* the pool has been destroyed

vars == <<cachedDatabase, availableNames, recent, open, held, call, timer,
          closed>>

-----------------------------------------------------------------------------
(* TStack, linearised.                                                      *)

Push(s, x) == Append(s, x)
Top(s)     == s[Len(s)]
Popped(s)  == SubSeq(s, 1, Len(s) - 1)
InStack(s) == {s[i] : i \in 1 .. Len(s)}

-----------------------------------------------------------------------------
(* The places a thread can be in, and the name it has in its hand there.    *)

Outside        == [at |-> "outside", id |-> 0, name |-> Nobody]
At(place, id, n) == [at |-> place, id |-> id, name |-> n]

ContextPlaces == {"outside", "popCache", "test", "pushBack", "popAvailable",
                  "open", "restore", "release", "push", "stamp"}
TimerPlaces   == {"outside", "load", "pop", "close", "push"}

Held(c)  == {held[c][id] : id \in DatabaseIds} \ {Nobody}

TypeOK ==
    /\ cachedDatabase \in [DatabaseIds -> Seq(Names)]
    /\ availableNames \in [DatabaseIds -> Seq(Names)]
    /\ recent \in [DatabaseIds -> BOOLEAN]
    /\ open \in SUBSET Names
    /\ held \in [Contexts -> [DatabaseIds -> Names \cup {Nobody}]]
    /\ call \in [Contexts -> [at : ContextPlaces, id : Nat,
                              name : Names \cup {Nobody}]]
    /\ timer \in [at : TimerPlaces, id : Nat, name : Names \cup {Nobody}]
    /\ closed \in BOOLEAN

(* init(): every name is made and pushed, closed, on its available stack.   *)
Init ==
    /\ cachedDatabase = [id \in DatabaseIds |-> <<>>]
    /\ availableNames = [id \in DatabaseIds |-> [i \in 1 .. MaxConnects |-> <<id, i>>]]
    /\ recent = [id \in DatabaseIds |-> FALSE]
    /\ open = {}
    /\ held = [c \in Contexts |-> [id \in DatabaseIds |-> Nobody]]
    /\ call = [c \in Contexts |-> Outside]
    /\ timer = Outside
    /\ closed = FALSE

-----------------------------------------------------------------------------
(* database(id), called by getSqlDatabase() / getKvsDatabase() when the     *)
(* context holds no valid connection of that id.                            *)

GetDatabase(c, id) ==
    /\ ~closed
    /\ call[c].at = "outside"
    /\ held[c][id] = Nobody
    /\ call' = [call EXCEPT ![c] = At("popCache", id, Nobody)]
    /\ UNCHANGED <<cachedDatabase, availableNames, recent, open, held, timer,
                   closed>>

\* cache.pop(name)
PopCache(c) ==
    LET id == call[c].id IN
    /\ call[c].at = "popCache"
    /\ cachedDatabase[id] # <<>>
    /\ call' = [call EXCEPT ![c] = At("test", id, Top(cachedDatabase[id]))]
    /\ cachedDatabase' = [cachedDatabase EXCEPT ![id] = Popped(@)]
    /\ UNCHANGED <<availableNames, recent, open, held, timer, closed>>

\* Fault: with an empty cache the loop begins again instead of going on.
PopCacheRetries(c) ==
    /\ call[c].at = "popCache"
    /\ cachedDatabase[call[c].id] = <<>>
    /\ UNCHANGED vars

PopCacheEmpty(c) ==
    /\ call[c].at = "popCache"
    /\ cachedDatabase[call[c].id] = <<>>
    /\ call' = [call EXCEPT ![c] = At("popAvailable", call[c].id, Nobody)]
    /\ UNCHANGED <<cachedDatabase, availableNames, recent, open, held, timer,
                   closed>>

\* isOpen() on a cached connection: use it, or put it back as unopened.
UseCached(c) ==
    /\ call[c].at = "test"
    /\ call[c].name \in open
    /\ held' = [held EXCEPT ![c] = [@ EXCEPT ![call[c].id] = call[c].name]]
    /\ call' = [call EXCEPT ![c] = Outside]
    /\ UNCHANGED <<cachedDatabase, availableNames, recent, open, timer, closed>>

RejectCached(c) ==
    /\ call[c].at = "test"
    /\ call[c].name \notin open
    /\ call' = [call EXCEPT ![c] = At("pushBack", call[c].id, call[c].name)]
    /\ UNCHANGED <<cachedDatabase, availableNames, recent, open, held, timer,
                   closed>>

\* stack.push(name); continue
PushBack(c) ==
    LET id == call[c].id IN
    /\ call[c].at = "pushBack"
    /\ availableNames' = [availableNames EXCEPT ![id] = Push(@, call[c].name)]
    /\ call' = [call EXCEPT ![c] = At("popCache", id, Nobody)]
    /\ UNCHANGED <<cachedDatabase, recent, open, held, timer, closed>>

\* stack.pop(name), or once more round the loop: there is no other way out.
PopAvailable(c) ==
    LET id == call[c].id IN
    /\ call[c].at = "popAvailable"
    /\ availableNames[id] # <<>>
    /\ call' = [call EXCEPT ![c] = At("open", id, Top(availableNames[id]))]
    /\ availableNames' = [availableNames EXCEPT ![id] = Popped(@)]
    /\ UNCHANGED <<cachedDatabase, recent, open, held, timer, closed>>

PopAvailableEmpty(c) ==
    /\ call[c].at = "popAvailable"
    /\ availableNames[call[c].id] = <<>>
    /\ call' = [call EXCEPT ![c] = At("popCache", call[c].id, Nobody)]
    /\ UNCHANGED <<cachedDatabase, availableNames, recent, open, held, timer,
                   closed>>

\* An already open connection is used as it is, any other one is opened.
OpenSucceeds(c) ==
    /\ call[c].at = "open"
    /\ open' = open \cup {call[c].name}
    /\ held' = [held EXCEPT ![c] = [@ EXCEPT ![call[c].id] = call[c].name]]
    /\ call' = [call EXCEPT ![c] = Outside]
    /\ UNCHANGED <<cachedDatabase, availableNames, recent, timer, closed>>

\* Fault: the SQL pool, too, forgets a connection it could not open.
OpenFailsLeaks(c) ==
    /\ call[c].at = "open"
    /\ call[c].name \notin open
    /\ call' = [call EXCEPT ![c] = Outside]
    /\ UNCHANGED <<cachedDatabase, availableNames, recent, open, held, timer,
                   closed>>

\* open() fails.  The SQL pool goes on to push the name back; the KVS pool
\* returns an invalid database at once.
OpenFails(c) ==
    /\ call[c].at = "open"
    /\ call[c].name \notin open
    /\ call' = [call EXCEPT ![c] = IF Kind = "sql"
                                   THEN At("restore", call[c].id, call[c].name)
                                   ELSE Outside]
    /\ UNCHANGED <<cachedDatabase, availableNames, recent, open, held, timer,
                   closed>>

\* stack.push(name); return QSqlDatabase()
Restore(c) ==
    LET id == call[c].id IN
    /\ call[c].at = "restore"
    /\ availableNames' = [availableNames EXCEPT ![id] = Push(@, call[c].name)]
    /\ call' = [call EXCEPT ![c] = Outside]
    /\ UNCHANGED <<cachedDatabase, recent, open, held, timer, closed>>

-----------------------------------------------------------------------------
(* release(): pool() for every connection of the context, id by id, then    *)
(* clear().  pool() pushes the name first and stamps the time second.       *)

Release(c) ==
    /\ call[c].at = "outside"
    /\ Held(c) # {}
    /\ call' = [call EXCEPT ![c] = At("release", 0, Nobody)]
    /\ UNCHANGED <<cachedDatabase, availableNames, recent, open, held, timer,
                   closed>>

\* Fault: pool() does not invalidate the caller's object.
PoolNextKeeps(c) ==
    \E id \in DatabaseIds :
        /\ call[c].at = "release"
        /\ held[c][id] # Nobody
        /\ \A j \in DatabaseIds : held[c][j] # Nobody => id <= j
        /\ call' = [call EXCEPT ![c] = At("push", IdOf(held[c][id]), held[c][id])]
        /\ UNCHANGED <<cachedDatabase, availableNames, recent, open, held, timer, closed>>

PoolNext(c) ==
    \E id \in DatabaseIds :
        /\ call[c].at = "release"
        /\ held[c][id] # Nobody
        /\ \A j \in DatabaseIds : held[c][j] # Nobody => id <= j
        /\ call' = [call EXCEPT ![c] = At("push", IdOf(held[c][id]), held[c][id])]
        /\ held' = [held EXCEPT ![c] = [@ EXCEPT ![id] = Nobody]]
        /\ UNCHANGED <<cachedDatabase, availableNames, recent, open, timer, closed>>

Released(c) ==
    /\ call[c].at = "release"
    /\ Held(c) = {}
    /\ call' = [call EXCEPT ![c] = Outside]
    /\ UNCHANGED <<cachedDatabase, availableNames, recent, open, held, timer,
                   closed>>

PoolPush(c) ==
    LET id == call[c].id IN
    /\ call[c].at = "push"
    /\ cachedDatabase' = [cachedDatabase EXCEPT ![id] = Push(@, call[c].name)]
    /\ call' = [call EXCEPT ![c] = At("stamp", id, Nobody)]
    /\ UNCHANGED <<availableNames, recent, open, held, timer, closed>>

PoolStamp(c) ==
    /\ call[c].at = "stamp"
    /\ recent' = [recent EXCEPT ![call[c].id] = TRUE]
    /\ call' = [call EXCEPT ![c] = At("release", 0, Nobody)]
    /\ UNCHANGED <<cachedDatabase, availableNames, open, held, timer, closed>>

-----------------------------------------------------------------------------
(* timerEvent(), in the main thread.  One event visits every id in turn.    *)

FirstId    == CHOOSE id \in DatabaseIds : \A j \in DatabaseIds : id <= j
LaterIds(id) == {j \in DatabaseIds : id < j}
NextTimer(id) ==
    IF LaterIds(id) = {}
    THEN Outside
    ELSE At("load", CHOOSE j \in LaterIds(id) : \A k \in LaterIds(id) : j <= k, Nobody)

TimerStart ==
    /\ ~closed
    /\ timer.at = "outside"
    /\ timer' = At("load", FirstId, Nobody)
    /\ UNCHANGED <<cachedDatabase, availableNames, recent, open, held, call,
                   closed>>

\* The SQL pool skips an empty cache; both stop at a recently used one.
TimerLoad ==
    /\ timer.at = "load"
    /\ ~recent[timer.id]
    /\ Kind = "sql" => cachedDatabase[timer.id] # <<>>
    /\ timer' = At("pop", timer.id, Nobody)
    /\ UNCHANGED <<cachedDatabase, availableNames, recent, open, held, call,
                   closed>>

TimerSkip ==
    /\ timer.at = "load"
    /\ recent[timer.id] \/ (Kind = "sql" /\ cachedDatabase[timer.id] = <<>>)
    /\ timer' = NextTimer(timer.id)
    /\ UNCHANGED <<cachedDatabase, availableNames, recent, open, held, call,
                   closed>>

\* Fault: top() instead of pop().
TimerTop ==
    LET id == timer.id IN
    /\ timer.at = "pop"
    /\ cachedDatabase[id] # <<>>
    /\ timer' = At("close", id, Top(cachedDatabase[id]))
    /\ UNCHANGED <<cachedDatabase, availableNames, recent, open, held, call, closed>>

TimerPop ==
    LET id == timer.id IN
    /\ timer.at = "pop"
    /\ cachedDatabase[id] # <<>>
    /\ timer' = At("close", id, Top(cachedDatabase[id]))
    /\ cachedDatabase' = [cachedDatabase EXCEPT ![id] = Popped(@)]
    /\ UNCHANGED <<availableNames, recent, open, held, call, closed>>

TimerPopEmpty ==
    /\ timer.at = "pop"
    /\ cachedDatabase[timer.id] = <<>>
    /\ timer' = NextTimer(timer.id)
    /\ UNCHANGED <<cachedDatabase, availableNames, recent, open, held, call,
                   closed>>

\* Fault: close() is left out.
TimerForgetsClose ==
    /\ timer.at = "close"
    /\ timer' = [timer EXCEPT !.at = "push"]
    /\ UNCHANGED <<cachedDatabase, availableNames, recent, open, held, call, closed>>

TimerClose ==
    /\ timer.at = "close"
    /\ open' = open \ {timer.name}
    /\ timer' = [timer EXCEPT !.at = "push"]
    /\ UNCHANGED <<cachedDatabase, availableNames, recent, held, call, closed>>

\* Fault: the closed connection goes back to the cache.
TimerPushesCache ==
    LET id == timer.id IN
    /\ timer.at = "push"
    /\ cachedDatabase' = [cachedDatabase EXCEPT ![id] = Push(@, timer.name)]
    /\ timer' = At("load", id, Nobody)
    /\ UNCHANGED <<availableNames, recent, open, held, call, closed>>

TimerPush ==
    LET id == timer.id IN
    /\ timer.at = "push"
    /\ availableNames' = [availableNames EXCEPT ![id] = Push(@, timer.name)]
    /\ timer' = At("load", id, Nobody)
    /\ UNCHANGED <<cachedDatabase, recent, open, held, call, closed>>

-----------------------------------------------------------------------------
(* The environment, and the end of the process.                             *)

\* Thirty seconds pass without a pool() of this id.
Idle(id) ==
    /\ recent[id]
    /\ recent' = [recent EXCEPT ![id] = FALSE]
    /\ UNCHANGED <<cachedDatabase, availableNames, open, held, call, timer,
                   closed>>

\* A connection is closed under the pool: by the application that holds it
\* or, in the KVS pool, at any time by the server, for TRedisDriver::isOpen
\* asks the socket.
Drop(n) ==
    /\ n \in open
    /\ ~closed
    /\ Kind = "sql" => \E c \in Contexts : n \in Held(c)
    /\ open' = open \ {n}
    /\ UNCHANGED <<cachedDatabase, availableNames, recent, held, call, timer,
                   closed>>

\* The destructor, run by qAddPostRoutine when the workers are gone and the
\* main thread, which is the timer's, is out of its event loop.
Destroy ==
    /\ ~closed
    /\ timer.at = "outside"
    /\ \A c \in Contexts : call[c].at = "outside" /\ Held(c) = {}
    /\ closed' = TRUE
    /\ open' = open \ UNION {InStack(cachedDatabase[id]) : id \in DatabaseIds}
    /\ cachedDatabase' = [id \in DatabaseIds |-> <<>>]
    /\ availableNames' = [id \in DatabaseIds |-> <<>>]
    /\ UNCHANGED <<recent, held, call, timer>>

-----------------------------------------------------------------------------

DatabaseStep(c) ==
    \/ PopCache(c) \/ PopCacheEmpty(c) \/ UseCached(c) \/ RejectCached(c)
    \/ PushBack(c) \/ PopAvailable(c) \/ PopAvailableEmpty(c)
    \/ OpenSucceeds(c) \/ OpenFails(c) \/ Restore(c)

ReleaseStep(c) ==
    Release(c) \/ PoolNext(c) \/ Released(c) \/ PoolPush(c) \/ PoolStamp(c)

TimerStep ==
    \/ TimerLoad \/ TimerSkip \/ TimerPop \/ TimerPopEmpty
    \/ TimerClose \/ TimerPush

Next ==
    \/ \E c \in Contexts :
          \/ \E id \in DatabaseIds : GetDatabase(c, id)
          \/ DatabaseStep(c)
          \/ ReleaseStep(c)
    \/ TimerStart
    \/ TimerStep
    \/ \E id \in DatabaseIds : Idle(id)
    \/ \E n \in Names : Drop(n)
    \/ Destroy

Spec == Init /\ [][Next]_vars

(* Threads are scheduled; a worker that took a connection calls release()   *)
(* when its request is over; the timer fires and its events end.  Nothing   *)
(* makes a context call database(), a connection drop or the process stop.  *)
Fairness ==
    /\ \A c \in Contexts : WF_vars(DatabaseStep(c)) /\ WF_vars(ReleaseStep(c))
    /\ WF_vars(TimerStart) /\ WF_vars(TimerStep)
    /\ \A id \in DatabaseIds : WF_vars(Idle(id))

FairSpec == Spec /\ Fairness

-----------------------------------------------------------------------------
(* Properties.                                                              *)

Cached(n)     == n \in InStack(cachedDatabase[IdOf(n)])
Available(n)  == n \in InStack(availableNames[IdOf(n)])
Carries(c, n) == held[c][IdOf(n)] = n \/ call[c].name = n
NoDuplicate(s) == \A i, j \in 1 .. Len(s) : s[i] = s[j] => i = j

\* No connection is in two places: on both stacks, twice on one, on a stack
\* and with a thread, or with two threads.  So no two threads ever use one
\* connection at a time, however database(), pool() and timerEvent() interleave.
NeverShared ==
    /\ \A id \in DatabaseIds : /\ NoDuplicate(cachedDatabase[id])
                              /\ NoDuplicate(availableNames[id])
    /\ \A n \in Names :
          /\ Cached(n) => ~Available(n)
          /\ timer.name = n => ~Cached(n) /\ ~Available(n)
          /\ \A c \in Contexts :
                Carries(c, n) => ~Cached(n) /\ ~Available(n) /\ timer.name # n
          /\ \A c, d \in Contexts : Carries(c, n) /\ Carries(d, n) => c = d
          /\ \A c \in Contexts : ~(held[c][IdOf(n)] = n /\ call[c].name = n)

\* No connection is lost: while the pool exists each of the maxConnects names
\* that init() made is on a stack, with a context or in a hand.  (On failure
\* of open() the SQL pool pushes the name back, tsqldatabasepool.cpp:141.)
NeverLost ==
    ~closed => \A n \in Names : \/ Cached(n) \/ Available(n) \/ timer.name = n
                                \/ \E c \in Contexts : Carries(c, n)

\* A name on an available stack is closed, and so is one that is about to be
\* opened: the branch that warns "Gets a opend database" is never taken.
AvailableAreClosed ==
    \A n \in Names :
        \/ Available(n)
        \/ \E c \in Contexts : /\ call[c].name = n
                             /\ call[c].at \in {"open", "restore", "pushBack"}
        => n \notin open

InDatabaseCall(c) ==
    call[c].at \in {"popCache", "test", "pushBack", "popAvailable", "open", "restore"}

NewCall == \E c \in Contexts, id \in DatabaseIds : GetDatabase(c, id)

\* Once no further calls arrive, each call of database() returns, with a
\* connection or with an invalid one, even when there are more callers than
\* connections.  (The loop is lock-free, not wait-free: against a stream of new
\* callers and timer events one caller can find both stacks empty for ever.)
DatabaseReturns ==
    <>[][~NewCall]_vars
        => \A c \in Contexts : InDatabaseCall(c) ~> ~InDatabaseCall(c)

\* When the contexts stop using the pool, the timer closes what is cached and
\* every name ends up, closed, where init() put it.
IdleConnectionsClose ==
    <>[](\A c \in Contexts : call[c].at = "outside" /\ Held(c) = {})
        => <>[](open = {} /\ \A id \in DatabaseIds : cachedDatabase[id] = <<>>)

\* The abstract pool this one implements: a connection belongs to a context
\* from the moment database() returns it until pool() has pushed it.
Owns(c, n) ==
    held[c][IdOf(n)] = n \/ (call[c].at = "push" /\ call[c].name = n)

Owner ==
    [n \in Names |-> IF \E c \in Contexts : Owns(c, n)
                    THEN CHOOSE c \in Contexts : Owns(c, n)
                    ELSE Nobody]

Abstract == INSTANCE ConnectionPool WITH owner <- Owner

\* Every step of the pool is an Acquire, a Return or a stutter of the abstract
\* pool: exclusive ownership, seen by the callers of database() and pool().
ImplementsConnectionPool == Abstract!Spec
=============================================================================
