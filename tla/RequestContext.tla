--------------------------- MODULE RequestContext ---------------------------
(***************************************************************************)
(* What happens to the database transactions of the requests that run in    *)
(* TActionContext (one TActionThread or TActionWorker object serving the    *)
(* requests of a keep-alive connection or a pipeline) and of the payloads   *)
(* that run in TWebSocketWorker.  Both derive from TDatabaseContext, which  *)
(* holds at most one connection per database and a TSqlTransaction object;  *)
(* the object, and so its `enabled` flag, outlives the single request.      *)
(*                                                                          *)
(* The connection pool is the abstract one of module ConnectionPool, seen   *)
(* as the set of free connections.  A statement run on a connection is      *)
(* pending while the database session is in a transaction, durable else.    *)
(* A database may fail to begin, commit or roll back; TSqlTransaction keeps *)
(* its record at the first and drops it at the others, whatever came out.   *)
(***************************************************************************)
EXTENDS Naturals, FiniteSets

CONSTANTS
    HttpContexts,     \* TActionThread / TActionWorker objects
    SocketContexts,   \* TWebSocketWorker objects
    DatabaseIds,      \* the SQL databases of database.ini
    MaxConnects,      \* connections per database
    MaxUnits,         \* bound: requests or payloads one context serves
    MaxTotal,         \* bound: requests and payloads of all contexts
    AppWrites,        \* the statements an action may run on a database
    Policies,         \* the values transactionEnabled() has in the controllers
    SessionPolicies,  \* may requests have a session in the sqlobject store?
    Transactional,    \* the databases whose driver has QSqlDriver::Transactions
    Failures,         \* what may fail: "begin", "rollback" and commit(), which
                      \* "aborts" the transaction or after which it "stays" open
    MaxDisturbed,     \* bound: nothing fails after so many requests were disturbed
    OpenFailures,     \* may opening a connection fail?
    NoConnection

ASSUME ContextAssumptions ==
    /\ HttpContexts \cap SocketContexts = {}
    /\ DatabaseIds \subseteq Nat /\ 0 \in DatabaseIds
    /\ MaxConnects \in Nat \ {0} /\ MaxUnits \in Nat \ {0} /\ MaxTotal \in Nat
    /\ Policies \subseteq BOOLEAN /\ SessionPolicies \subseteq BOOLEAN
    /\ Transactional \subseteq DatabaseIds
    /\ Failures \subseteq {"begin", "rollback", "aborts", "stays"}
    /\ MaxDisturbed \in Nat
    /\ OpenFailures \in BOOLEAN
    /\ NoConnection \notin DatabaseIds \X (1 .. MaxConnects)
    /\ AppWrites \cap {"remove", "session", "gc"} = {}

Contexts    == HttpContexts \cup SocketContexts
Connections == DatabaseIds \X (1 .. MaxConnects)
IdOf(n)     == n[1]
SessionDb   == 0    \* TSessionObject::databaseId()
Units       == 1 .. MaxUnits

\* A statement: who ran it, for which request, on which database, and which.
Writes == Contexts \X Units \X DatabaseIds \X (AppWrites \cup {"remove", "session", "gc"})

VARIABLES
    free,      \* connections in the pool
    held,      \* held[c][id]: TDatabaseContext::sqlDatabases[id]
    wants,     \* wants[c]: the id whose getSqlDatabase() the action is in
    begun,     \* begun[c]: ids with TSqlTransaction::databases[id].isValid()
    enabled,   \* TSqlTransaction::enabled
    inTx,      \* connections whose database session is in a transaction
    pending,   \* pending[n]: what the open transaction of n has written
    durable,   \* what has been committed
    phase,     \* how far execute() is
    unit,      \* how many requests or payloads the context has begun
    policy,    \* policy[c][u]: transactionEnabled() of its controller
    session,   \* session[c]: the request has a session in the database
    outcome,   \* outcome[c][u]: how the action ended
    executed,  \* history: the statements that succeeded
    answered,  \* history: requests answered with the action's response
    late,      \* history: requests that got the session's database to store only
    tainted,   \* history: connections a failed commit() or rollback() left in
               \* a transaction
    disturbed  \* history: <<c, u, id>>, a request whose transaction on id did not
               \* begin or end as told, or whose connection came tainted

dbVars   == <<free, held, wants, begun, inTx, pending, durable, tainted, disturbed>>
unitVars == <<unit, policy, session, outcome, answered, late>>
vars     == <<free, held, wants, begun, enabled, inTx, pending, durable, phase, unit,
              policy, session, outcome, executed, answered, late, tainted, disturbed>>

Phases   == {"idle", "session", "action", "finish", "store", "respond", "gc",
             "release", "ended"}
Outcomes == {"none", "commit", "rollback", "exception", "filtered", "failed"}

TypeOK ==
    /\ free \in SUBSET Connections
    /\ held \in [Contexts -> [DatabaseIds -> Connections \cup {NoConnection}]]
    /\ wants \in [Contexts -> DatabaseIds \cup {NoConnection}]
    /\ begun \in [Contexts -> SUBSET DatabaseIds]
    /\ enabled \in [Contexts -> BOOLEAN]
    /\ inTx \in SUBSET Connections
    /\ pending \in [Connections -> SUBSET Writes]
    /\ durable \in SUBSET Writes
    /\ phase \in [Contexts -> Phases]
    /\ unit \in [Contexts -> 0 .. MaxUnits]
    /\ policy \in [Contexts -> [Units -> BOOLEAN]]
    /\ session \in [Contexts -> BOOLEAN]
    /\ outcome \in [Contexts -> [Units -> Outcomes]]
    /\ executed \in SUBSET Writes
    /\ answered \in SUBSET (Contexts \X Units)
    /\ late \in SUBSET (Contexts \X Units)
    /\ tainted \in SUBSET inTx
    /\ disturbed \in SUBSET (Contexts \X Units \X DatabaseIds)

Init ==
    /\ free = Connections
    /\ held = [c \in Contexts |-> [id \in DatabaseIds |-> NoConnection]]
    /\ wants = [c \in Contexts |-> NoConnection]
    /\ begun = [c \in Contexts |-> {}]
    /\ enabled = [c \in Contexts |-> TRUE]
    /\ inTx = {}
    /\ pending = [n \in Connections |-> {}]
    /\ durable = {}
    /\ phase = [c \in Contexts |-> "idle"]
    /\ unit = [c \in Contexts |-> 0]
    /\ policy = [c \in Contexts |-> [u \in Units |-> FALSE]]
    /\ session = [c \in Contexts |-> FALSE]
    /\ outcome = [c \in Contexts |-> [u \in Units |-> "none"]]
    /\ executed = {}
    /\ answered = {}
    /\ late = {}
    /\ tainted = {}
    /\ disturbed = {}

-----------------------------------------------------------------------------
(* TDatabaseContext and TSqlTransaction.                                    *)

\* The database whose connection execute() needs in the phase it is in.
Touches(c, id) ==
    \/ phase[c] = "action" /\ wants[c] = id
    \/ phase[c] \in {"session", "store"} /\ id = SessionDb
    \/ phase[c] = "gc" /\ id = SessionDb /\ TRUE \in SessionPolicies

\* Fault: a transaction is begun for the action only.
GetSqlDatabaseForAction(c, id) ==
    /\ Touches(c, id)
    /\ held[c][id] = NoConnection
    /\ \E n \in free :
          /\ IdOf(n) = id
          /\ free' = free \ {n}
          /\ held' = [held EXCEPT ![c] = [@ EXCEPT ![id] = n]]
          /\ inTx' = IF enabled[c] /\ phase[c] = "action" THEN inTx \cup {n} ELSE inTx
    /\ wants' = [wants EXCEPT ![c] = NoConnection]
    /\ begun' = IF enabled[c] /\ phase[c] = "action"
                THEN [begun EXCEPT ![c] = @ \cup {id}] ELSE begun
    /\ UNCHANGED <<enabled, pending, durable, phase, executed, unitVars, tainted, disturbed>>

\* getSqlDatabase(): a connection comes from the pool, and a transaction is
\* begun on it there and then, if the flag is set at that moment and the driver
\* knows transactions.  begin() keeps its record when transaction() fails.
Begins(c, id) == enabled[c] /\ id \in Transactional

MayFail(what) == what \in Failures /\ Cardinality(disturbed) < MaxDisturbed

Disturbs(c, ids) == disturbed' = disturbed \cup {<<c, unit[c], id>> : id \in ids}

GetSqlDatabase(c, id) ==
    /\ Touches(c, id)
    /\ held[c][id] = NoConnection
    /\ \E n \in free :
          /\ IdOf(n) = id
          /\ free' = free \ {n}
          /\ held' = [held EXCEPT ![c] = [@ EXCEPT ![id] = n]]
          /\ \/ /\ inTx' = IF Begins(c, id) THEN inTx \cup {n} ELSE inTx
                /\ Disturbs(c, IF n \in tainted THEN {id} ELSE {})
             \/ /\ MayFail("begin") /\ Begins(c, id)
                /\ UNCHANGED inTx
                /\ Disturbs(c, {id})
    /\ wants' = [wants EXCEPT ![c] = NoConnection]
    /\ begun' = IF Begins(c, id) THEN [begun EXCEPT ![c] = @ \cup {id}] ELSE begun
    /\ late' = IF phase[c] = "store" THEN late \cup {<<c, unit[c]>>} ELSE late
    /\ UNCHANGED <<enabled, pending, durable, phase, executed, unit, policy, session, outcome,
                   answered, tainted>>

\* Running a statement on the connection of database id.
Execute(c, id, what) ==
    LET n == held[c][id]
        w == <<c, unit[c], id, what>> IN
    /\ n # NoConnection
    /\ executed' = executed \cup {w}
    /\ IF n \in inTx
       THEN /\ pending' = [pending EXCEPT ![n] = @ \cup {w}]
            /\ UNCHANGED durable
       ELSE /\ durable' = durable \cup {w}
            /\ UNCHANGED pending
    /\ UNCHANGED <<free, held, wants, begun, inTx, tainted, disturbed>>

\* database() gives up on a connection that cannot be opened.
OpenFails(c) ==
    /\ OpenFailures
    /\ wants[c] # NoConnection
    /\ wants' = [wants EXCEPT ![c] = NoConnection]
    /\ UNCHANGED <<free, held, begun, inTx, pending, durable, tainted, disturbed,
                   enabled, phase, executed, unitVars>>

\* A statement that finds no connection to the database fails.
ExecuteFails(c, id) ==
    /\ OpenFailures
    /\ held[c][id] = NoConnection
    /\ UNCHANGED <<dbVars, executed>>

\* The session of the connection is out of its transaction, which is over ...
Leaves(n) ==
    /\ pending' = [pending EXCEPT ![n] = {}]
    /\ inTx' = inTx \ {n}
    /\ tainted' = tainted \ {n}
    /\ UNCHANGED disturbed

\* ... or is still in it, if it was, and has no record of it any more.
Remains(c, id) ==
    /\ tainted' = tainted \cup ({held[c][id]} \cap inTx)
    /\ Disturbs(c, {id})
    /\ UNCHANGED <<pending, inTx>>

\* TSqlTransaction::commit(id): the record goes, whatever commit() returned.
Commit(c, id) ==
    /\ begun' = [begun EXCEPT ![c] = @ \ {id}]
    /\ durable' = durable \cup pending[held[c][id]]
    /\ Leaves(held[c][id])
    /\ UNCHANGED outcome

CommitFailed(c, id) ==
    /\ begun' = [begun EXCEPT ![c] = @ \ {id}]
    /\ outcome' = [outcome EXCEPT ![c] = [@ EXCEPT ![unit[c]] = "failed"]]
    /\ \/ MayFail("aborts") /\ Leaves(held[c][id])
       \/ MayFail("stays") /\ Remains(c, id)
    /\ UNCHANGED durable

\* TSqlTransaction::rollback(id): the record goes here too.
Rollback(c, id) ==
    /\ begun' = [begun EXCEPT ![c] = @ \ {id}]
    /\ \/ Leaves(held[c][id])
       \/ MayFail("rollback") /\ Remains(c, id)
    /\ UNCHANGED <<durable, outcome>>

\* Fault: release() does not roll back.
ReleaseWithoutRollback(c) ==
    /\ free' = free \cup ({held[c][id] : id \in DatabaseIds} \ {NoConnection})
    /\ held' = [held EXCEPT ![c] = [id \in DatabaseIds |-> NoConnection]]
    /\ begun' = [begun EXCEPT ![c] = {}]
    /\ UNCHANGED <<wants, durable, inTx, pending, tainted, disturbed>>

\* TDatabaseContext::release(): rollbackTransactions(), of which some may fail,
\* then pool() for each.
ReleaseDatabases(c) ==
    /\ \E failed \in SUBSET begun[c] :
          LET over == {held[c][id] : id \in begun[c] \ failed}
              left == {held[c][id] : id \in failed} \cap inTx IN
          /\ failed = {} \/ MayFail("rollback")
          /\ inTx' = inTx \ over
          /\ pending' = [n \in Connections |-> IF n \in over THEN {} ELSE pending[n]]
          /\ tainted' = (tainted \ over) \cup left
          /\ Disturbs(c, failed)
    /\ free' = free \cup ({held[c][id] : id \in DatabaseIds} \ {NoConnection})
    /\ held' = [held EXCEPT ![c] = [id \in DatabaseIds |-> NoConnection]]
    /\ begun' = [begun EXCEPT ![c] = {}]
    /\ UNCHANGED <<wants, durable>>

-----------------------------------------------------------------------------
(* TActionContext::execute()                                                *)

\* The bounds on requests and payloads
MayBegin(c) ==
    /\ unit[c] < MaxUnits
    /\ Cardinality({r \in Contexts \X Units : r[2] <= unit[r[1]]}) < MaxTotal

InAction(c) == phase[c] = "action" /\ wants[c] = NoConnection

\* A request is read and its controller found.  With a session, the session
\* store is used before setTransactionEnabled() is called.
StartRequest(c) ==
    \E tx \in Policies, s \in SessionPolicies :
        /\ c \in HttpContexts
        /\ phase[c] = "idle"
        /\ MayBegin(c)
        /\ unit' = [unit EXCEPT ![c] = @ + 1]
        /\ policy' = [policy EXCEPT ![c] = [@ EXCEPT ![unit[c] + 1] = tx]]
        /\ session' = [session EXCEPT ![c] = s]
        /\ phase' = [phase EXCEPT ![c] = IF s THEN "session" ELSE "action"]
        /\ enabled' = IF s THEN enabled ELSE [enabled EXCEPT ![c] = tx]
        /\ UNCHANGED <<dbVars, outcome, executed, answered, late>>

\* findSession() and generateId() have read the store; with a new ID the old
\* session is removed.  Then setTransactionEnabled().
FindSession(c) ==
    /\ phase[c] = "session"
    /\ \/ /\ held[c][SessionDb] # NoConnection
          /\ UNCHANGED <<dbVars, executed>>
       \/ Execute(c, SessionDb, "remove")
       \/ ExecuteFails(c, SessionDb)
    /\ enabled' = [enabled EXCEPT ![c] = policy[c][unit[c]]]
    /\ phase' = [phase EXCEPT ![c] = "action"]
    /\ UNCHANGED unitVars

\* The action, or a filter, asks for a database it has no connection to.
AskDatabase(c, id) ==
    /\ InAction(c)
    /\ held[c][id] = NoConnection
    /\ wants' = [wants EXCEPT ![c] = id]
    /\ UNCHANGED <<free, held, begun, inTx, pending, durable, tainted, disturbed,
                   enabled, phase, executed, unitVars>>

\* It runs a statement, the next one: their names only tell them apart.
RunStatement(c, id, what) ==
    /\ InAction(c)
    /\ <<c, unit[c], id, what>> \notin executed
    /\ what = CHOOSE x \in AppWrites : <<c, unit[c], id, x>> \notin executed
    /\ Execute(c, id, what)
    /\ UNCHANGED <<enabled, phase, unitVars>>

\* Fault: the response is written before the transactions are committed.
ActionReturnsAnswers(c) ==
    \E how \in {"commit", "rollback"} :
        /\ InAction(c)
        /\ outcome' = [outcome EXCEPT ![c] = [@ EXCEPT ![unit[c]] = how]]
        /\ phase' = [phase EXCEPT ![c] = "respond"]
        /\ UNCHANGED <<dbVars, enabled, executed, unit, policy, session, answered, late>>

\* The action returns; rollbackRequested() decides what follows.
ActionReturns(c) ==
    \E how \in {"commit", "rollback"} :
        /\ InAction(c)
        /\ outcome' = [outcome EXCEPT ![c] = [@ EXCEPT ![unit[c]] = how]]
        /\ phase' = [phase EXCEPT ![c] = "finish"]
        /\ UNCHANGED <<dbVars, enabled, executed, unit, policy, session, answered, late>>

\* preFilter() refuses: neither commit nor rollback, and no session store.
PreFilterRefuses(c) ==
    /\ c \in HttpContexts
    /\ InAction(c)
    /\ outcome' = [outcome EXCEPT ![c] = [@ EXCEPT ![unit[c]] = "filtered"]]
    /\ phase' = [phase EXCEPT ![c] = "respond"]
    /\ UNCHANGED <<dbVars, enabled, executed, unit, policy, session, answered, late>>

\* An exception leaves execute(): the catch blocks neither commit nor roll back.
\* TActionContext is then released; TWebSocketWorker takes its next payload.
Throw(c) ==
    /\ InAction(c) \/ phase[c] \in {"session", "store", "gc"}
    /\ outcome' = IF outcome[c][unit[c]] = "none"
                  THEN [outcome EXCEPT ![c] = [@ EXCEPT ![unit[c]] = "exception"]]
                  ELSE outcome
    /\ phase' = [phase EXCEPT ![c] = IF c \in HttpContexts THEN "release" ELSE "idle"]
    /\ UNCHANGED <<dbVars, enabled, executed, unit, policy, session, answered, late>>

\* Fault: rollbackRequested() is not looked at.
EndTransactionCommits(c) ==
    \E id \in begun[c] :
        /\ phase[c] = "finish"
        /\ \A j \in begun[c] : id <= j
        /\ Commit(c, id) \/ CommitFailed(c, id)
        /\ UNCHANGED <<free, held, wants, enabled, phase, executed, unit, policy,
                       session, answered, late>>

\* commitAll() / rollbackAll(), one database after the other.
EndTransaction(c) ==
    \E id \in begun[c] :
        /\ phase[c] = "finish"
        /\ \A j \in begun[c] : id <= j
        /\ IF outcome[c][unit[c]] = "rollback"
           THEN Rollback(c, id)
           ELSE Commit(c, id) \/ CommitFailed(c, id)
        /\ UNCHANGED <<free, held, wants, enabled, phase, executed, unit, policy,
                       session, answered, late>>

\* Fault: the session is stored before the transactions have ended.
TransactionsNotEnded(c) ==
    /\ phase[c] = "finish"
    /\ phase' = [phase EXCEPT ![c] = CASE c \in SocketContexts -> "idle"
                                       [] c \in HttpContexts /\ session[c] -> "store"
                                       [] OTHER -> "respond"]
    /\ UNCHANGED <<dbVars, enabled, executed, unitVars>>

TransactionsEnded(c) ==
    /\ phase[c] = "finish"
    /\ begun[c] = {}
    /\ phase' = [phase EXCEPT ![c] = CASE c \in SocketContexts -> "idle"
                                       [] c \in HttpContexts /\ session[c] -> "store"
                                       [] OTHER -> "respond"]
    /\ UNCHANGED <<dbVars, enabled, executed, unitVars>>

\* TSessionManager::store(), after the transactions have ended.
StoreSession(c) ==
    /\ phase[c] = "store"
    /\ Execute(c, SessionDb, "session") \/ ExecuteFails(c, SessionDb)
    /\ phase' = [phase EXCEPT ![c] = "respond"]
    /\ UNCHANGED <<enabled, unitVars>>

WriteResponse(c) ==
    /\ phase[c] = "respond"
    /\ answered' = answered \cup {<<c, unit[c]>>}
    /\ phase' = [phase EXCEPT ![c] = "gc"]
    /\ UNCHANGED <<dbVars, enabled, executed, unit, policy, session, outcome, late>>

\* collectGarbage(), which runs once in so many requests.
CollectGarbage(c) ==
    /\ phase[c] = "gc"
    /\ \/ /\ TRUE \in SessionPolicies
          /\ Execute(c, SessionDb, "gc") \/ ExecuteFails(c, SessionDb)
       \/ UNCHANGED <<dbVars, executed>>
    /\ phase' = [phase EXCEPT ![c] = "release"]
    /\ UNCHANGED <<enabled, unitVars>>

\* TActionContext::release(), after each request.
Release(c) ==
    /\ phase[c] = "release"
    /\ ReleaseDatabases(c)
    /\ phase' = [phase EXCEPT ![c] = "idle"]
    /\ UNCHANGED <<enabled, executed, unitVars>>

-----------------------------------------------------------------------------
(* TWebSocketWorker::execute() and the end of a context.                    *)

StartPayload(c) ==
    \E tx \in Policies :
        /\ c \in SocketContexts
        /\ phase[c] = "idle"
        /\ MayBegin(c)
        /\ unit' = [unit EXCEPT ![c] = @ + 1]
        /\ policy' = [policy EXCEPT ![c] = [@ EXCEPT ![unit[c] + 1] = tx]]
        /\ enabled' = [enabled EXCEPT ![c] = tx]
        /\ phase' = [phase EXCEPT ![c] = "action"]
        /\ UNCHANGED <<dbVars, session, outcome, executed, answered, late>>

\* Fault: the destructor does not release.
EndWorkerHolding(c) ==
    /\ phase[c] = "idle"
    /\ phase' = [phase EXCEPT ![c] = "ended"]
    /\ UNCHANGED <<dbVars, enabled, executed, unitVars>>

\* The worker object is deleted: ~TDatabaseContext() releases.
EndWorker(c) ==
    /\ phase[c] = "idle"
    /\ ReleaseDatabases(c)
    /\ phase' = [phase EXCEPT ![c] = "ended"]
    /\ UNCHANGED <<enabled, executed, unitVars>>

\* The server process dies: its database sessions end, uncommitted.
Crash ==
    /\ \E c \in Contexts : phase[c] # "ended"
    /\ phase' = [c \in Contexts |-> "ended"]
    /\ free' = Connections
    /\ held' = [c \in Contexts |-> [id \in DatabaseIds |-> NoConnection]]
    /\ wants' = [c \in Contexts |-> NoConnection]
    /\ begun' = [c \in Contexts |-> {}]
    /\ inTx' = {}
    /\ pending' = [n \in Connections |-> {}]
    /\ tainted' = {}
    /\ UNCHANGED <<durable, disturbed, enabled, executed, unitVars>>

Step(c) ==
    \/ StartRequest(c) \/ StartPayload(c)
    \/ \E id \in DatabaseIds : GetSqlDatabase(c, id)
    \/ \E id \in DatabaseIds : AskDatabase(c, id)
    \/ OpenFails(c) \/ FindSession(c)
    \/ \E id \in DatabaseIds, what \in AppWrites : RunStatement(c, id, what)
    \/ ActionReturns(c) \/ PreFilterRefuses(c) \/ Throw(c)
    \/ EndTransaction(c) \/ TransactionsEnded(c)
    \/ StoreSession(c) \/ WriteResponse(c) \/ CollectGarbage(c)
    \/ Release(c) \/ EndWorker(c)

Next == (\E c \in Contexts : Step(c)) \/ Crash

Spec == Init /\ [][Next]_vars

(* Worker threads are scheduled, and actions come to an end.  Requests need *)
(* not arrive, but a worker that has nothing left to do is deleted.         *)
Finishes(c) ==
    \/ \E id \in DatabaseIds : GetSqlDatabase(c, id)
    \/ FindSession(c) \/ ActionReturns(c) \/ EndTransaction(c)
    \/ TransactionsEnded(c) \/ StoreSession(c) \/ WriteResponse(c)
    \/ CollectGarbage(c) \/ Release(c) \/ EndWorker(c)

FairSpec == Spec /\ \A c \in Contexts : WF_vars(Finishes(c))

-----------------------------------------------------------------------------
(* Properties.                                                              *)

AppStatements(c, u, id) == {w \in executed : w[1] = c /\ w[2] = u /\ w[3] = id /\ w[4] \in AppWrites}

\* A connection goes back to the pool with no transaction open on its database
\* session and nothing left uncommitted: what one request leaves behind can
\* never be committed, or seen, by the next request that gets the connection.
\* The exception is a connection whose commit() or rollback() failed and left the
\* transaction open: TSqlTransaction has dropped its record, and the connection
\* stays as it is, through any number of requests, until a later one succeeds.
PooledAreClean == \A n \in free \ tainted : n \notin inTx /\ pending[n] = {}

\* Two contexts never hold one connection, and a held one is not in the pool.
HeldExclusively ==
    \A c, d \in Contexts, i, j \in DatabaseIds :
        /\ held[c][i] # NoConnection /\ held[c][i] = held[d][j] => c = d /\ i = j
        /\ held[c][i] \notin free

\* An action of a controller with transactions that throws, or that calls
\* rollbackTransaction(), leaves none of its statements in the database.
\* (docs/en/user-guide/model/transaction.md: "you can throw an exception or call
\* rollbackTransaction() method in the controller".)
RollbackAlwaysUndoes ==
    \A c \in HttpContexts, u \in Units :
        policy[c][u] /\ outcome[c][u] \in {"rollback", "exception"}
        => \A id \in DatabaseIds : AppStatements(c, u, id) \cap durable = {}

\* The code gives this to actions of a context that has served controllers with
\* transactions only, since the session store uses the flag of the request before,
\* and to the payload of a WebSocket worker that has one only: a second payload
\* commits what a first that threw has left, and itself runs without a transaction
\* on the connection that the first has left in the context.
Steady(c, u) ==
    /\ \A v \in 1 .. u : policy[c][v]
    /\ c \in HttpContexts \/ unit[c] = 1

\* It gives it on databases with transactions, where the request's own began and
\* ended as told, on a connection that nobody left in a transaction.
Regular(c, u, id) == Steady(c, u) /\ id \in Transactional /\ <<c, u, id>> \notin disturbed

RollbackUndoes ==
    \A c \in Contexts, u \in Units, id \in DatabaseIds :
        Regular(c, u, id) /\ outcome[c][u] \in {"rollback", "exception"}
        => AppStatements(c, u, id) \cap durable = {}

\* The statements of one such action on one database are all in the database or
\* none is, and none before the action has returned, at every moment, through
\* exceptions, failed commits and crashes, and whatever befalls other requests.
AtomicPerDatabase ==
    \A c \in HttpContexts, u \in Units, id \in DatabaseIds :
        Regular(c, u, id) =>
            \/ AppStatements(c, u, id) \cap durable = {}
            \/ AppStatements(c, u, id) \subseteq durable /\ outcome[c][u] # "none"

\* When the response of a committed action is written, what the action did and
\* the removal of the session it replaced are in the database: both belong to the
\* transaction of the action, and commit comes before the response.  A request
\* that is disturbed may be answered with its statements in somebody's open
\* transaction.
AnsweredIsDurable ==
    \A w \in executed :
        /\ w[1] \in HttpContexts /\ <<w[1], w[2], w[3]>> \notin disturbed
        /\ <<w[1], w[2]>> \in answered /\ outcome[w[1]][w[2]] = "commit"
        /\ w[4] \in AppWrites \cup {"remove"}
        => w \in durable

\* A session that was stored survives the request, although the store runs
\* after the transaction has ended and release() rolls back: the connection must
\* be one that the request has had before, and out of its transaction.  When the
\* look-up of the session could not open the database and the store can,
\* getSqlDatabase() begins a transaction that nothing commits, and the session is
\* lost.
StoredSessionIsDurable ==
    \A w \in executed :
        /\ w[1] \in HttpContexts /\ <<w[1], w[2], w[3]>> \notin disturbed
        /\ w[4] = "session" /\ <<w[1], w[2]>> \notin late
        => w \in durable

\* Every request and payload comes to an end and its connections go back to
\* the pool.  This needs a single database, or a connection for every context:
\* otherwise two contexts that each hold one database and want the other's wait
\* in getSqlDatabase() for ever.
ConnectionsComeBack ==
    \A c \in Contexts, id \in DatabaseIds :
        []<>(held[c][id] = NoConnection)
=============================================================================
