--------------------- MODULE RequestTransactions_proofs ---------------------
(***************************************************************************)
(* What becomes of the statements of a request, for any number of contexts, *)
(* databases, connections and requests, whatever begin, commit and rollback *)
(* come to for other requests.                                              *)
(*                                                                          *)
(* The argument follows a statement from the moment it is run.  It waits on *)
(* the connection of its own context, in a transaction on record, or it is  *)
(* durable (Kept); of a context whose flag was always set it does wait      *)
(* (Collected); it can become durable only by the commit of its own request *)
(* (PendingOwn), and then with all the others on its database.  All of this *)
(* is said of requests that no failure has touched (Calm): a connection     *)
(* left in a transaction touches all that get it (TaintKnown), but a calm   *)
(* request never waits on one.                                              *)
(***************************************************************************)
EXTENDS RequestContext_proofs

ActionWrites == AppWrites \cup {"remove"}

\* The statement is uncommitted, in a transaction its context has on record.
Waiting(w) == w[3] \in begun[w[1]] /\ w \in pending[held[w[1]][w[3]]]

\* The transaction of the statement's database has not ended.
Unended(w) ==
    /\ w[2] = unit[w[1]]
    /\ \/ phase[w[1]] \in {"session", "action"}
       \/ phase[w[1]] = "finish" /\ w[3] \in begun[w[1]]

\* The steps that run a statement.
Statement(c) ==
    \/ FindSession(c) \/ StoreSession(c) \/ CollectGarbage(c)
    \/ \E id \in DatabaseIds, what \in AppWrites : RunStatement(c, id, what)

(* What is written was run, for a request that has begun.                   *)
Books ==
    /\ durable \subseteq executed
    /\ \A w \in executed : w[2] <= unit[w[1]]

(* No failure has touched the request on this database.                     *)
CalmAt(c, u, id) ==
    <<c, u, id>> \notin disturbed /\ (c \in HttpContexts \/ unit[c] = 1)

Calm(w) == CalmAt(w[1], w[2], w[3])

(* The calm statements of a connection are of the request that holds it.    *)
PendingOwn ==
    \A n \in Connections : \A w \in pending[n] :
        /\ w \in executed
        /\ Calm(w) => held[w[1]][w[3]] = n /\ w[2] = unit[w[1]]

(* A connection that was left in a transaction disturbs who holds it.       *)
TaintKnown ==
    \A c \in Contexts, id \in DatabaseIds :
        held[c][id] \in tainted => ~CalmAt(c, unit[c], id)

(* The flag and the transactions it has led to.                             *)
AllEnabled(c) == \A v \in 1 .. unit[c] : policy[c][v]

Flag == \A c \in Contexts : AllEnabled(c) => enabled[c]

BegunInTx ==
    \A c \in Contexts : \A id \in begun[c] :
        CalmAt(c, unit[c], id) => held[c][id] \in inTx

Fresh ==
    \A c \in Contexts, id \in DatabaseIds :
        phase[c] = "idle" /\ (c \in HttpContexts \/ unit[c] = 0) => held[c][id] = NoConnection

Early ==
    \A c \in Contexts, id \in DatabaseIds :
        /\ phase[c] \in {"session", "action"}
        /\ Steady(c, unit[c]) /\ id \in Transactional
        /\ held[c][id] # NoConnection
        => id \in begun[c]

(* The course of a request.                                                 *)
Course ==
    \A c \in Contexts :
        /\ phase[c] \in {"session", "action"} => outcome[c][unit[c]] = "none"
        /\ phase[c] = "finish" => outcome[c][unit[c]] \in {"commit", "rollback", "failed"}
        /\ \A u \in Units : u > unit[c] => outcome[c][u] = "none"

AnsweredPast ==
    \A c \in Contexts, u \in Units :
        <<c, u>> \in answered =>
            /\ u <= unit[c]
            /\ u = unit[c] => phase[c] \notin {"session", "action", "finish", "store", "respond"}

StoreEnded ==
    \A c \in Contexts : phase[c] = "store" /\ <<c, unit[c]>> \notin late => begun[c] = {}

(* The statements.                                                          *)
Collected ==
    \A w \in executed :
        w[4] \in AppWrites /\ Regular(w[1], w[2], w[3]) /\ Unended(w)
            => Waiting(w) /\ w \notin durable

Kept ==
    \A w \in executed :
        /\ w[4] \in ActionWrites /\ w[2] = unit[w[1]] /\ Calm(w)
        /\ outcome[w[1]][w[2]] \in {"none", "commit"}
        =>
            /\ phase[w[1]] \in {"session", "action", "finish"} => w \in durable \/ Waiting(w)
            /\ phase[w[1]] \in {"store", "respond"} => w \in durable

Undone ==
    \A w \in durable :
        w[4] \in AppWrites /\ Regular(w[1], w[2], w[3])
            => outcome[w[1]][w[2]] \in {"commit", "failed"}

(* Those of one action on one database become durable together.             *)
Together ==
    \A c \in HttpContexts, u \in Units, id \in DatabaseIds :
        Regular(c, u, id) => \/ AppStatements(c, u, id) \cap durable = {}
                             \/ AppStatements(c, u, id) \subseteq durable

FlagInv  == Books /\ PendingOwn /\ TaintKnown /\ Flag /\ BegunInTx /\ Fresh /\ Early
TransInv == Course /\ AnsweredPast /\ StoreEnded /\ Collected /\ Kept /\ Undone
            /\ Together

-----------------------------------------------------------------------------
(* What the operations do to a statement.                                   *)

\* A statement's context, request and database are what Writes says.
LEMMA WriteFacts ==
    ASSUME NEW w \in Writes
    PROVE  /\ w[1] \in Contexts /\ w[2] \in Units /\ w[3] \in DatabaseIds
           /\ w[4] \in AppWrites \cup {"remove", "session", "gc"}
  BY DEF Writes

\* A context at work has begun a request.
LEMMA StartedUnit ==
    ASSUME UnitInv, NEW c \in Contexts, phase[c] \notin {"idle", "ended"}
    PROVE  unit[c] # 0
<1>1. unit[c] \in 1 .. MaxUnits
  BY DEF UnitInv, Units
<1> QED BY <1>1

\* What was disturbed stays so.
LEMMA DisturbedGrows ==
    ASSUME [Next]_vars
    PROVE  disturbed \subseteq disturbed'
<1>1. ASSUME NEW c \in Contexts, StartRequest(c) \/ StartPayload(c) \/ OpenFails(c) \/
             FindSession(c) \/ ActionReturns(c) \/ PreFilterRefuses(c) \/ Throw(c) \/
             TransactionsEnded(c) \/ StoreSession(c) \/ WriteResponse(c) \/ CollectGarbage(c)
      PROVE  disturbed' = disturbed
  BY <1>1 DEF StartRequest, StartPayload, OpenFails, FindSession, ActionReturns,
     PreFilterRefuses, Throw, TransactionsEnded, StoreSession, WriteResponse, CollectGarbage,
     Execute, ExecuteFails, dbVars
<1>2. ASSUME NEW c \in Contexts, NEW id \in DatabaseIds, AskDatabase(c, id)
      PROVE  disturbed' = disturbed
  BY <1>2 DEF AskDatabase
<1>3. ASSUME NEW c \in Contexts, NEW id \in DatabaseIds, NEW what \in AppWrites,
             RunStatement(c, id, what)
      PROVE  disturbed' = disturbed
  BY <1>3 DEF RunStatement, Execute
<1>4. ASSUME NEW c \in Contexts, NEW ids, Disturbs(c, ids) PROVE disturbed \subseteq disturbed'
  BY <1>4 DEF Disturbs
<1>5. ASSUME NEW c \in Contexts, NEW id \in DatabaseIds, GetSqlDatabase(c, id)
      PROVE  disturbed \subseteq disturbed'
  BY <1>4, <1>5 DEF GetSqlDatabase
<1>6. ASSUME NEW c \in Contexts, EndTransaction(c) PROVE disturbed \subseteq disturbed'
  <2>1. \E id : Commit(c, id) \/ CommitFailed(c, id) \/ Rollback(c, id)
    BY <1>6 DEF EndTransaction
  <2> QED BY <1>4, <2>1 DEF Commit, CommitFailed, Rollback, Leaves, Remains
<1>7. ASSUME NEW c \in Contexts, Release(c) \/ EndWorker(c) PROVE disturbed \subseteq disturbed'
  BY <1>4, <1>7 DEF Release, EndWorker, ReleaseDatabases
<1>8. Crash => disturbed' = disturbed
  BY DEF Crash
<1> QED BY <1>1, <1>2, <1>3, <1>5, <1>6, <1>7, <1>8 DEF Next, Step, vars

\* A failure touches a request for good ...
LEMMA CalmBefore ==
    ASSUME disturbed \subseteq disturbed', UNCHANGED unit
    PROVE  \A c, u, id : CalmAt(c, u, id)' => CalmAt(c, u, id)
  BY DEF CalmAt

\* ... and so a regular request has been one from its beginning.
LEMMA RegularBefore ==
    ASSUME disturbed \subseteq disturbed', UNCHANGED <<unit, policy>>
    PROVE  \A c, u, id : Regular(c, u, id)' => Regular(c, u, id)
  BY DEF Regular, Steady

\* A regular request is calm.
LEMMA RegularIsCalm ==
    ASSUME NEW c, NEW u, NEW id, Regular(c, u, id)
    PROVE  CalmAt(c, u, id)
  BY DEF Regular, Steady, CalmAt

\* A connection that is in a transaction is on record with the context that holds
\* it, if that one is calm.
LEMMA TxIsBegun ==
    ASSUME DbInv, TaintKnown, NEW c \in Contexts, NEW id \in DatabaseIds,
           held[c][id] \in inTx, CalmAt(c, unit[c], id)
    PROVE  id \in begun[c]
<1>1. held[c][id] \in Connections /\ held[c][id] # NoConnection
  BY ConnectionFacts DEF DbInv, DbTyped
<1>2. IdOf(held[c][id]) = id
  BY <1>1 DEF DbInv, Filed
<1>3. held[c][id] \notin tainted
  BY DEF TaintKnown
<1> QED BY <1>1, <1>2, <1>3 DEF DbInv, TxOnRecord, Exclusive

\* Two places that hold one connection are one.
LEMMA HeldOnce ==
    ASSUME DbInv, NEW c \in Contexts, NEW d \in Contexts, NEW i \in DatabaseIds,
           NEW j \in DatabaseIds, held[c][i] = held[d][j], held[c][i] \in Connections
    PROVE  c = d /\ i = j
  BY ConnectionFacts DEF DbInv, Filed, Exclusive

\* Running a statement: it waits in the transaction, or is durable at once.
LEMMA ExecuteFacts ==
    ASSUME DbInv, TaintKnown, NEW c \in Contexts, NEW id \in DatabaseIds, unit[c] \in Units,
           NEW what \in AppWrites \cup {"remove", "session", "gc"},
           Execute(c, id, what),
           NEW w0, w0 = <<c, unit[c], id, what>>
    PROVE  /\ w0 \in Writes /\ w0[1] = c /\ w0[2] = unit[c] /\ w0[3] = id /\ w0[4] = what
           /\ executed' = executed \cup {w0}
           /\ UNCHANGED <<free, held, wants, begun, inTx, tainted, disturbed>>
           /\ held[c][id] \in Connections
           /\ \A n \in Connections : \/ pending'[n] = pending[n]
                                     \/ n = held[c][id] /\ pending'[n] = pending[n] \cup {w0}
           /\ \A w \in executed : Waiting(w) => Waiting(w)'
           /\ \/ /\ held[c][id] \in inTx /\ durable' = durable
                 /\ CalmAt(c, unit[c], id) => Waiting(w0)'
              \/ held[c][id] \notin inTx /\ durable' = durable \cup {w0}
<1>1. w0 \in Writes /\ w0[1] = c /\ w0[2] = unit[c] /\ w0[3] = id /\ w0[4] = what
  BY DEF Writes
<1>2. /\ executed' = executed \cup {w0}
      /\ UNCHANGED <<free, held, wants, begun, inTx, tainted, disturbed>>
      /\ \/ /\ held[c][id] \in inTx /\ durable' = durable
            /\ pending' = [pending EXCEPT ![held[c][id]] = @ \cup {w0}]
         \/ held[c][id] \notin inTx /\ durable' = durable \cup {w0} /\ pending' = pending
  BY DEF Execute
<1>3. held[c][id] \in Connections
  BY DEF Execute, DbInv, DbTyped
<1>4. \A n \in Connections : \/ pending'[n] = pending[n]
                             \/ n = held[c][id] /\ pending'[n] = pending[n] \cup {w0}
  BY <1>2, <1>3 DEF DbInv, DbTyped
<1>5. \A n \in Connections : pending[n] \subseteq pending'[n]
  BY <1>4
<1>6. ASSUME NEW w \in executed, Waiting(w) PROVE Waiting(w)'
  <2>1. w[1] \in Contexts /\ w[3] \in DatabaseIds
    BY WriteFacts DEF DbInv, DbTyped
  <2>2. held[w[1]][w[3]] \in Connections
    BY <1>6, <2>1 DEF Waiting, DbInv, DbTyped, BegunIsHeld
  <2> QED BY <1>2, <1>5, <1>6, <2>2 DEF Waiting
<1>7. ASSUME held[c][id] \in inTx, CalmAt(c, unit[c], id) PROVE Waiting(w0)'
  <2>1. id \in begun[c]
    BY <1>7, TxIsBegun
  <2>2. w0 \in pending'[held[c][id]]
    BY <1>2, <1>3, <1>7 DEF DbInv, DbTyped
  <2> QED BY <1>1, <1>2, <2>1, <2>2 DEF Waiting
<1> QED BY <1>1, <1>2, <1>3, <1>4, <1>6, <1>7

\* A new connection ...
LEMMA GetHeld ==
    ASSUME DbInv, NEW c \in Contexts, NEW id \in DatabaseIds, GetSqlDatabase(c, id)
    PROVE  \A d \in Contexts, j \in DatabaseIds :
               ~(d = c /\ j = id) => held'[d][j] = held[d][j]
<1>1. PICK n : held' = [held EXCEPT ![c] = [@ EXCEPT ![id] = n]]
  BY DEF GetSqlDatabase
<1> QED BY <1>1 DEF DbInv, DbTyped

\* ... takes the place of none.
LEMMA GetFacts ==
    ASSUME DbInv, NEW c \in Contexts, NEW id \in DatabaseIds, GetSqlDatabase(c, id)
    PROVE  /\ Touches(c, id) /\ held[c][id] = NoConnection
           /\ held'[c][id] \in Connections
           /\ Begins(c, id) => \/ held'[c][id] \in inTx'
                               \/ <<c, unit[c], id>> \in disturbed'
           /\ held'[c][id] \in tainted => <<c, unit[c], id>> \in disturbed'
           /\ disturbed \subseteq disturbed'
           /\ inTx \subseteq inTx'
           /\ \A d \in Contexts : begun[d] \subseteq begun'[d] /\ (d # c => begun'[d] = begun[d])
           /\ begun'[c] \subseteq begun[c] \cup {id}
           /\ Begins(c, id) => id \in begun'[c]
           /\ ~Begins(c, id) => begun'[c] = begun[c]
           /\ late \subseteq late'
           /\ phase[c] = "store" => <<c, unit[c]>> \in late'
           /\ \A w \in executed : Waiting(w) => Waiting(w)'
           /\ UNCHANGED <<enabled, pending, durable, phase, executed, unit, policy, session,
                          outcome, answered, tainted>>
<1>0. PICK n \in free :
        /\ IdOf(n) = id
        /\ free' = free \ {n}
        /\ held' = [held EXCEPT ![c] = [@ EXCEPT ![id] = n]]
        /\ \/ /\ inTx' = IF Begins(c, id) THEN inTx \cup {n} ELSE inTx
              /\ Disturbs(c, IF n \in tainted THEN {id} ELSE {})
           \/ /\ MayFail("begin") /\ Begins(c, id)
              /\ UNCHANGED inTx
              /\ Disturbs(c, {id})
  BY Zenon DEF GetSqlDatabase
<1>1. n \in free /\ held' = [held EXCEPT ![c] = [@ EXCEPT ![id] = n]]
  BY <1>0
<1>a. /\ disturbed \subseteq disturbed'
      /\ n \in tainted => <<c, unit[c], id>> \in disturbed'
  BY <1>0 DEF Disturbs
<1>b. inTx' = inTx \/ (Begins(c, id) /\ inTx' = inTx \cup {n})
  BY <1>0, Zenon
<1>c. Begins(c, id) => n \in inTx' \/ <<c, unit[c], id>> \in disturbed'
  <2>1. Begins(c, id) => inTx' = inTx \cup {n} \/ Disturbs(c, {id})
    BY <1>0, Zenon
  <2> QED BY <2>1 DEF Disturbs
<1>2. n \in Connections /\ held[c][id] = NoConnection /\ Touches(c, id)
  BY <1>1 DEF GetSqlDatabase, DbInv, DbTyped
<1>3. \A d \in Contexts, j \in DatabaseIds :
        held'[d][j] = IF d = c /\ j = id THEN n ELSE held[d][j]
  BY <1>1 DEF DbInv, DbTyped
<1>4. /\ \A d \in Contexts : begun[d] \subseteq begun'[d] /\ (d # c => begun'[d] = begun[d])
      /\ begun'[c] \subseteq begun[c] \cup {id}
      /\ Begins(c, id) => id \in begun'[c]
      /\ ~Begins(c, id) => begun'[c] = begun[c]
  BY DEF GetSqlDatabase, DbInv, DbTyped
<1>5. /\ late \subseteq late'
      /\ phase[c] = "store" => <<c, unit[c]>> \in late'
  BY DEF GetSqlDatabase
<1>6. UNCHANGED <<enabled, pending, durable, phase, executed, unit, policy, session,
                  outcome, answered, tainted>>
  BY DEF GetSqlDatabase
<1>7. ASSUME NEW w \in executed, Waiting(w) PROVE Waiting(w)'
  <2>1. w[1] \in Contexts /\ w[3] \in DatabaseIds
    BY WriteFacts DEF DbInv, DbTyped
  <2>2. held[w[1]][w[3]] # NoConnection
    BY <1>7, <2>1 DEF Waiting, DbInv, BegunIsHeld
  <2> QED BY <1>2, <1>3, <1>4, <1>6, <1>7, <2>1, <2>2 DEF Waiting
<1>8. held'[c][id] = n
  BY <1>3
<1> QED BY <1>2, <1>4, <1>5, <1>6, <1>7, <1>8, <1>a, <1>b, <1>c

\* The transaction of one database ends.
Ends(c, id) ==
    /\ id \in DatabaseIds /\ held[c][id] \in Connections
    /\ begun' = [begun EXCEPT ![c] = @ \ {id}]
    /\ \A n \in Connections : pending'[n] \subseteq pending[n]
    /\ \A n \in inTx : n = held[c][id] \/ n \in inTx'
    /\ \A n \in tainted' : n \in tainted
                          \/ (n = held[c][id] /\ <<c, unit[c], id>> \in disturbed')
    /\ disturbed \subseteq disturbed'
    /\ \A w \in pending[held[c][id]] :
          Calm(w) => w[1] = c /\ w[2] = unit[c] /\ w[3] = id
    /\ \A w \in executed : Waiting(w) /\ ~(w[1] = c /\ w[3] = id) => Waiting(w)'
    /\ \/ /\ outcome[c][unit[c]] # "rollback" /\ outcome' = outcome
          /\ durable' = durable \cup pending[held[c][id]]
       \/ /\ outcome[c][unit[c]] # "rollback" /\ durable' = durable
          /\ outcome' = [outcome EXCEPT ![c] = [@ EXCEPT ![unit[c]] = "failed"]]
       \/ /\ outcome[c][unit[c]] = "rollback"
          /\ outcome' = outcome /\ durable' = durable

\* The end of one transaction: what waits on its connection becomes durable, or
\* is gone; it is all of the context's own.
LEMMA EndFacts ==
    ASSUME DbInv, UnitInv, PendingOwn, NEW c \in Contexts, EndTransaction(c)
    PROVE  /\ phase[c] = "finish"
           /\ \E id \in begun[c] : Ends(c, id)
           /\ UNCHANGED <<free, held, wants, enabled, phase, executed, unit, policy,
                          session, answered, late>>
<1>1. PICK id \in begun[c] : IF outcome[c][unit[c]] = "rollback"
                             THEN Rollback(c, id)
                             ELSE Commit(c, id) \/ CommitFailed(c, id)
  BY DEF EndTransaction
<1>2. id \in DatabaseIds /\ id \in begun[c]
  BY <1>1 DEF DbInv, DbTyped
<1>3. held[c][id] \in Connections
  BY <1>2 DEF DbInv, DbTyped, BegunIsHeld
<1>a. /\ begun' = [begun EXCEPT ![c] = @ \ {id}]
      /\ Leaves(held[c][id]) \/ Remains(c, id)
  BY <1>1 DEF Rollback, Commit, CommitFailed
<1>b. PICK n0 : n0 = held[c][id]
  OBVIOUS
<1>c. \/ /\ pending' = [pending EXCEPT ![n0] = {}] /\ inTx' = inTx \ {n0}
         /\ tainted' = tainted \ {n0} /\ disturbed' = disturbed
      \/ /\ UNCHANGED <<pending, inTx>> /\ tainted' = tainted \cup ({n0} \cap inTx)
         /\ disturbed' = disturbed \cup {<<c, unit[c], id>>}
  BY <1>a, <1>b DEF Leaves, Remains, Disturbs
<1>4. /\ \A n \in Connections : pending'[n] \subseteq pending[n]
      /\ \A n \in Connections : n # n0 => pending'[n] = pending[n]
      /\ \A n \in inTx : n = n0 \/ n \in inTx'
      /\ \A n \in tainted' : n \in tainted \/ (n = n0 /\ <<c, unit[c], id>> \in disturbed')
      /\ disturbed \subseteq disturbed'
  BY <1>3, <1>b, <1>c DEF DbInv, DbTyped
<1>5. \/ /\ outcome[c][unit[c]] # "rollback" /\ outcome' = outcome
         /\ durable' = durable \cup pending[held[c][id]]
      \/ /\ outcome[c][unit[c]] # "rollback" /\ durable' = durable
         /\ outcome' = [outcome EXCEPT ![c] = [@ EXCEPT ![unit[c]] = "failed"]]
      \/ outcome[c][unit[c]] = "rollback" /\ outcome' = outcome /\ durable' = durable
  BY <1>1 DEF Rollback, Commit, CommitFailed
<1>6. /\ phase[c] = "finish"
      /\ UNCHANGED <<free, held, wants, enabled, phase, executed, unit, policy,
                     session, answered, late>>
  BY DEF EndTransaction
<1>7. ASSUME NEW w \in pending[held[c][id]], Calm(w)
      PROVE  w[1] = c /\ w[2] = unit[c] /\ w[3] = id
  <2>1. w \in Writes /\ held[w[1]][w[3]] = held[c][id] /\ w[2] = unit[w[1]]
    BY <1>3, <1>7 DEF PendingOwn, DbInv, DbTyped
  <2> QED BY <1>2, <1>3, <2>1, WriteFacts, HeldOnce
<1>8. ASSUME NEW w \in executed, Waiting(w), ~(w[1] = c /\ w[3] = id) PROVE Waiting(w)'
  <2>1. w[1] \in Contexts /\ w[3] \in DatabaseIds
    BY WriteFacts DEF DbInv, DbTyped
  <2>2. held[w[1]][w[3]] \in Connections
    BY <1>8, <2>1 DEF Waiting, DbInv, DbTyped, BegunIsHeld
  <2>3. held[w[1]][w[3]] # held[c][id]
    BY <1>2, <1>8, <2>1, <2>2, HeldOnce
  <2>4. pending'[held[w[1]][w[3]]] = pending[held[w[1]][w[3]]]
    BY <1>4, <1>b, <2>2, <2>3
  <2>5. w[3] \in begun'[w[1]]
    BY <1>8, <1>a, <2>1 DEF Waiting, DbInv, DbTyped
  <2> QED BY <1>6, <1>8, <2>4, <2>5 DEF Waiting
<1>9. /\ \A n \in inTx : n = held[c][id] \/ n \in inTx'
      /\ \A n \in tainted' : n \in tainted
                            \/ (n = held[c][id] /\ <<c, unit[c], id>> \in disturbed')
  BY <1>4, <1>b
<1>10. Ends(c, id)
  BY <1>2, <1>3, <1>4, <1>5, <1>7, <1>8, <1>9, <1>a DEF Ends
<1> QED BY <1>6, <1>10

\* release() rolls back all that waits on the connections of the context.
LEMMA ReleaseFacts ==
    ASSUME DbInv, PendingOwn, TaintKnown, NEW c \in Contexts, ReleaseDatabases(c),
           UNCHANGED <<executed, unit>>
    PROVE  /\ \A d \in Contexts, id \in DatabaseIds :
                  held'[d][id] = IF d = c THEN NoConnection ELSE held[d][id]
           /\ \A d \in Contexts : begun'[d] = IF d = c THEN {} ELSE begun[d]
           /\ \A n \in Connections : pending'[n] \subseteq pending[n]
           /\ \A n \in Connections : \A w \in pending'[n] : w[1] = c => ~Calm(w)'
           /\ \A n \in tainted' : n \in tainted \/ \E id \in begun[c] : n = held[c][id]
           /\ disturbed \subseteq disturbed'
           /\ \A n \in inTx : n \in inTx' \/ \E id \in begun[c] : n = held[c][id]
           /\ \A w \in executed : Waiting(w) /\ w[1] # c => Waiting(w)'
           /\ durable' = durable
<1>0. PICK failed \in SUBSET begun[c] :
        /\ inTx' = inTx \ {held[c][id] : id \in begun[c] \ failed}
        /\ pending' = [n \in Connections |->
              IF n \in {held[c][id] : id \in begun[c] \ failed} THEN {} ELSE pending[n]]
        /\ tainted' = (tainted \ {held[c][id] : id \in begun[c] \ failed})
                         \cup ({held[c][id] : id \in failed} \cap inTx)
        /\ disturbed' = disturbed \cup {<<c, unit[c], id>> : id \in failed}
  BY DEF ReleaseDatabases, Disturbs
<1> DEFINE open == {held[c][id] : id \in begun[c] \ failed}
<1>a. /\ \A n \in tainted' : n \in tainted \/ \E id \in begun[c] : n = held[c][id]
      /\ disturbed \subseteq disturbed'
      /\ \A id \in failed : <<c, unit[c], id>> \in disturbed'
  BY <1>0
<1>1. /\ inTx' = inTx \ open
      /\ pending' = [n \in Connections |-> IF n \in open THEN {} ELSE pending[n]]
      /\ held' = [held EXCEPT ![c] = [id \in DatabaseIds |-> NoConnection]]
      /\ begun' = [begun EXCEPT ![c] = {}]
      /\ durable' = durable
  BY <1>0 DEF ReleaseDatabases
<1>2. \A n \in open : \E id \in begun[c] : n = held[c][id]
  OBVIOUS
<1>3. \A id \in begun[c] \ failed : held[c][id] \in open
  OBVIOUS
<1> HIDE DEF open
<1>4. /\ \A d \in Contexts, id \in DatabaseIds :
            held'[d][id] = IF d = c THEN NoConnection ELSE held[d][id]
      /\ \A d \in Contexts : begun'[d] = IF d = c THEN {} ELSE begun[d]
  BY <1>1 DEF DbInv, DbTyped
<1>5. \A n \in Connections : pending'[n] \subseteq pending[n]
  BY <1>1
<1>6. ASSUME NEW n \in Connections, NEW w \in pending'[n], w[1] = c, Calm(w)' PROVE FALSE
  <2>1. w \in pending[n] /\ n \notin open
    BY <1>1, <1>6
  <2>a. Calm(w)
    BY <1>6, <1>a, CalmBefore DEF Calm
  <2>2. w \in Writes /\ held[w[1]][w[3]] = n /\ n \in inTx /\ w[2] = unit[c]
    BY <1>6, <2>1, <2>a DEF PendingOwn, DbInv, DbTyped, TxOnRecord
  <2>3. w[1] \in Contexts /\ w[3] \in DatabaseIds
    BY <2>2, WriteFacts
  <2>4. CalmAt(c, unit[c], w[3])
    BY <1>6, <2>2, <2>a DEF Calm
  <2>5. w[3] \in begun[c]
    BY <1>6, <2>2, <2>3, <2>4, TxIsBegun
  <2>6. w[3] \in failed
    BY <1>3, <1>6, <2>1, <2>2, <2>5
  <2> QED BY <1>6, <1>a, <2>2, <2>6 DEF Calm, CalmAt
<1>7. ASSUME NEW w \in executed, Waiting(w), w[1] # c PROVE Waiting(w)'
  <2>1. w[1] \in Contexts /\ w[3] \in DatabaseIds
    BY WriteFacts DEF DbInv, DbTyped
  <2>2. held[w[1]][w[3]] \in Connections
    BY <1>7, <2>1 DEF Waiting, DbInv, DbTyped, BegunIsHeld
  <2>3. held[w[1]][w[3]] \notin open
    <3>1. SUFFICES ASSUME NEW id \in begun[c], held[w[1]][w[3]] = held[c][id] PROVE FALSE
      BY <1>2
    <3>2. id \in DatabaseIds
      BY DEF DbInv, DbTyped
    <3> QED BY <1>7, <2>1, <2>2, <3>1, <3>2, HeldOnce
  <2> QED BY <1>1, <1>4, <1>7, <2>1, <2>2, <2>3 DEF Waiting
<1> QED BY <1>1, <1>2, <1>4, <1>5, <1>6, <1>7, <1>a

\* A request or a payload that begins has run nothing yet, and what ran before is
\* judged by the controllers that were there before.
LEMMA StartFacts ==
    ASSUME DbInv, UnitInv, Books, NEW c \in Contexts, StartRequest(c) \/ StartPayload(c)
    PROVE  /\ phase[c] = "idle" /\ unit[c] + 1 \in Units
           /\ \A d \in Contexts : unit'[d] = IF d = c THEN unit[c] + 1 ELSE unit[d]
           /\ \A d \in Contexts : d # c => phase'[d] = phase[d] /\ policy'[d] = policy[d]
                                           /\ enabled'[d] = enabled[d]
           /\ phase'[c] \in {"session", "action"}
           /\ \A v \in Units : v # unit[c] + 1 => policy'[c][v] = policy[c][v]
           /\ \/ phase'[c] = "session" /\ enabled'[c] = enabled[c]
              \/ enabled'[c] = policy'[c][unit[c] + 1]
           /\ \A w \in executed : w[1] = c => w[2] # unit[c] + 1
           /\ \A w \in executed : Regular(w[1], w[2], w[3])' => Regular(w[1], w[2], w[3])
           /\ \A w \in executed : Calm(w)' => Calm(w)
           /\ UNCHANGED <<dbVars, outcome, executed, answered, late>>
<1> USE ContextAssumptions
<1>1. /\ phase[c] = "idle" /\ unit[c] + 1 \in Units
      /\ \A d \in Contexts : unit'[d] = IF d = c THEN unit[c] + 1 ELSE unit[d]
  <2>1. phase[c] = "idle" /\ unit[c] < MaxUnits /\ unit' = [unit EXCEPT ![c] = @ + 1]
    BY DEF StartRequest, StartPayload, MayBegin
  <2> QED BY <2>1 DEF UnitInv, Units
<1>2. /\ \A d \in Contexts : d # c => phase'[d] = phase[d] /\ policy'[d] = policy[d]
                                      /\ enabled'[d] = enabled[d]
      /\ phase'[c] \in {"session", "action"}
      /\ \A v \in Units : v # unit[c] + 1 => policy'[c][v] = policy[c][v]
      /\ \/ phase'[c] = "session" /\ enabled'[c] = enabled[c]
         \/ enabled'[c] = policy'[c][unit[c] + 1]
  <2>1. CASE StartRequest(c)
    BY <1>1, <2>1 DEF StartRequest, UnitInv
  <2>2. CASE StartPayload(c)
    BY <1>1, <2>2 DEF StartPayload, UnitInv
  <2> QED BY <2>1, <2>2
<1>3. \A w \in executed : /\ w[1] \in Contexts /\ w[2] \in Units /\ w[2] <= unit[w[1]]
                          /\ unit[w[1]] \in 0 .. MaxUnits
  BY WriteFacts DEF DbInv, DbTyped, Books, UnitInv
<1>4. \A w \in executed : w[1] = c => w[2] # unit[c] + 1
  BY <1>3
<1>5. ASSUME NEW w \in executed, Steady(w[1], w[2])' PROVE Steady(w[1], w[2])
  <2>1. \A v \in 1 .. w[2] : policy[w[1]][v]
    <3>1. \A v \in 1 .. w[2] : policy'[w[1]][v] = policy[w[1]][v]
      BY <1>2, <1>3 DEF Units
    <3> QED BY <1>5, <3>1 DEF Steady
  <2>2. w[1] \in HttpContexts \/ unit[w[1]] = 1
    BY <1>1, <1>3, <1>5 DEF Steady, Units
  <2> QED BY <2>1, <2>2 DEF Steady
<1>6. UNCHANGED <<dbVars, outcome, executed, answered, late>>
  BY DEF StartRequest, StartPayload
<1>7. \A w \in executed : Regular(w[1], w[2], w[3])' => Regular(w[1], w[2], w[3])
  BY <1>5, <1>6 DEF Regular, dbVars
<1>8. \A w \in executed : Calm(w)' => Calm(w)
  <2>1. \A w \in executed : unit'[w[1]] = 1 => unit[w[1]] = 1
    BY <1>1, <1>3 DEF Units
  <2> QED BY <1>6, <2>1 DEF Calm, CalmAt, dbVars
<1> QED BY <1>1, <1>2, <1>4, <1>6, <1>7, <1>8

-----------------------------------------------------------------------------
(* The flag and the transactions.                                           *)

\* The steps that run a statement run one, or change nothing but the phase.
LEMMA StatementFacts ==
    ASSUME UnitInv, NEW c \in Contexts, Statement(c)
    PROVE  /\ unit[c] \in Units
           /\ \/ UNCHANGED <<dbVars, executed>>
              \/ \E i \in DatabaseIds, x \in AppWrites \cup {"remove", "session", "gc"} :
                    Execute(c, i, x)
           /\ UNCHANGED unitVars
<1> USE ContextAssumptions DEF UnitInv
<1>1. CASE FindSession(c)
  BY <1>1 DEF FindSession, ExecuteFails, dbVars, SessionDb
<1>2. ASSUME NEW id \in DatabaseIds, NEW what \in AppWrites, RunStatement(c, id, what)
      PROVE  /\ unit[c] \in Units /\ UNCHANGED unitVars
             /\ Execute(c, id, what)
  BY <1>2 DEF RunStatement, InAction
<1>3. CASE StoreSession(c)
  BY <1>3 DEF StoreSession, ExecuteFails, SessionDb
<1>4. CASE CollectGarbage(c)
  BY <1>4 DEF CollectGarbage, ExecuteFails, SessionDb
<1> QED BY <1>1, <1>2, <1>3, <1>4 DEF Statement

\* What is written was run, and for a request that has begun.
LEMMA NextBooks ==
    ASSUME DbInv, UnitInv, PendingOwn, TaintKnown, Books, [Next]_vars
    PROVE  Books'
<1>1. ASSUME NEW c \in Contexts, StartRequest(c) \/ StartPayload(c) PROVE Books'
  <2>1. /\ UNCHANGED <<durable, executed>>
        /\ \A d \in Contexts : unit'[d] = unit[d] \/ unit'[d] = unit[d] + 1
    BY <1>1, StartFacts DEF dbVars
  <2>2. \A w \in executed : w[1] \in Contexts /\ w[2] \in Nat /\ unit[w[1]] \in Nat
    BY WriteFacts DEF DbInv, DbTyped, UnitInv, Units
  <2> QED BY <2>1, <2>2 DEF Books
<1>2. ASSUME NEW c \in Contexts, Statement(c) PROVE Books'
  <2>1. UNCHANGED unit /\ unit[c] \in Units
    BY <1>2, StatementFacts DEF unitVars
  <2>2. CASE UNCHANGED <<dbVars, executed>>
    BY <2>1, <2>2 DEF Books, dbVars
  <2>3. ASSUME NEW i \in DatabaseIds, NEW x \in AppWrites \cup {"remove", "session", "gc"},
               Execute(c, i, x)
        PROVE  Books'
    <3>1. PICK w0 : w0 = <<c, unit[c], i, x>>
      OBVIOUS
    <3>2. /\ w0[1] = c /\ w0[2] = unit[c] /\ executed' = executed \cup {w0}
          /\ durable' = durable \/ durable' = durable \cup {w0}
      BY <2>1, <2>3, <3>1, ExecuteFacts
    <3> QED BY <2>1, <3>2 DEF Books, UnitInv, Units
  <2> QED BY <1>2, <2>2, <2>3, StatementFacts
<1>3. ASSUME NEW c \in Contexts, EndTransaction(c) PROVE Books'
  <2>1. PICK n \in Connections : durable' \subseteq durable \cup pending[n]
    BY <1>3, EndFacts DEF Ends
  <2>2. UNCHANGED <<executed, unit>>
    BY <1>3, EndFacts
  <2> QED BY <2>1, <2>2 DEF Books, PendingOwn
<1>4. ASSUME NEW c \in Contexts, OpenFails(c) \/ ActionReturns(c) \/ PreFilterRefuses(c)
             \/ Throw(c) \/ TransactionsEnded(c) \/ WriteResponse(c) \/ Release(c) \/
             EndWorker(c)
      PROVE  UNCHANGED <<durable, executed, unit>>
  BY <1>4 DEF OpenFails, ActionReturns, PreFilterRefuses, Throw, TransactionsEnded,
     WriteResponse, Release, EndWorker, ReleaseDatabases, dbVars, unitVars
<1>5. ASSUME NEW c \in Contexts, NEW id \in DatabaseIds, GetSqlDatabase(c, id) \/
             AskDatabase(c, id)
      PROVE  UNCHANGED <<durable, executed, unit>>
  BY <1>5 DEF GetSqlDatabase, AskDatabase, dbVars, unitVars
<1>6. Crash => UNCHANGED <<durable, executed, unit>>
  BY DEF Crash, dbVars, unitVars
<1>7. CASE UNCHANGED <<durable, executed, unit>>
  BY <1>7 DEF Books
<1> QED BY <1>1, <1>2, <1>3, <1>4, <1>5, <1>6, <1>7 DEF Next, Step, Statement, vars

\* The calm statements of a connection stay those of the request that holds it.
LEMMA NextPendingOwn ==
    ASSUME DbInv, UnitInv, Books, Fresh, TaintKnown, PendingOwn, [Next]_vars
    PROVE  PendingOwn'
<1>1. ASSUME NEW c \in Contexts, StartRequest(c) \/ StartPayload(c) PROVE PendingOwn'
  <2>1. /\ UNCHANGED <<pending, held, executed>> /\ phase[c] = "idle"
        /\ \A d \in Contexts : unit'[d] = IF d = c THEN unit[c] + 1 ELSE unit[d]
        /\ \A w \in executed : Calm(w)' => Calm(w)
    BY <1>1, StartFacts DEF dbVars
  <2>2. ASSUME NEW n \in Connections, NEW w \in pending[n], Calm(w)' PROVE w[1] # c
    <3>1. /\ w \in Writes /\ w \in executed /\ n # NoConnection
          /\ held[w[1]][w[3]] = n /\ w[2] = unit[w[1]]
      BY <2>1, <2>2, ConnectionFacts DEF PendingOwn, DbInv, DbTyped
    <3>2. w[1] \in Contexts /\ w[2] \in Units /\ w[3] \in DatabaseIds
      BY <3>1, WriteFacts
    <3>3. w[1] = c => c \in HttpContexts
      <4>1. w[1] = c => unit'[c] # 1
        BY <2>1, <3>1, <3>2 DEF Units
      <4> QED BY <2>2, <4>1 DEF Calm, CalmAt
    <3> QED BY <2>1, <3>1, <3>2, <3>3 DEF Fresh
  <2>3. \A n \in Connections : \A w \in pending[n] : w \in executed /\ w[1] \in Contexts
    BY WriteFacts DEF DbInv, DbTyped, PendingOwn
  <2> QED BY <2>1, <2>2, <2>3 DEF PendingOwn
<1>2. ASSUME NEW c \in Contexts, NEW id \in DatabaseIds, GetSqlDatabase(c, id) PROVE PendingOwn'
  <2>1. \A d \in Contexts, j \in DatabaseIds : ~(d = c /\ j = id) => held'[d][j] = held[d][j]
    BY <1>2, GetHeld
  <2>2. /\ UNCHANGED <<pending, executed, unit>> /\ held[c][id] = NoConnection
        /\ disturbed \subseteq disturbed'
    BY <1>2, GetFacts
  <2>3. \A n \in Connections : \A w \in pending[n] : w[1] \in Contexts /\ w[3] \in DatabaseIds
    BY WriteFacts DEF DbInv, DbTyped
  <2>4. \A w \in executed : Calm(w)' => Calm(w)
    BY <2>2, CalmBefore DEF Calm
  <2> QED BY <2>1, <2>2, <2>3, <2>4, ConnectionFacts DEF PendingOwn
<1>3. ASSUME NEW c \in Contexts, Statement(c) PROVE PendingOwn'
  <2>1. UNCHANGED unit /\ unit[c] \in Units
    BY <1>3, StatementFacts DEF unitVars
  <2>2. CASE UNCHANGED <<dbVars, executed>>
    <3>1. \A w \in executed : Calm(w)' => Calm(w)
      BY <2>1, <2>2, CalmBefore DEF Calm, dbVars
    <3> QED BY <2>1, <2>2, <3>1 DEF PendingOwn, dbVars
  <2>3. ASSUME NEW i \in DatabaseIds, NEW x \in AppWrites \cup {"remove", "session", "gc"},
               Execute(c, i, x)
        PROVE  PendingOwn'
    <3>1. PICK w0 : w0 = <<c, unit[c], i, x>>
      OBVIOUS
    <3>2. /\ w0[1] = c /\ w0[2] = unit[c] /\ w0[3] = i
          /\ executed' = executed \cup {w0} /\ held' = held /\ disturbed' = disturbed
          /\ \A n \in Connections : \/ pending'[n] = pending[n]
                                    \/ n = held[c][i] /\ pending'[n] = pending[n] \cup {w0}
      BY <2>1, <2>3, <3>1, ExecuteFacts
    <3>3. \A w \in executed : Calm(w)' => Calm(w)
      BY <2>1, <3>2, CalmBefore DEF Calm
    <3> QED BY <2>1, <3>2, <3>3 DEF PendingOwn
  <2> QED BY <1>3, <2>2, <2>3, StatementFacts
<1>4. ASSUME NEW c \in Contexts, EndTransaction(c) PROVE PendingOwn'
  <2>1. /\ \A n \in Connections : pending'[n] \subseteq pending[n]
        /\ disturbed \subseteq disturbed'
    BY <1>4, EndFacts DEF Ends
  <2>2. UNCHANGED <<held, executed, unit>>
    BY <1>4, EndFacts
  <2>3. \A w \in executed : Calm(w)' => Calm(w)
    BY <2>1, <2>2, CalmBefore DEF Calm
  <2> QED BY <2>1, <2>2, <2>3 DEF PendingOwn
<1>5. ASSUME NEW c \in Contexts, Release(c) \/ EndWorker(c) PROVE PendingOwn'
  <2>1. ReleaseDatabases(c) /\ UNCHANGED <<executed, unit>>
    BY <1>5 DEF Release, EndWorker, unitVars
  <2>2. \A n \in Connections : \A w \in pending[n] : w[1] \in Contexts /\ w[3] \in DatabaseIds
    BY WriteFacts DEF DbInv, DbTyped
  <2>3. /\ \A d \in Contexts, id \in DatabaseIds :
                  held'[d][id] = IF d = c THEN NoConnection ELSE held[d][id]
        /\ \A n \in Connections : pending'[n] \subseteq pending[n]
        /\ \A n \in Connections : \A w \in pending'[n] : w[1] = c => ~Calm(w)'
        /\ disturbed \subseteq disturbed'
    BY <2>1, ReleaseFacts
  <2>4. \A w \in executed : Calm(w)' => Calm(w)
    BY <2>1, <2>3, CalmBefore DEF Calm
  <2> QED BY <2>1, <2>2, <2>3, <2>4 DEF PendingOwn
<1>6. CASE Crash
  BY <1>6 DEF Crash, PendingOwn
<1>7. ASSUME NEW c \in Contexts, OpenFails(c) \/ ActionReturns(c) \/ PreFilterRefuses(c)
             \/ Throw(c) \/ TransactionsEnded(c) \/ WriteResponse(c)
      PROVE  UNCHANGED <<pending, held, executed, unit, disturbed>>
  BY <1>7 DEF OpenFails, ActionReturns, PreFilterRefuses, Throw, TransactionsEnded,
     WriteResponse, dbVars, unitVars
<1>8. ASSUME NEW c \in Contexts, NEW id \in DatabaseIds, AskDatabase(c, id)
      PROVE  UNCHANGED <<pending, held, executed, unit, disturbed>>
  BY <1>8 DEF AskDatabase, dbVars, unitVars
<1>9. CASE UNCHANGED <<pending, held, executed, unit, disturbed>>
  BY <1>9 DEF PendingOwn, Calm, CalmAt
<1> QED BY <1>1, <1>2, <1>3, <1>4, <1>5, <1>6, <1>7, <1>8, <1>9 DEF Next, Step, Statement,
   vars

\* Who holds a connection that was left in a transaction has been disturbed.
LEMMA NextTaintKnown ==
    ASSUME DbInv, UnitInv, Books, Fresh, PendingOwn, TaintKnown, [Next]_vars
    PROVE  TaintKnown'
<1>0. NoConnection \notin tainted
  BY ConnectionFacts DEF DbInv, DbTyped
<1>1. ASSUME NEW c \in Contexts, StartRequest(c) \/ StartPayload(c) PROVE TaintKnown'
  <2>1. /\ UNCHANGED <<held, tainted, disturbed>> /\ phase[c] = "idle"
        /\ \A d \in Contexts : unit'[d] = IF d = c THEN unit[c] + 1 ELSE unit[d]
    BY <1>1, StartFacts DEF dbVars
  <2>2. ASSUME NEW id \in DatabaseIds, CalmAt(c, unit[c], id)' PROVE held[c][id] = NoConnection
    <3>1. c \in HttpContexts \/ unit'[c] = 1
      BY <2>2 DEF CalmAt
    <3>2. unit'[c] = 1 => unit[c] = 0
      BY <2>1 DEF UnitInv
    <3> QED BY <2>1, <3>1, <3>2 DEF Fresh
  <2>3. \A d \in Contexts, id \in DatabaseIds :
            d # c /\ CalmAt(d, unit[d], id)' => CalmAt(d, unit[d], id)
    BY <2>1 DEF CalmAt
  <2>4. \A d \in Contexts, id \in DatabaseIds :
            held'[d][id] \in tainted' => ~CalmAt(d, unit[d], id)'
    BY <1>0, <2>1, <2>2, <2>3 DEF TaintKnown
  <2> QED BY <2>4 DEF TaintKnown
<1>2. ASSUME NEW c \in Contexts, NEW id \in DatabaseIds, GetSqlDatabase(c, id) PROVE TaintKnown'
  <2>1. \A d \in Contexts, j \in DatabaseIds : ~(d = c /\ j = id) => held'[d][j] = held[d][j]
    BY <1>2, GetHeld
  <2>2. /\ UNCHANGED <<unit, tainted>> /\ disturbed \subseteq disturbed'
        /\ held'[c][id] \in tainted => <<c, unit[c], id>> \in disturbed'
    BY <1>2, GetFacts
  <2>3. \A d \in Contexts, j \in DatabaseIds : CalmAt(d, unit[d], j)' => CalmAt(d, unit[d], j)
    BY <2>2 DEF CalmAt
  <2>4. held'[c][id] \in tainted => ~CalmAt(c, unit[c], id)'
    BY <2>2 DEF CalmAt
  <2> QED BY <2>1, <2>2, <2>3, <2>4 DEF TaintKnown
<1>3. ASSUME NEW c \in Contexts, EndTransaction(c) PROVE TaintKnown'
  <2>1. PICK id \in begun[c] : Ends(c, id)
    BY <1>3, EndFacts
  <2>2. UNCHANGED <<held, unit>>
    BY <1>3, EndFacts
  <2>3. /\ id \in DatabaseIds /\ held[c][id] \in Connections /\ disturbed \subseteq disturbed'
        /\ \A n \in tainted' : n \in tainted
                              \/ (n = held[c][id] /\ <<c, unit[c], id>> \in disturbed')
    BY <2>1 DEF Ends
  <2>4. ASSUME NEW d \in Contexts, NEW j \in DatabaseIds, held[d][j] \in tainted'
        PROVE  ~CalmAt(d, unit[d], j)'
    <3>1. CASE held[d][j] \in tainted
      <4>1. ~CalmAt(d, unit[d], j)
        BY <3>1 DEF TaintKnown
      <4> QED BY <2>2, <2>3, <4>1 DEF CalmAt
    <3>2. CASE held[d][j] = held[c][id] /\ <<c, unit[c], id>> \in disturbed'
      <4>1. d = c /\ j = id
        BY <2>3, <3>2, HeldOnce
      <4> QED BY <2>2, <3>2, <4>1 DEF CalmAt
    <3> QED BY <2>3, <2>4, <3>1, <3>2
  <2> QED BY <2>2, <2>4 DEF TaintKnown
<1>4. ASSUME NEW c \in Contexts, Release(c) \/ EndWorker(c) PROVE TaintKnown'
  <2>1. ReleaseDatabases(c) /\ UNCHANGED <<executed, unit>>
    BY <1>4 DEF Release, EndWorker, unitVars
  <2>2. /\ \A d \in Contexts, id \in DatabaseIds :
                  held'[d][id] = IF d = c THEN NoConnection ELSE held[d][id]
        /\ \A n \in tainted' : n \in tainted \/ \E id \in begun[c] : n = held[c][id]
        /\ disturbed \subseteq disturbed'
    BY <2>1, ReleaseFacts
  <2>3. NoConnection \notin tainted' /\ tainted' \subseteq Connections
    <3>1. \A id \in begun[c] : held[c][id] \in Connections
      BY DEF DbInv, DbTyped, BegunIsHeld
    <3> QED BY <2>2, <3>1, ConnectionFacts DEF DbInv, DbTyped
  <2>4. ASSUME NEW d \in Contexts, NEW j \in DatabaseIds, held'[d][j] \in tainted'
        PROVE  ~CalmAt(d, unit[d], j)'
    <3>1. d # c /\ held[d][j] \in tainted' /\ held[d][j] \in Connections
      BY <2>2, <2>3, <2>4
    <3>2. ASSUME NEW i \in begun[c], held[d][j] = held[c][i] PROVE FALSE
      <4>1. i \in DatabaseIds
        BY DEF DbInv, DbTyped
      <4> QED BY <3>1, <3>2, <4>1, HeldOnce
    <3>3. held[d][j] \in tainted
      BY <2>2, <3>1, <3>2
    <3>4. ~CalmAt(d, unit[d], j)
      BY <3>3 DEF TaintKnown
    <3> QED BY <2>1, <2>2, <3>4 DEF CalmAt
  <2> QED BY <2>4 DEF TaintKnown
<1>5. CASE Crash
  BY <1>5 DEF Crash, TaintKnown
<1>6. ASSUME NEW c \in Contexts, OpenFails(c) \/ ActionReturns(c) \/ PreFilterRefuses(c)
             \/ Throw(c) \/ TransactionsEnded(c) \/ WriteResponse(c) \/ FindSession(c)
             \/ StoreSession(c) \/ CollectGarbage(c)
      PROVE  UNCHANGED <<held, tainted, disturbed, unit>>
  BY <1>6 DEF OpenFails, ActionReturns, PreFilterRefuses, Throw, TransactionsEnded,
     WriteResponse, FindSession, StoreSession, CollectGarbage, Execute, ExecuteFails, dbVars,
     unitVars
<1>7. ASSUME NEW c \in Contexts, NEW id \in DatabaseIds, AskDatabase(c, id)
      PROVE  UNCHANGED <<held, tainted, disturbed, unit>>
  BY <1>7 DEF AskDatabase, dbVars, unitVars
<1>8. ASSUME NEW c \in Contexts, NEW id \in DatabaseIds, NEW what \in AppWrites,
             RunStatement(c, id, what)
      PROVE  UNCHANGED <<held, tainted, disturbed, unit>>
  BY <1>8 DEF RunStatement, Execute, dbVars, unitVars
<1>9. CASE UNCHANGED <<held, tainted, disturbed, unit>>
  BY <1>9 DEF TaintKnown, CalmAt
<1> QED BY <1>1, <1>2, <1>3, <1>4, <1>5, <1>6, <1>7, <1>8, <1>9 DEF Next, Step, vars

\* In a context that has served controllers with transactions only, the flag is
\* set.
LEMMA NextFlag ==
    ASSUME DbInv, UnitInv, Books, Flag, [Next]_vars
    PROVE  Flag'
<1>1. ASSUME NEW c \in Contexts, StartRequest(c) \/ StartPayload(c) PROVE Flag'
  <2>1. /\ unit[c] + 1 \in Units /\ unit'[c] = unit[c] + 1
        /\ \A d \in Contexts : d # c => unit'[d] = unit[d] /\ policy'[d] = policy[d]
                                        /\ enabled'[d] = enabled[d]
        /\ \A v \in Units : v # unit[c] + 1 => policy'[c][v] = policy[c][v]
        /\ enabled'[c] = enabled[c] \/ enabled'[c] = policy'[c][unit[c] + 1]
    BY <1>1, StartFacts
  <2>2. ASSUME AllEnabled(c)' PROVE enabled'[c]
    <3>1. unit[c] + 1 \in 1 .. unit'[c]
      BY <2>1, ContextAssumptions DEF Units
    <3>2. policy'[c][unit[c] + 1]
      BY <2>2, <3>1 DEF AllEnabled
    <3>3. \A v \in 1 .. unit[c] : v \in Units /\ v # unit[c] + 1 /\ v \in 1 .. unit'[c]
      BY <2>1, ContextAssumptions DEF Units, UnitInv
    <3>4. AllEnabled(c)
      BY <2>1, <2>2, <3>3 DEF AllEnabled
    <3> QED BY <2>1, <3>2, <3>4 DEF Flag
  <2>3. ASSUME NEW d \in Contexts, d # c, AllEnabled(d)' PROVE enabled'[d]
    BY <2>1, <2>3 DEF AllEnabled, Flag
  <2> QED BY <2>2, <2>3 DEF Flag
<1>2. ASSUME NEW c \in Contexts, FindSession(c) PROVE Flag'
  <2>1. /\ enabled' = [enabled EXCEPT ![c] = policy[c][unit[c]]] /\ phase[c] = "session"
        /\ UNCHANGED <<unit, policy>>
    BY <1>2 DEF FindSession, unitVars
  <2>2. unit[c] \in 1 .. unit[c]
    <3>1. unit[c] \in Units
      BY <2>1 DEF UnitInv
    <3> QED BY <3>1, ContextAssumptions DEF Units
  <2> QED BY <2>1, <2>2 DEF Flag, AllEnabled, UnitInv
<1>3. ASSUME NEW c \in Contexts, OpenFails(c) \/ ActionReturns(c) \/ PreFilterRefuses(c)
             \/ Throw(c) \/ EndTransaction(c) \/ TransactionsEnded(c) \/ StoreSession(c)
             \/ WriteResponse(c) \/ CollectGarbage(c) \/ Release(c) \/ EndWorker(c)
      PROVE  UNCHANGED <<enabled, unit, policy>>
  BY <1>3 DEF OpenFails, ActionReturns, PreFilterRefuses, Throw, EndTransaction,
     TransactionsEnded, StoreSession, WriteResponse, CollectGarbage, Release, EndWorker,
     Execute, ExecuteFails, Commit, CommitFailed, Rollback, ReleaseDatabases, dbVars, unitVars
<1>4. ASSUME NEW c \in Contexts, NEW id \in DatabaseIds, GetSqlDatabase(c, id) \/
             AskDatabase(c, id)
      PROVE  UNCHANGED <<enabled, unit, policy>>
  BY <1>4 DEF GetSqlDatabase, AskDatabase, dbVars, unitVars
<1>5. ASSUME NEW c \in Contexts, NEW id \in DatabaseIds, NEW what \in AppWrites,
             RunStatement(c, id, what)
      PROVE  UNCHANGED <<enabled, unit, policy>>
  BY <1>5 DEF RunStatement, Execute, ExecuteFails, dbVars, unitVars
<1>6. Crash => UNCHANGED <<enabled, unit, policy>>
  BY DEF Crash, dbVars, unitVars
<1>7. CASE UNCHANGED <<enabled, unit, policy>>
  BY <1>7 DEF Flag, AllEnabled
<1> QED BY <1>1, <1>2, <1>3, <1>4, <1>5, <1>6, <1>7 DEF Next, Step, vars

\* A recorded transaction of a calm request is open.
LEMMA NextBegunInTx ==
    ASSUME DbInv, UnitInv, Books, Fresh, PendingOwn, TaintKnown, BegunInTx, [Next]_vars
    PROVE  BegunInTx'
<1>1. ASSUME NEW c \in Contexts, NEW id \in DatabaseIds, GetSqlDatabase(c, id) PROVE BegunInTx'
  <2>1. \A d \in Contexts, j \in DatabaseIds :
            ~(d = c /\ j = id) => held'[d][j] = held[d][j]
    BY <1>1, GetHeld
  <2>2. /\ Begins(c, id) => held'[c][id] \in inTx' \/ <<c, unit[c], id>> \in disturbed'
        /\ inTx \subseteq inTx' /\ \A d \in Contexts : d # c => begun'[d] = begun[d]
        /\ begun'[c] \subseteq begun[c] \cup {id} /\ (~Begins(c, id) => begun'[c] = begun[c])
        /\ held[c][id] = NoConnection /\ disturbed \subseteq disturbed' /\ UNCHANGED unit
    BY <1>1, GetFacts
  <2>3. \A d \in Contexts : begun[d] \subseteq DatabaseIds
    BY DEF DbInv, DbTyped
  <2>4. id \notin begun[c]
    BY <2>2 DEF DbInv, BegunIsHeld
  <2>5. ASSUME NEW d \in Contexts, NEW j \in begun'[d], CalmAt(d, unit[d], j)'
        PROVE  held'[d][j] \in inTx'
    <3>1. CASE d = c /\ j = id
      <4>1. <<c, unit[c], id>> \notin disturbed' /\ Begins(c, id)
        BY <2>2, <2>4, <2>5, <3>1 DEF CalmAt
      <4> QED BY <2>2, <3>1, <4>1
    <3>2. CASE ~(d = c /\ j = id)
      <4>1. j \in begun[d] /\ j \in DatabaseIds
        BY <2>2, <2>3, <3>2
      <4>2. CalmAt(d, unit[d], j)
        BY <2>2, <2>5 DEF CalmAt
      <4> QED BY <2>1, <2>2, <3>2, <4>1, <4>2 DEF BegunInTx
    <3> QED BY <3>1, <3>2
  <2> QED BY <2>5 DEF BegunInTx
<1>2. ASSUME NEW c \in Contexts, EndTransaction(c) PROVE BegunInTx'
  <2>1. PICK id \in begun[c] : Ends(c, id)
    BY <1>2, EndFacts
  <2>2. UNCHANGED <<held, unit>> /\ \A d \in Contexts : begun[d] \subseteq DatabaseIds
    BY <1>2, EndFacts DEF DbInv, DbTyped
  <2>3. ASSUME NEW d \in Contexts, NEW j \in begun'[d], CalmAt(d, unit[d], j)'
        PROVE  held'[d][j] \in inTx'
    <3>0. begun' = [begun EXCEPT ![c] = begun[c] \ {id}] /\ disturbed \subseteq disturbed'
      BY <2>1 DEF Ends
    <3>1. j \in begun[d] /\ ~(d = c /\ j = id)
      BY <2>3, <3>0 DEF DbInv, DbTyped
    <3>2. held[d][j] # held[c][id]
      BY <2>1, <2>2, <3>1, HeldOnce DEF Ends
    <3>3. CalmAt(d, unit[d], j)
      BY <2>2, <2>3, <3>0 DEF CalmAt
    <3>4. held[d][j] \in inTx
      BY <3>1, <3>3 DEF BegunInTx
    <3> QED BY <2>1, <2>2, <3>2, <3>4 DEF Ends
  <2> QED BY <2>3 DEF BegunInTx
<1>3. ASSUME NEW c \in Contexts, Release(c) \/ EndWorker(c) PROVE BegunInTx'
  <2>1. ReleaseDatabases(c) /\ UNCHANGED <<executed, unit>>
    BY <1>3 DEF Release, EndWorker, unitVars
  <2>2. ASSUME NEW d \in Contexts, NEW j \in begun'[d], CalmAt(d, unit[d], j)'
        PROVE  held'[d][j] \in inTx'
    <3>1. d # c /\ j \in begun[d] /\ j \in DatabaseIds /\ held'[d][j] = held[d][j]
      BY <2>1, <2>2, ReleaseFacts DEF DbInv, DbTyped
    <3>a. disturbed \subseteq disturbed'
      BY <2>1, ReleaseFacts
    <3>b. CalmAt(d, unit[d], j)
      BY <2>1, <2>2, <3>a DEF CalmAt
    <3>2. held[d][j] \in inTx /\ held[d][j] \in Connections
      BY <3>1, <3>b DEF BegunInTx, DbInv, DbTyped
    <3>3. ASSUME NEW i \in begun[c], held[d][j] = held[c][i] PROVE FALSE
      <4>1. i \in DatabaseIds
        BY DEF DbInv, DbTyped
      <4> QED BY <3>1, <3>2, <3>3, <4>1, HeldOnce
    <3> QED BY <2>1, <3>1, <3>2, <3>3, ReleaseFacts
  <2> QED BY <2>2 DEF BegunInTx
<1>4. CASE Crash
  BY <1>4 DEF Crash, BegunInTx
<1>a. ASSUME NEW c \in Contexts, StartRequest(c) \/ StartPayload(c) PROVE BegunInTx'
  <2>1. /\ UNCHANGED <<held, begun, inTx, disturbed>> /\ phase[c] = "idle"
        /\ \A d \in Contexts : unit'[d] = IF d = c THEN unit[c] + 1 ELSE unit[d]
    BY <1>a, StartFacts DEF dbVars
  <2>2. ASSUME NEW j \in begun[c], CalmAt(c, unit[c], j)' PROVE FALSE
    <3>1. c \in HttpContexts \/ unit'[c] = 1
      BY <2>2 DEF CalmAt
    <3>2. unit'[c] = 1 => unit[c] = 0
      BY <2>1 DEF UnitInv
    <3>3. j \in DatabaseIds /\ held[c][j] # NoConnection
      BY DEF DbInv, DbTyped, BegunIsHeld
    <3> QED BY <2>1, <3>1, <3>2, <3>3 DEF Fresh
  <2>3. \A d \in Contexts, j \in DatabaseIds :
            d # c /\ CalmAt(d, unit[d], j)' => CalmAt(d, unit[d], j)
    BY <2>1 DEF CalmAt
  <2>4. \A d \in Contexts : begun[d] \subseteq DatabaseIds
    BY DEF DbInv, DbTyped
  <2>5. \A d \in Contexts : \A j \in begun[d] : CalmAt(d, unit[d], j)' => held[d][j] \in inTx
    BY <2>2, <2>3, <2>4 DEF BegunInTx
  <2> QED BY <2>1, <2>5 DEF BegunInTx
<1>5. ASSUME NEW c \in Contexts, OpenFails(c) \/
             FindSession(c) \/ ActionReturns(c) \/ PreFilterRefuses(c) \/ Throw(c) \/
             TransactionsEnded(c) \/ StoreSession(c) \/ WriteResponse(c) \/
             CollectGarbage(c)
      PROVE  UNCHANGED <<begun, held, inTx, disturbed, unit>>
  BY <1>5 DEF OpenFails, FindSession, ActionReturns,
     PreFilterRefuses, Throw, TransactionsEnded, StoreSession, WriteResponse, CollectGarbage,
     Execute, ExecuteFails, dbVars, unitVars
<1>6. ASSUME NEW c \in Contexts, NEW id \in DatabaseIds, AskDatabase(c, id)
      PROVE  UNCHANGED <<begun, held, inTx, disturbed, unit>>
  BY <1>6 DEF AskDatabase, dbVars, unitVars
<1>7. ASSUME NEW c \in Contexts, NEW id \in DatabaseIds, NEW what \in AppWrites,
             RunStatement(c, id, what)
      PROVE  UNCHANGED <<begun, held, inTx, disturbed, unit>>
  BY <1>7 DEF RunStatement, Execute, ExecuteFails, dbVars, unitVars
<1>8. CASE UNCHANGED <<begun, held, inTx, disturbed, unit>>
  BY <1>8 DEF BegunInTx, CalmAt
<1> QED BY <1>1, <1>2, <1>3, <1>4, <1>5, <1>6, <1>7, <1>8, <1>a DEF Next, Step, vars

\* A request begins without a connection, and so does the first payload.
LEMMA NextFresh ==
    ASSUME DbInv, UnitInv, Books, PendingOwn, TaintKnown, Fresh, [Next]_vars
    PROVE  Fresh'
<1>1. ASSUME NEW c \in Contexts, StartRequest(c) \/ StartPayload(c) PROVE Fresh'
  <2>1. /\ phase'[c] # "idle" /\ UNCHANGED held
        /\ \A d \in Contexts : d # c => phase'[d] = phase[d] /\ unit'[d] = unit[d]
    BY <1>1, StartFacts DEF dbVars
  <2> QED BY <2>1 DEF Fresh
<1>2. ASSUME NEW c \in Contexts, NEW id \in DatabaseIds, GetSqlDatabase(c, id) PROVE Fresh'
  <2>1. Touches(c, id) /\ UNCHANGED <<phase, unit>>
    BY <1>2, GetFacts
  <2>2. \A d \in Contexts, j \in DatabaseIds : ~(d = c /\ j = id) => held'[d][j] = held[d][j]
    BY <1>2, GetHeld
  <2> QED BY <2>1, <2>2 DEF Touches, Fresh
<1>3. ASSUME NEW c \in Contexts, FindSession(c) \/ StoreSession(c) \/ CollectGarbage(c)
      PROVE  Fresh'
  <2>1. /\ phase' \in {[phase EXCEPT ![c] = "action"], [phase EXCEPT ![c] = "respond"],
                       [phase EXCEPT ![c] = "release"]}
        /\ UNCHANGED <<held, unit>>
    BY <1>3 DEF FindSession, StoreSession, CollectGarbage, Execute, ExecuteFails, dbVars, unitVars
  <2> QED BY <2>1 DEF Fresh, UnitInv
<1>4. ASSUME NEW c \in Contexts, ActionReturns(c) \/ PreFilterRefuses(c) PROVE Fresh'
  BY <1>4 DEF ActionReturns, PreFilterRefuses, dbVars, Fresh, UnitInv
<1>5. ASSUME NEW c \in Contexts, Throw(c) PROVE Fresh'
  <2>1. /\ phase' = [phase EXCEPT ![c] = IF c \in HttpContexts THEN "release" ELSE "idle"]
        /\ phase[c] \notin {"idle", "ended"} /\ UNCHANGED <<held, unit>>
    BY <1>5 DEF Throw, InAction, dbVars
  <2>2. unit[c] # 0
    BY <2>1, StartedUnit
  <2> QED BY <2>1, <2>2 DEF Fresh, UnitInv
<1>6. ASSUME NEW c \in Contexts, TransactionsEnded(c) PROVE Fresh'
  <2>1. /\ phase[c] = "finish" /\ UNCHANGED <<held, unit>>
        /\ \A d \in Contexts : d # c => phase'[d] = phase[d]
        /\ phase'[c] = "idle" => c \notin HttpContexts
    BY <1>6, ContextAssumptions DEF TransactionsEnded, dbVars, unitVars, Contexts, UnitInv
  <2>2. unit[c] # 0
    BY <2>1, StartedUnit
  <2> QED BY <2>1, <2>2 DEF Fresh
<1>7. ASSUME NEW c \in Contexts, WriteResponse(c) PROVE Fresh'
  BY <1>7 DEF WriteResponse, dbVars, Fresh, UnitInv
<1>8. ASSUME NEW c \in Contexts, Release(c) \/ EndWorker(c) PROVE Fresh'
  <2>1. /\ ReleaseDatabases(c) /\ UNCHANGED <<executed, unit>>
        /\ \A d \in Contexts : d # c => phase'[d] = phase[d]
    BY <1>8 DEF Release, EndWorker, unitVars, UnitInv
  <2> QED BY <2>1, ReleaseFacts DEF Fresh
<1>9. CASE Crash
  BY <1>9 DEF Crash, Fresh
<1>10. ASSUME NEW c \in Contexts, OpenFails(c) \/ EndTransaction(c)
      PROVE  UNCHANGED <<phase, held, unit>>
  BY <1>10 DEF OpenFails, EndTransaction, Commit, CommitFailed, Rollback, dbVars, unitVars
<1>11. ASSUME NEW c \in Contexts, NEW id \in DatabaseIds, AskDatabase(c, id)
      PROVE  UNCHANGED <<phase, held, unit>>
  BY <1>11 DEF AskDatabase, dbVars, unitVars
<1>12. ASSUME NEW c \in Contexts, NEW id \in DatabaseIds, NEW what \in AppWrites,
             RunStatement(c, id, what)
      PROVE  UNCHANGED <<phase, held, unit>>
  BY <1>12 DEF RunStatement, Execute, ExecuteFails, dbVars, unitVars
<1>13. CASE UNCHANGED <<phase, held, unit>>
  BY <1>13 DEF Fresh
<1> QED BY <1>1, <1>2, <1>3, <1>4, <1>5, <1>6, <1>7, <1>8, <1>9, <1>10, <1>11, <1>12, <1>13
   DEF Next, Step, vars

\* Where the flag was always set, every connection of an action is in a recorded
\* transaction.
LEMMA NextEarly ==
    ASSUME DbInv, UnitInv, Books, Flag, Fresh, Early, [Next]_vars
    PROVE  Early'
<1>1. ASSUME NEW c \in Contexts, StartRequest(c) \/ StartPayload(c) PROVE Early'
  <2>1. /\ phase[c] = "idle" /\ unit[c] + 1 \in Units /\ unit'[c] = unit[c] + 1
        /\ UNCHANGED <<held, begun>>
        /\ \A d \in Contexts : d # c => phase'[d] = phase[d] /\ unit'[d] = unit[d]
                                        /\ policy'[d] = policy[d]
    BY <1>1, StartFacts DEF dbVars
  <2>2. \A d \in Contexts : d # c => (Steady(d, unit[d])' <=> Steady(d, unit[d]))
    BY <2>1 DEF Steady
  <2>3. Steady(c, unit[c])' => \A id \in DatabaseIds : held[c][id] = NoConnection
    BY <2>1 DEF Steady, Fresh, UnitInv
  <2> QED BY <2>1, <2>2, <2>3 DEF Early
<1>2. ASSUME NEW c \in Contexts, NEW id \in DatabaseIds, GetSqlDatabase(c, id) PROVE Early'
  <2>1. /\ UNCHANGED <<phase, unit, policy>>
        /\ \A d \in Contexts : begun[d] \subseteq begun'[d]
        /\ Begins(c, id) => id \in begun'[c]
    BY <1>2, GetFacts
  <2>2. \A d \in Contexts, j \in DatabaseIds :
            ~(d = c /\ j = id) => held'[d][j] = held[d][j]
    BY <1>2, GetHeld
  <2>3. \A d \in Contexts : Steady(d, unit[d])' <=> Steady(d, unit[d])
    BY <2>1 DEF Steady
  <2>4. Steady(c, unit[c]) /\ id \in Transactional => Begins(c, id)
    BY DEF Steady, Flag, AllEnabled, Begins
  <2> QED BY <2>1, <2>2, <2>3, <2>4 DEF Early
<1>3. ASSUME NEW c \in Contexts, FindSession(c) \/ StoreSession(c) \/ CollectGarbage(c)
      PROVE  Early'
  <2>1. /\ UNCHANGED <<held, begun, unit, policy>>
        /\ \/ phase[c] = "session" /\ phase' = [phase EXCEPT ![c] = "action"]
           \/ phase' = [phase EXCEPT ![c] = "respond"] \/ phase' = [phase EXCEPT ![c] = "release"]
    BY <1>3 DEF FindSession, StoreSession, CollectGarbage, Execute, ExecuteFails, dbVars, unitVars
  <2>2. \A d \in Contexts : Steady(d, unit[d])' <=> Steady(d, unit[d])
    BY <2>1 DEF Steady
  <2>3. \A d \in Contexts :
           phase'[d] \in {"session", "action"} => phase[d] \in {"session", "action"}
    BY <2>1 DEF UnitInv
  <2> QED BY <2>1, <2>2, <2>3 DEF Early
<1>4. ASSUME NEW c \in Contexts, ActionReturns(c) \/ PreFilterRefuses(c) \/ Throw(c) \/
             TransactionsEnded(c) \/ WriteResponse(c)
      PROVE  Early'
  <2>1. /\ UNCHANGED <<held, begun, unit, policy>>
        /\ \A d \in Contexts : d # c => phase'[d] = phase[d]
        /\ phase'[c] \notin {"session", "action"}
    BY <1>4 DEF ActionReturns, PreFilterRefuses, Throw, TransactionsEnded, WriteResponse, dbVars,
             unitVars, UnitInv, Contexts
  <2>2. \A d \in Contexts : Steady(d, unit[d])' <=> Steady(d, unit[d])
    BY <2>1 DEF Steady
  <2> QED BY <2>1, <2>2 DEF Early
<1>5. ASSUME NEW c \in Contexts, EndTransaction(c) PROVE Early'
  <2>1. /\ phase[c] = "finish" /\ UNCHANGED <<held, phase, unit, policy>>
        /\ \A d \in Contexts : d # c => begun'[d] = begun[d]
    BY <1>5 DEF EndTransaction, Commit, CommitFailed, Rollback, DbInv, DbTyped
  <2>2. \A d \in Contexts : Steady(d, unit[d])' <=> Steady(d, unit[d])
    BY <2>1 DEF Steady
  <2> QED BY <2>1, <2>2 DEF Early
<1>6. ASSUME NEW c \in Contexts, Release(c) \/ EndWorker(c) PROVE Early'
  <2>1. /\ phase[c] \notin {"session", "action"} /\ phase'[c] \notin {"session", "action"}
        /\ UNCHANGED <<unit, policy>>
        /\ \A d \in Contexts : d # c => /\ phase'[d] = phase[d] /\ begun'[d] = begun[d]
                                        /\ held'[d] = held[d]
    BY <1>6 DEF Release, EndWorker, ReleaseDatabases, unitVars, UnitInv, DbInv, DbTyped
  <2>2. \A d \in Contexts : Steady(d, unit[d])' <=> Steady(d, unit[d])
    BY <2>1 DEF Steady
  <2> QED BY <2>1, <2>2 DEF Early
<1>7. CASE Crash
  BY <1>7 DEF Crash, Early
<1>8. ASSUME NEW c \in Contexts, OpenFails(c)
      PROVE  UNCHANGED <<phase, held, begun, unit, policy>>
  BY <1>8 DEF OpenFails, dbVars, unitVars
<1>9. ASSUME NEW c \in Contexts, NEW id \in DatabaseIds, AskDatabase(c, id)
      PROVE  UNCHANGED <<phase, held, begun, unit, policy>>
  BY <1>9 DEF AskDatabase, dbVars, unitVars
<1>10. ASSUME NEW c \in Contexts, NEW id \in DatabaseIds, NEW what \in AppWrites,
             RunStatement(c, id, what)
      PROVE  UNCHANGED <<phase, held, begun, unit, policy>>
  BY <1>10 DEF RunStatement, Execute, ExecuteFails, dbVars, unitVars
<1>11. CASE UNCHANGED <<phase, held, begun, unit, policy>>
  BY <1>11 DEF Early, Steady
<1> QED BY <1>1, <1>2, <1>3, <1>4, <1>5, <1>6, <1>7, <1>8, <1>9, <1>10, <1>11 DEF Next, Step,
   vars

-----------------------------------------------------------------------------
(* The course of a request.                                                 *)

\* The outcome of a request is set when its action ends, and only a commit() that
\* fails changes it.
LEMMA NextCourse ==
    ASSUME DbInv, UnitInv, Books, Course, [Next]_vars
    PROVE  Course'
<1>1. ASSUME NEW c \in Contexts, StartRequest(c) \/ StartPayload(c) PROVE Course'
  <2>1. /\ unit[c] + 1 \in Units /\ unit'[c] = unit[c] + 1 /\ UNCHANGED outcome
        /\ phase'[c] \in {"session", "action"}
        /\ \A d \in Contexts : d # c => phase'[d] = phase[d] /\ unit'[d] = unit[d]
    BY <1>1, StartFacts
  <2>2. unit[c] \in Nat /\ \A u \in Units : u \in Nat
    BY DEF UnitInv, Units
  <2>3. \A u \in Units : u > unit[c] => outcome[c][u] = "none"
    BY DEF Course
  <2> QED BY <2>1, <2>2, <2>3 DEF Course
<1>2. ASSUME NEW c \in Contexts, FindSession(c) \/ StoreSession(c) \/ CollectGarbage(c)
      PROVE  Course'
  <2>1. /\ UNCHANGED <<outcome, unit>>
        /\ \/ phase[c] = "session" /\ phase' = [phase EXCEPT ![c] = "action"]
           \/ phase' = [phase EXCEPT ![c] = "respond"] \/ phase' = [phase EXCEPT ![c] = "release"]
    BY <1>2 DEF FindSession, StoreSession, CollectGarbage, unitVars
  <2> QED BY <2>1 DEF Course, UnitInv
<1>3. ASSUME NEW c \in Contexts, ActionReturns(c) \/ PreFilterRefuses(c) \/ Throw(c) PROVE Course'
  <2>1. /\ unit[c] \in Units /\ UNCHANGED unit
        /\ \A d \in Contexts : d # c => phase'[d] = phase[d]
        /\ phase'[c] \notin {"session", "action"}
    BY <1>3 DEF ActionReturns, PreFilterRefuses, Throw, InAction, UnitInv
  <2>2. /\ \A d \in Contexts : d # c => outcome'[d] = outcome[d]
        /\ \A u \in Units : u # unit[c] => outcome'[c][u] = outcome[c][u]
    BY <1>3, <2>1 DEF ActionReturns, PreFilterRefuses, Throw, UnitInv
  <2>3. phase'[c] = "finish" => outcome'[c][unit[c]] \in {"commit", "rollback", "failed"}
    BY <1>3, <2>1 DEF ActionReturns, PreFilterRefuses, Throw, UnitInv
  <2>4. \A u \in Units : u > unit[c] => u # unit[c]
    BY <2>1 DEF Units
  <2> QED BY <2>1, <2>2, <2>3, <2>4 DEF Course
<1>4. ASSUME NEW c \in Contexts, EndTransaction(c) PROVE Course'
  <2>1. phase[c] = "finish" /\ unit[c] \in Units /\ UNCHANGED <<phase, unit>>
    BY <1>4 DEF EndTransaction, UnitInv
  <2>2. \/ outcome' = outcome
        \/ outcome' = [outcome EXCEPT ![c] = [@ EXCEPT ![unit[c]] = "failed"]]
    BY <1>4 DEF EndTransaction, Commit, CommitFailed, Rollback
  <2>3. /\ \A d \in Contexts : d # c => outcome'[d] = outcome[d]
        /\ \A u \in Units : u # unit[c] => outcome'[c][u] = outcome[c][u]
        /\ outcome'[c][unit[c]] \in {outcome[c][unit[c]], "failed"}
    BY <2>1, <2>2 DEF UnitInv
  <2>4. \A u \in Units : u > unit[c] => u # unit[c]
    BY <2>1 DEF Units
  <2> QED BY <2>1, <2>3, <2>4 DEF Course
<1>5. ASSUME NEW c \in Contexts, TransactionsEnded(c) \/ WriteResponse(c) \/ Release(c) \/
             EndWorker(c)
      PROVE  Course'
  <2>1. /\ UNCHANGED <<outcome, unit>> /\ phase'[c] \notin {"session", "action", "finish"}
        /\ \A d \in Contexts : d # c => phase'[d] = phase[d]
    BY <1>5 DEF TransactionsEnded, WriteResponse, Release, EndWorker, unitVars, UnitInv
  <2> QED BY <2>1 DEF Course
<1>6. CASE Crash
  BY <1>6 DEF Crash, unitVars, Course
<1>7. ASSUME NEW c \in Contexts, OpenFails(c)
      PROVE  UNCHANGED <<phase, outcome, unit>>
  BY <1>7 DEF OpenFails, dbVars, unitVars
<1>8. ASSUME NEW c \in Contexts, NEW id \in DatabaseIds, GetSqlDatabase(c, id) \/
             AskDatabase(c, id)
      PROVE  UNCHANGED <<phase, outcome, unit>>
  BY <1>8 DEF GetSqlDatabase, AskDatabase, dbVars, unitVars
<1>9. ASSUME NEW c \in Contexts, NEW id \in DatabaseIds, NEW what \in AppWrites,
             RunStatement(c, id, what)
      PROVE  UNCHANGED <<phase, outcome, unit>>
  BY <1>9 DEF RunStatement, Execute, ExecuteFails, dbVars, unitVars
<1>10. CASE UNCHANGED <<phase, outcome, unit>>
  BY <1>10 DEF Course
<1> QED BY <1>1, <1>2, <1>3, <1>4, <1>5, <1>6, <1>7, <1>8, <1>9, <1>10 DEF Next, Step, vars

\* A request is answered after its transactions have ended.
LEMMA NextAnsweredPast ==
    ASSUME DbInv, UnitInv, Books, AnsweredPast, [Next]_vars
    PROVE  AnsweredPast'
<1>1. ASSUME NEW c \in Contexts, StartRequest(c) \/ StartPayload(c) PROVE AnsweredPast'
  <2>1. /\ unit'[c] = unit[c] + 1 /\ UNCHANGED answered
        /\ \A d \in Contexts : d # c => phase'[d] = phase[d] /\ unit'[d] = unit[d]
    BY <1>1, StartFacts
  <2>2. unit[c] \in Nat /\ \A u \in Units : u \in Nat
    BY DEF UnitInv, Units
  <2> QED BY <2>1, <2>2 DEF AnsweredPast
<1>2. ASSUME NEW c \in Contexts, FindSession(c) \/ StoreSession(c) \/ CollectGarbage(c) \/
             TransactionsEnded(c) \/ ActionReturns(c) \/ PreFilterRefuses(c) \/ Throw(c)
      PROVE  AnsweredPast'
  <2>1. /\ UNCHANGED <<answered, unit>>
        /\ \A d \in Contexts : d # c => phase'[d] = phase[d]
        /\ \/ phase[c] \in {"session", "action", "finish", "store"}
           \/ phase'[c] \notin {"session", "action", "finish", "store", "respond"}
    BY <1>2 DEF FindSession, StoreSession, CollectGarbage, TransactionsEnded, ActionReturns,
             PreFilterRefuses, Throw, InAction, unitVars, UnitInv
  <2> QED BY <2>1 DEF AnsweredPast
<1>3. ASSUME NEW c \in Contexts, WriteResponse(c) PROVE AnsweredPast'
  <2>1. /\ answered' = answered \cup {<<c, unit[c]>>} /\ unit' = unit
        /\ phase[c] = "respond" /\ phase' = [phase EXCEPT ![c] = "gc"]
    BY <1>3 DEF WriteResponse
  <2>2. unit[c] <= unit[c]
    BY DEF UnitInv
  <2>3. ASSUME NEW d \in Contexts, NEW u \in Units, <<d, u>> \in answered'
        PROVE  <<d, u>> \in answered \/ (d = c /\ u = unit[c])
    <3>1. <<d, u>> \in answered \/ <<d, u>> = <<c, unit[c]>>
      BY <2>1, <2>3
    <3> QED BY <3>1
  <2>4. /\ phase'[c] = "gc" /\ \A d \in Contexts : d # c => phase'[d] = phase[d]
    BY <2>1 DEF UnitInv
  <2> QED BY <2>1, <2>2, <2>3, <2>4 DEF AnsweredPast
<1>4. ASSUME NEW c \in Contexts, Release(c) \/ EndWorker(c) PROVE AnsweredPast'
  <2>1. /\ UNCHANGED <<answered, unit>> /\ phase'[c] \in {"idle", "ended"}
        /\ \A d \in Contexts : d # c => phase'[d] = phase[d]
    BY <1>4 DEF Release, EndWorker, unitVars, UnitInv
  <2> QED BY <2>1 DEF AnsweredPast
<1>5. CASE Crash
  BY <1>5 DEF Crash, unitVars, AnsweredPast
<1>6. ASSUME NEW c \in Contexts, OpenFails(c) \/ EndTransaction(c)
      PROVE  UNCHANGED <<answered, phase, unit>>
  BY <1>6 DEF OpenFails, EndTransaction, Commit, CommitFailed, Rollback, dbVars, unitVars
<1>7. ASSUME NEW c \in Contexts, NEW id \in DatabaseIds, GetSqlDatabase(c, id) \/
             AskDatabase(c, id)
      PROVE  UNCHANGED <<answered, phase, unit>>
  BY <1>7 DEF GetSqlDatabase, AskDatabase, dbVars, unitVars
<1>8. ASSUME NEW c \in Contexts, NEW id \in DatabaseIds, NEW what \in AppWrites,
             RunStatement(c, id, what)
      PROVE  UNCHANGED <<answered, phase, unit>>
  BY <1>8 DEF RunStatement, Execute, ExecuteFails, dbVars, unitVars
<1>9. CASE UNCHANGED <<answered, phase, unit>>
  BY <1>9 DEF AnsweredPast
<1> QED BY <1>1, <1>2, <1>3, <1>4, <1>5, <1>6, <1>7, <1>8, <1>9 DEF Next, Step, vars

\* A context that has come to the session store has no transaction, unless it
\* gets one for the store.
LEMMA NextStoreEnded ==
    ASSUME DbInv, UnitInv, Books, StoreEnded, [Next]_vars
    PROVE  StoreEnded'
<1>1. ASSUME NEW c \in Contexts, StartRequest(c) \/ StartPayload(c) PROVE StoreEnded'
  <2>1. /\ UNCHANGED <<late, begun>> /\ phase'[c] # "store"
        /\ \A d \in Contexts : d # c => phase'[d] = phase[d] /\ unit'[d] = unit[d]
    BY <1>1, StartFacts DEF dbVars
  <2> QED BY <2>1 DEF StoreEnded
<1>2. ASSUME NEW c \in Contexts, NEW id \in DatabaseIds, GetSqlDatabase(c, id) PROVE StoreEnded'
  <2>1. /\ late \subseteq late' /\ (phase[c] = "store" => <<c, unit[c]>> \in late')
        /\ \A d \in Contexts : d # c => begun'[d] = begun[d]
    BY <1>2, GetFacts
  <2>2. UNCHANGED <<phase, unit>>
    BY <1>2, GetFacts
  <2> QED BY <2>1, <2>2 DEF StoreEnded
<1>3. ASSUME NEW c \in Contexts, FindSession(c) \/ StoreSession(c) \/ CollectGarbage(c)
      PROVE  StoreEnded'
  <2>1. /\ UNCHANGED <<late, begun, unit>> /\ phase'[c] # "store"
        /\ \A d \in Contexts : d # c => phase'[d] = phase[d]
    BY <1>3 DEF FindSession, StoreSession, CollectGarbage, Execute, ExecuteFails, dbVars,
             unitVars, UnitInv
  <2> QED BY <2>1 DEF StoreEnded
<1>4. ASSUME NEW c \in Contexts, ActionReturns(c) \/ PreFilterRefuses(c) \/ Throw(c) \/
             WriteResponse(c)
      PROVE  StoreEnded'
  <2>1. /\ UNCHANGED <<late, begun, unit>> /\ phase'[c] # "store"
        /\ \A d \in Contexts : d # c => phase'[d] = phase[d]
    BY <1>4 DEF ActionReturns, PreFilterRefuses, Throw, WriteResponse, dbVars, UnitInv
  <2> QED BY <2>1 DEF StoreEnded
<1>5. ASSUME NEW c \in Contexts, EndTransaction(c) PROVE StoreEnded'
  <2>1. /\ phase[c] = "finish" /\ UNCHANGED <<phase, late, unit>>
        /\ \A d \in Contexts : d # c => begun'[d] = begun[d]
    BY <1>5 DEF EndTransaction, Commit, CommitFailed, Rollback, DbInv, DbTyped
  <2> QED BY <2>1 DEF StoreEnded
<1>6. ASSUME NEW c \in Contexts, TransactionsEnded(c) PROVE StoreEnded'
  <2>1. /\ begun[c] = {} /\ UNCHANGED <<late, begun, unit>>
        /\ \A d \in Contexts : d # c => phase'[d] = phase[d]
    BY <1>6 DEF TransactionsEnded, dbVars, unitVars, UnitInv
  <2> QED BY <2>1 DEF StoreEnded
<1>7. ASSUME NEW c \in Contexts, Release(c) \/ EndWorker(c) PROVE StoreEnded'
  <2>1. /\ UNCHANGED <<late, unit>> /\ phase'[c] # "store"
        /\ \A d \in Contexts : d # c => phase'[d] = phase[d] /\ begun'[d] = begun[d]
    BY <1>7 DEF Release, EndWorker, ReleaseDatabases, unitVars, UnitInv, DbInv, DbTyped
  <2> QED BY <2>1 DEF StoreEnded
<1>8. CASE Crash
  BY <1>8 DEF Crash, StoreEnded
<1>9. ASSUME NEW c \in Contexts, OpenFails(c)
      PROVE  UNCHANGED <<phase, late, begun, unit>>
  BY <1>9 DEF OpenFails, dbVars, unitVars
<1>10. ASSUME NEW c \in Contexts, NEW id \in DatabaseIds, AskDatabase(c, id)
      PROVE  UNCHANGED <<phase, late, begun, unit>>
  BY <1>10 DEF AskDatabase, dbVars, unitVars
<1>11. ASSUME NEW c \in Contexts, NEW id \in DatabaseIds, NEW what \in AppWrites,
             RunStatement(c, id, what)
      PROVE  UNCHANGED <<phase, late, begun, unit>>
  BY <1>11 DEF RunStatement, Execute, ExecuteFails, dbVars, unitVars
<1>12. CASE UNCHANGED <<phase, late, begun, unit>>
  BY <1>12 DEF StoreEnded
<1> QED BY <1>1, <1>2, <1>3, <1>4, <1>5, <1>6, <1>7, <1>8, <1>9, <1>10, <1>11, <1>12 DEF Next,
   Step, vars

-----------------------------------------------------------------------------
(* The statements.                                                          *)

\* Where the statements of an action, and the session's, are run.
Runs(c, id, x) ==
    /\ Execute(c, id, x)
    /\ x \in AppWrites => phase[c] = "action" /\ <<c, unit[c], id, x>> \notin executed
    /\ x = "remove" => phase[c] = "session"
    /\ x = "session" => phase[c] = "store"

\* The steps that run a statement, and how the request goes on.
LEMMA StatementCases ==
    ASSUME UnitInv, NEW c \in Contexts, Statement(c)
    PROVE  /\ \/ UNCHANGED <<dbVars, executed>>
              \/ \E id \in DatabaseIds, x \in AppWrites \cup {"remove", "session", "gc"} :
                    Runs(c, id, x)
           /\ \A d \in Contexts : d # c => phase'[d] = phase[d]
           /\ \/ phase[c] \in {"session", "action"} /\ phase'[c] = "action"
              \/ phase[c] = "store" /\ phase'[c] = "respond"
              \/ phase[c] = "gc" /\ phase'[c] = "release"
           /\ unit[c] \in Units /\ UNCHANGED unitVars
<1> USE ContextAssumptions DEF UnitInv
<1>1. CASE FindSession(c)
  <2>1. UNCHANGED <<dbVars, executed>> \/ Execute(c, SessionDb, "remove")
    BY <1>1 DEF FindSession, ExecuteFails, dbVars
  <2>2. /\ phase[c] = "session" /\ phase' = [phase EXCEPT ![c] = "action"]
        /\ unit[c] \in Units /\ UNCHANGED unitVars
    BY <1>1 DEF FindSession
  <2>3. "remove" \notin AppWrites /\ SessionDb \in DatabaseIds
    BY DEF SessionDb
  <2> QED BY <2>1, <2>2, <2>3 DEF Runs
<1>2. ASSUME NEW id \in DatabaseIds, NEW what \in AppWrites, RunStatement(c, id, what)
      PROVE  /\ Runs(c, id, what) /\ phase[c] = "action" /\ phase' = phase
             /\ unit[c] \in Units /\ UNCHANGED unitVars
  BY <1>2 DEF RunStatement, InAction, Runs
<1>3. CASE StoreSession(c)
  <2>1. UNCHANGED <<dbVars, executed>> \/ Execute(c, SessionDb, "session")
    BY <1>3 DEF StoreSession, ExecuteFails
  <2>2. /\ phase[c] = "store" /\ phase' = [phase EXCEPT ![c] = "respond"]
        /\ unit[c] \in Units /\ UNCHANGED unitVars
    BY <1>3 DEF StoreSession
  <2>3. "session" \notin AppWrites /\ SessionDb \in DatabaseIds
    BY DEF SessionDb
  <2> QED BY <2>1, <2>2, <2>3 DEF Runs
<1>4. CASE CollectGarbage(c)
  <2>1. UNCHANGED <<dbVars, executed>> \/ Execute(c, SessionDb, "gc")
    BY <1>4 DEF CollectGarbage, ExecuteFails
  <2>2. /\ phase[c] = "gc" /\ phase' = [phase EXCEPT ![c] = "release"]
        /\ unit[c] \in Units /\ UNCHANGED unitVars
    BY <1>4 DEF CollectGarbage
  <2>3. "gc" \notin AppWrites /\ SessionDb \in DatabaseIds
    BY DEF SessionDb
  <2> QED BY <2>1, <2>2, <2>3 DEF Runs
<1> QED BY <1>1, <1>2, <1>3, <1>4 DEF Statement

\* A statement of an action in a regular request waits for the end of the action.
LEMMA RunsFacts ==
    ASSUME DbInv, Books, TaintKnown, BegunInTx, Early, NEW c \in Contexts,
           NEW id \in DatabaseIds, unit[c] \in Units, NEW x \in AppWrites \cup {"remove", "session", "gc"},
           Runs(c, id, x), NEW w0, w0 = <<c, unit[c], id, x>>
    PROVE  /\ w0[1] = c /\ w0[2] = unit[c] /\ w0[3] = id /\ w0[4] = x
           /\ executed' = executed \cup {w0}
           /\ begun' = begun /\ disturbed' = disturbed
           /\ \A w \in executed : Waiting(w) => Waiting(w)'
           /\ CalmAt(c, unit[c], id) => Waiting(w0)' \/ w0 \in durable'
           /\ durable' = durable \/ durable' = durable \cup {w0}
           /\ x \in AppWrites /\ Regular(c, unit[c], id) =>
                 durable' = durable /\ Waiting(w0)' /\ w0 \notin durable
<1>1. Execute(c, id, x)
  BY DEF Runs
<1>2. ASSUME x \in AppWrites, Regular(c, unit[c], id)
      PROVE  held[c][id] \in inTx /\ w0 \notin durable /\ CalmAt(c, unit[c], id)
  <2>1. phase[c] = "action" /\ w0 \notin executed /\ held[c][id] # NoConnection
    BY <1>2 DEF Runs, Execute
  <2>2. CalmAt(c, unit[c], id)
    BY <1>2, RegularIsCalm
  <2>3. id \in begun[c]
    BY <1>2, <2>1 DEF Early, Regular
  <2> QED BY <2>1, <2>2, <2>3 DEF BegunInTx, Books
<1>3. /\ w0[1] = c /\ w0[2] = unit[c] /\ w0[3] = id /\ w0[4] = x
      /\ executed' = executed \cup {w0}
      /\ UNCHANGED <<begun, disturbed>>
      /\ \A w \in executed : Waiting(w) => Waiting(w)'
      /\ \/ /\ held[c][id] \in inTx /\ durable' = durable
            /\ CalmAt(c, unit[c], id) => Waiting(w0)'
         \/ held[c][id] \notin inTx /\ durable' = durable \cup {w0}
  BY <1>1, ExecuteFacts
<1>4. w0 \in {w0}
  OBVIOUS
<1> QED BY <1>2, <1>3, <1>4

\* What a regular request has run on a database waits until its transaction there
\* ends.
LEMMA NextCollected ==
    ASSUME DbInv, UnitInv, Books, PendingOwn, TaintKnown,
           BegunInTx, Early, Course, Collected, [Next]_vars
    PROVE  Collected'
<1>0. disturbed \subseteq disturbed'
  BY DisturbedGrows
<1>1. ASSUME NEW c \in Contexts, StartRequest(c) \/ StartPayload(c) PROVE Collected'
  <2>1. /\ UNCHANGED <<dbVars, executed>> /\ unit'[c] = unit[c] + 1
        /\ \A d \in Contexts : d # c => phase'[d] = phase[d] /\ unit'[d] = unit[d]
        /\ \A w \in executed : w[1] = c => w[2] # unit[c] + 1
        /\ \A w \in executed : Regular(w[1], w[2], w[3])' => Regular(w[1], w[2], w[3])
    BY <1>1, StartFacts
  <2>2. \A w \in executed : w[1] \in Contexts
    BY WriteFacts DEF DbInv, DbTyped
  <2>3. \A w \in executed : Unended(w)' => Unended(w)
    BY <2>1, <2>2 DEF Unended, dbVars
  <2> QED BY <2>1, <2>3 DEF Collected, Waiting, dbVars
<1>2. ASSUME NEW c \in Contexts, NEW id \in DatabaseIds, GetSqlDatabase(c, id) PROVE Collected'
  <2>1. UNCHANGED <<durable, phase, executed, unit, policy>>
    BY <1>2, GetFacts
  <2>2. /\ phase[c] # "finish" /\ \A d \in Contexts : d # c => begun'[d] = begun[d]
        /\ \A w \in executed : Waiting(w) => Waiting(w)'
    BY <1>2, GetFacts DEF Touches
  <2>3. \A w \in executed : Regular(w[1], w[2], w[3])' => Regular(w[1], w[2], w[3])
    BY <1>0, <2>1, RegularBefore
  <2>4. \A w \in executed : w[1] \in Contexts
    BY WriteFacts DEF DbInv, DbTyped
  <2>5. \A w \in executed : Unended(w)' => Unended(w)
    BY <2>1, <2>2, <2>4 DEF Unended
  <2> QED BY <2>1, <2>2, <2>3, <2>5 DEF Collected
<1>3. ASSUME NEW c \in Contexts, Statement(c) PROVE Collected'
  <2>1. UNCHANGED <<unit, policy>> /\ unit[c] \in Units
    BY <1>3, StatementCases DEF unitVars
  <2>2. /\ \A d \in Contexts : d # c => phase'[d] = phase[d]
        /\ \/ phase[c] \in {"session", "action"} /\ phase'[c] = "action"
           \/ phase'[c] \in {"respond", "release"}
    BY <1>3, StatementCases
  <2>3. CASE UNCHANGED <<dbVars, executed>>
    <3>1. \A w \in executed : w[1] \in Contexts
      BY WriteFacts DEF DbInv, DbTyped
    <3>2. \A w \in executed : Unended(w)' => Unended(w)
      BY <2>1, <2>2, <2>3, <3>1 DEF Unended, dbVars
    <3>3. \A w \in executed : Regular(w[1], w[2], w[3])' => Regular(w[1], w[2], w[3])
      BY <1>0, <2>1, RegularBefore
    <3> QED BY <2>3, <3>2, <3>3 DEF Collected, Waiting, dbVars
  <2>4. ASSUME NEW i \in DatabaseIds, NEW x \in AppWrites \cup {"remove", "session", "gc"},
               Runs(c, i, x)
        PROVE  Collected'
    <3>1. PICK w0 : w0 = <<c, unit[c], i, x>>
      OBVIOUS
    <3>2. /\ w0[1] = c /\ w0[2] = unit[c] /\ w0[3] = i /\ w0[4] = x
          /\ executed' = executed \cup {w0}
          /\ begun' = begun /\ \A w \in executed : Waiting(w) => Waiting(w)'
          /\ durable' = durable \/ durable' = durable \cup {w0}
          /\ x \in AppWrites /\ Regular(c, unit[c], i) =>
                durable' = durable /\ Waiting(w0)' /\ w0 \notin durable
      BY <2>1, <2>4, <3>1, RunsFacts
    <3>3. \A w \in executed : w[1] \in Contexts
      BY WriteFacts DEF DbInv, DbTyped
    <3>4. \A w \in executed : Unended(w)' => Unended(w)
      BY <2>1, <2>2, <3>2, <3>3 DEF Unended
    <3>5. \A w \in executed' : Regular(w[1], w[2], w[3])' => Regular(w[1], w[2], w[3])
      BY <1>0, <2>1, RegularBefore
    <3>6. ASSUME NEW w \in executed', w[4] \in AppWrites,
                 Regular(w[1], w[2], w[3])', Unended(w)'
          PROVE  Waiting(w)' /\ w \notin durable'
      <4>1. CASE w = w0
        BY <3>2, <3>5, <3>6, <4>1
      <4>2. CASE w # w0
        <5>1. w \in executed /\ (w \in durable' => w \in durable)
          BY <3>2, <4>2
        <5> QED BY <3>2, <3>4, <3>5, <3>6, <5>1 DEF Collected
      <4> QED BY <4>1, <4>2
    <3> QED BY <3>6 DEF Collected
  <2> QED BY <1>3, <2>3, <2>4, StatementCases
<1>4. ASSUME NEW c \in Contexts, ActionReturns(c) \/ PreFilterRefuses(c) \/ Throw(c) \/
             TransactionsEnded(c) \/ WriteResponse(c)
      PROVE  Collected'
  <2>1. UNCHANGED <<dbVars, executed, unit, policy>>
    BY <1>4 DEF ActionReturns, PreFilterRefuses, Throw, TransactionsEnded, WriteResponse, unitVars
  <2>2. /\ \A d \in Contexts : d # c => phase'[d] = phase[d]
        /\ \/ phase[c] = "action" /\ phase'[c] = "finish"
           \/ phase'[c] \notin {"session", "action", "finish"}
    BY <1>4 DEF ActionReturns, PreFilterRefuses, Throw, TransactionsEnded, WriteResponse, InAction,
             UnitInv
  <2>3. \A w \in executed : Regular(w[1], w[2], w[3])' => Regular(w[1], w[2], w[3])
    BY <1>0, <2>1, RegularBefore
  <2>4. \A w \in executed : w[1] \in Contexts
    BY WriteFacts DEF DbInv, DbTyped
  <2>5. \A w \in executed : Unended(w)' => Unended(w)
    BY <2>1, <2>2, <2>4 DEF Unended, dbVars
  <2> QED BY <2>1, <2>3, <2>5 DEF Collected, Waiting, dbVars
<1>5. ASSUME NEW c \in Contexts, EndTransaction(c) PROVE Collected'
  <2>1. phase[c] = "finish" /\ UNCHANGED <<phase, executed, unit, policy>>
    BY <1>5, EndFacts
  <2>2. PICK id \in begun[c] : Ends(c, id)
    BY <1>5, EndFacts
  <2>3. /\ begun' = [begun EXCEPT ![c] = begun[c] \ {id}]
        /\ \A w \in pending[held[c][id]] : Calm(w) => w[1] = c /\ w[3] = id
        /\ \A w \in executed : Waiting(w) /\ ~(w[1] = c /\ w[3] = id) => Waiting(w)'
        /\ durable' \subseteq durable \cup pending[held[c][id]]
    BY <2>2 DEF Ends
  <2>4. \A w \in executed : Regular(w[1], w[2], w[3])' => Regular(w[1], w[2], w[3])
    BY <1>0, <2>1, RegularBefore
  <2>5. \A w \in executed : w[1] \in Contexts
    BY WriteFacts DEF DbInv, DbTyped
  <2>6. \A w \in executed : Unended(w)' => Unended(w) /\ ~(w[1] = c /\ w[3] = id)
    BY <2>1, <2>3, <2>5 DEF Unended, DbInv, DbTyped
  <2>7. \A w \in executed : Regular(w[1], w[2], w[3]) => Calm(w)
    BY RegularIsCalm DEF Calm
  <2> QED BY <2>1, <2>3, <2>4, <2>6, <2>7 DEF Collected
<1>6. ASSUME NEW c \in Contexts, Release(c) \/ EndWorker(c) PROVE Collected'
  <2>1. UNCHANGED <<executed, unit, policy>> /\ ReleaseDatabases(c)
    BY <1>6 DEF Release, EndWorker, unitVars
  <2>2. /\ phase'[c] \in {"idle", "ended"} /\ \A d \in Contexts : d # c => phase'[d] = phase[d]
    BY <1>6 DEF Release, EndWorker, UnitInv
  <2>3. /\ \A d \in Contexts : begun'[d] \subseteq begun[d]
        /\ \A w \in executed : Waiting(w) /\ w[1] # c => Waiting(w)'
        /\ durable' = durable
    BY <2>1, ReleaseFacts
  <2>4. \A w \in executed : Regular(w[1], w[2], w[3])' => Regular(w[1], w[2], w[3])
    BY <1>0, <2>1, RegularBefore
  <2>5. \A w \in executed : w[1] \in Contexts
    BY WriteFacts DEF DbInv, DbTyped
  <2>6. \A w \in executed : Unended(w)' => Unended(w) /\ w[1] # c
    BY <2>1, <2>2, <2>3, <2>5 DEF Unended
  <2> QED BY <2>1, <2>3, <2>4, <2>6 DEF Collected
<1>7. CASE Crash
  <2>1. \A w \in executed : w[1] \in Contexts
    BY WriteFacts DEF DbInv, DbTyped
  <2>2. executed' = executed /\ \A d \in Contexts : phase'[d] = "ended"
    BY <1>7 DEF Crash
  <2> QED BY <2>1, <2>2 DEF Collected, Unended
<1>8. ASSUME NEW c \in Contexts, OpenFails(c)
      PROVE  UNCHANGED <<executed, durable, begun, pending, held, unit, policy, phase>>
  BY <1>8 DEF OpenFails, dbVars, unitVars
<1>9. ASSUME NEW c \in Contexts, NEW id \in DatabaseIds, AskDatabase(c, id)
      PROVE  UNCHANGED <<executed, durable, begun, pending, held, unit, policy, phase>>
  BY <1>9 DEF AskDatabase, dbVars, unitVars
<1>10. CASE UNCHANGED <<executed, durable, begun, pending, held, unit, policy, phase>>
  <2>1. \A w \in executed : Regular(w[1], w[2], w[3])' => Regular(w[1], w[2], w[3])
    BY <1>0, <1>10, RegularBefore
  <2> QED BY <1>10, <2>1 DEF Collected, Unended, Waiting
<1> QED BY <1>1, <1>2, <1>3, <1>4, <1>5, <1>6, <1>7, <1>8, <1>9, <1>10 DEF Next, Step,
   Statement, vars

\* What the action of a request has run waits for its commit, or is durable.
LEMMA NextKept ==
    ASSUME DbInv, UnitInv, Books, PendingOwn, TaintKnown,
           BegunInTx, Early, Course, Kept, [Next]_vars
    PROVE  Kept'
<1>0. disturbed \subseteq disturbed'
  BY DisturbedGrows
<1>1. ASSUME NEW c \in Contexts, StartRequest(c) \/ StartPayload(c) PROVE Kept'
  <2>1. /\ UNCHANGED <<dbVars, executed, outcome>> /\ unit'[c] = unit[c] + 1
        /\ \A d \in Contexts : d # c => phase'[d] = phase[d] /\ unit'[d] = unit[d]
        /\ \A w \in executed : w[1] = c => w[2] # unit[c] + 1
        /\ \A w \in executed : Calm(w)' => Calm(w)
    BY <1>1, StartFacts
  <2>2. \A w \in executed : w[1] \in Contexts
    BY WriteFacts DEF DbInv, DbTyped
  <2> QED BY <2>1, <2>2 DEF Kept, Waiting, dbVars
<1>2. ASSUME NEW c \in Contexts, NEW id \in DatabaseIds, GetSqlDatabase(c, id) PROVE Kept'
  <2>1. UNCHANGED <<durable, phase, executed, unit, outcome>>
    BY <1>2, GetFacts
  <2>2. \A w \in executed : Waiting(w) => Waiting(w)'
    BY <1>2, GetFacts
  <2>3. \A w \in executed : Calm(w)' => Calm(w)
    BY <1>0, <2>1, CalmBefore DEF Calm
  <2> QED BY <2>1, <2>2, <2>3 DEF Kept
<1>3. ASSUME NEW c \in Contexts, Statement(c) PROVE Kept'
  <2>1. UNCHANGED <<unit, outcome>> /\ unit[c] \in Units
    BY <1>3, StatementCases DEF unitVars
  <2>2. /\ \A d \in Contexts : d # c => phase'[d] = phase[d]
        /\ \/ phase[c] \in {"session", "action"} /\ phase'[c] = "action"
           \/ phase[c] = "store" /\ phase'[c] = "respond"
           \/ phase[c] = "gc" /\ phase'[c] = "release"
    BY <1>3, StatementCases
  <2>3. \A w \in executed : w[1] \in Contexts
    BY WriteFacts DEF DbInv, DbTyped
  <2>a. \A w : Calm(w)' => Calm(w)
    BY <1>0, <2>1, CalmBefore DEF Calm
  <2>4. CASE UNCHANGED <<dbVars, executed>>
    BY <2>1, <2>2, <2>3, <2>4, <2>a DEF Kept, Waiting, dbVars
  <2>5. ASSUME NEW i \in DatabaseIds, NEW x \in AppWrites \cup {"remove", "session", "gc"},
               Runs(c, i, x)
        PROVE  Kept'
    <3>1. PICK w0 : w0 = <<c, unit[c], i, x>>
      OBVIOUS
    <3>2. /\ w0[1] = c /\ w0[2] = unit[c] /\ w0[3] = i /\ w0[4] = x
          /\ executed' = executed \cup {w0}
          /\ \A w \in executed : Waiting(w) => Waiting(w)'
          /\ CalmAt(c, unit[c], i) => Waiting(w0)' \/ w0 \in durable'
          /\ durable \subseteq durable'
      BY <2>1, <2>5, <3>1, RunsFacts
    <3>3. x \in ActionWrites => phase'[c] = "action"
      BY <2>2, <2>5 DEF Runs, ActionWrites
    <3>4. ASSUME NEW w \in executed', w[4] \in ActionWrites, w[2] = unit'[w[1]], Calm(w)',
                 outcome'[w[1]][w[2]] \in {"none", "commit"}
          PROVE  /\ phase'[w[1]] \in {"session", "action", "finish"} =>
                        w \in durable' \/ Waiting(w)'
                 /\ phase'[w[1]] \in {"store", "respond"} => w \in durable'
      <4>1. CASE w = w0
        <5>1. CalmAt(c, unit[c], i)
          BY <2>a, <3>2, <3>4, <4>1 DEF Calm
        <5> QED BY <3>2, <3>3, <3>4, <4>1, <5>1
      <4>2. CASE w # w0
        <5>1. w \in executed
          BY <3>2, <4>2
        <5> QED BY <2>1, <2>2, <2>3, <2>a, <3>2, <3>4, <5>1 DEF Kept
      <4> QED BY <4>1, <4>2
    <3> QED BY <3>4 DEF Kept
  <2> QED BY <1>3, <2>4, <2>5, StatementCases
<1>4. ASSUME NEW c \in Contexts, ActionReturns(c) \/ PreFilterRefuses(c) \/ Throw(c) PROVE Kept'
  <2>1. UNCHANGED <<dbVars, executed, unit>>
    BY <1>4 DEF ActionReturns, PreFilterRefuses, Throw
  <2>2. \A d \in Contexts : d # c => phase'[d] = phase[d] /\ outcome'[d] = outcome[d]
    BY <1>4 DEF ActionReturns, PreFilterRefuses, Throw, UnitInv
  <2>3. \/ phase[c] = "action" /\ outcome[c][unit[c]] = "none" /\ phase'[c] = "finish"
        \/ phase'[c] = "respond" /\ outcome'[c][unit[c]] = "filtered"
        \/ phase'[c] \in {"release", "idle"}
    BY <1>4 DEF ActionReturns, PreFilterRefuses, Throw, InAction, UnitInv, Course
  <2>4. \A w \in executed : w[1] \in Contexts
    BY WriteFacts DEF DbInv, DbTyped
  <2>5. \A w \in executed : Waiting(w)' <=> Waiting(w)
    BY <2>1 DEF Waiting, dbVars
  <2>6. \A w \in executed : Calm(w)' => Calm(w)
    BY <1>0, <2>1, CalmBefore DEF Calm
  <2> QED BY <2>1, <2>2, <2>3, <2>4, <2>5, <2>6 DEF Kept, dbVars
<1>5. ASSUME NEW c \in Contexts, EndTransaction(c) PROVE Kept'
  <2>1. phase[c] = "finish" /\ unit[c] \in Units /\ UNCHANGED <<phase, executed, unit>>
    BY <1>5, EndFacts DEF UnitInv
  <2>2. PICK id \in begun[c] : Ends(c, id)
    BY <1>5, EndFacts
  <2>3. /\ \A w \in executed : Waiting(w) /\ ~(w[1] = c /\ w[3] = id) => Waiting(w)'
        /\ durable \subseteq durable'
        /\ \/ outcome' = outcome /\ pending[held[c][id]] \subseteq durable'
           \/ outcome' = [outcome EXCEPT ![c] = [@ EXCEPT ![unit[c]] = "failed"]]
           \/ outcome[c][unit[c]] = "rollback" /\ outcome' = outcome
    BY <2>2 DEF Ends
  <2>4. /\ \A d \in Contexts : d # c => outcome'[d] = outcome[d]
        /\ \/ outcome' = outcome /\ pending[held[c][id]] \subseteq durable'
           \/ outcome'[c][unit[c]] \in {"failed", "rollback"}
    BY <2>1, <2>3 DEF UnitInv
  <2>5. \A w \in executed : w[1] \in Contexts
    BY WriteFacts DEF DbInv, DbTyped
  <2>a. \A w \in executed : Calm(w)' => Calm(w)
    BY <1>0, <2>1, CalmBefore DEF Calm
  <2>6. ASSUME NEW w \in executed, w[4] \in ActionWrites, w[2] = unit[w[1]], Calm(w),
               outcome'[w[1]][w[2]] \in {"none", "commit"}
        PROVE  /\ phase[w[1]] \in {"session", "action", "finish"} => w \in durable' \/ Waiting(w)'
               /\ phase[w[1]] \in {"store", "respond"} => w \in durable'
    <3>1. CASE w[1] = c /\ w[3] = id
      BY <2>1, <2>3, <2>4, <2>6, <3>1 DEF Kept, Waiting
    <3>2. CASE w[1] = c /\ w[3] # id
      BY <2>1, <2>3, <2>4, <2>6, <3>2 DEF Kept
    <3>3. CASE w[1] # c
      BY <2>1, <2>3, <2>4, <2>5, <2>6, <3>3 DEF Kept
    <3> QED BY <3>1, <3>2, <3>3
  <2> QED BY <2>1, <2>6, <2>a DEF Kept
<1>6. ASSUME NEW c \in Contexts, TransactionsEnded(c) \/ WriteResponse(c) PROVE Kept'
  <2>1. UNCHANGED <<dbVars, executed, unit, outcome>>
    BY <1>6 DEF TransactionsEnded, WriteResponse, unitVars
  <2>2. /\ \A d \in Contexts : d # c => phase'[d] = phase[d]
        /\ \/ phase[c] = "finish" /\ begun[c] = {}
               /\ phase'[c] \notin {"session", "action", "finish"}
           \/ phase'[c] = "gc"
    BY <1>6 DEF TransactionsEnded, WriteResponse, UnitInv
  <2>3. \A w \in executed : w[1] \in Contexts
    BY WriteFacts DEF DbInv, DbTyped
  <2>4. \A w \in executed : Waiting(w)' <=> Waiting(w)
    BY <2>1 DEF Waiting, dbVars
  <2>5. \A w \in executed : w[1] = c /\ begun[c] = {} => ~Waiting(w)
    BY DEF Waiting
  <2>6. \A w \in executed : Calm(w)' => Calm(w)
    BY <1>0, <2>1, CalmBefore DEF Calm
  <2> QED BY <2>1, <2>2, <2>3, <2>4, <2>5, <2>6 DEF Kept, dbVars
<1>7. ASSUME NEW c \in Contexts, Release(c) \/ EndWorker(c) PROVE Kept'
  <2>1. UNCHANGED <<executed, unit, outcome>> /\ ReleaseDatabases(c)
    BY <1>7 DEF Release, EndWorker, unitVars
  <2>2. /\ phase'[c] \in {"idle", "ended"} /\ \A d \in Contexts : d # c => phase'[d] = phase[d]
    BY <1>7 DEF Release, EndWorker, UnitInv
  <2>3. /\ \A w \in executed : Waiting(w) /\ w[1] # c => Waiting(w)'
        /\ durable' = durable
    BY <2>1, ReleaseFacts
  <2>4. \A w \in executed : w[1] \in Contexts
    BY WriteFacts DEF DbInv, DbTyped
  <2>5. \A w \in executed : Calm(w)' => Calm(w)
    BY <1>0, <2>1, CalmBefore DEF Calm
  <2> QED BY <2>1, <2>2, <2>3, <2>4, <2>5 DEF Kept
<1>8. CASE Crash
  <2>1. \A w \in executed : w[1] \in Contexts
    BY WriteFacts DEF DbInv, DbTyped
  <2>2. executed' = executed /\ \A d \in Contexts : phase'[d] = "ended"
    BY <1>8 DEF Crash
  <2> QED BY <2>1, <2>2 DEF Kept
<1>9. ASSUME NEW c \in Contexts, OpenFails(c)
      PROVE  UNCHANGED <<executed, durable, begun, pending, held, unit, outcome, phase>>
  BY <1>9 DEF OpenFails, dbVars, unitVars
<1>10. ASSUME NEW c \in Contexts, NEW id \in DatabaseIds, AskDatabase(c, id)
      PROVE  UNCHANGED <<executed, durable, begun, pending, held, unit, outcome, phase>>
  BY <1>10 DEF AskDatabase, dbVars, unitVars
<1>11. CASE UNCHANGED <<executed, durable, begun, pending, held, unit, outcome, phase>>
  <2>1. \A w \in executed : Calm(w)' => Calm(w)
    BY <1>0, <1>11, CalmBefore DEF Calm
  <2> QED BY <1>11, <2>1 DEF Kept, Waiting
<1> QED BY <1>1, <1>2, <1>3, <1>4, <1>5, <1>6, <1>7, <1>8, <1>9, <1>10, <1>11 DEF Next, Step,
   Statement, vars

\* What is durable of a regular request belongs to an action that was committed.
LEMMA NextUndone ==
    ASSUME DbInv, UnitInv, Books, PendingOwn, TaintKnown,
           BegunInTx, Early, Course, Undone, [Next]_vars
    PROVE  Undone'
<1>0. disturbed \subseteq disturbed'
  BY DisturbedGrows
<1>1. ASSUME NEW c \in Contexts, StartRequest(c) \/ StartPayload(c) PROVE Undone'
  <2>1. /\ UNCHANGED <<dbVars, outcome>>
        /\ \A w \in executed : Regular(w[1], w[2], w[3])' => Regular(w[1], w[2], w[3])
    BY <1>1, StartFacts
  <2> QED BY <2>1 DEF Undone, Books, dbVars
<1>2. ASSUME NEW c \in Contexts, Statement(c) PROVE Undone'
  <2>1. UNCHANGED <<unit, policy, outcome>> /\ unit[c] \in Units
    BY <1>2, StatementCases DEF unitVars
  <2>2. CASE UNCHANGED <<dbVars, executed>>
    <3>1. \A w \in durable : Regular(w[1], w[2], w[3])' => Regular(w[1], w[2], w[3])
      BY <1>0, <2>1, RegularBefore
    <3> QED BY <2>1, <2>2, <3>1 DEF Undone, dbVars
  <2>3. ASSUME NEW i \in DatabaseIds, NEW x \in AppWrites \cup {"remove", "session", "gc"},
               Runs(c, i, x)
        PROVE  Undone'
    <3>1. PICK w0 : w0 = <<c, unit[c], i, x>>
      OBVIOUS
    <3>2. /\ w0[1] = c /\ w0[2] = unit[c] /\ w0[3] = i /\ w0[4] = x
          /\ durable' = durable \/ durable' = durable \cup {w0}
          /\ x \in AppWrites /\ Regular(c, unit[c], i) => durable' = durable
      BY <2>1, <2>3, <3>1, RunsFacts
    <3>3. \A w \in durable' : Regular(w[1], w[2], w[3])' => Regular(w[1], w[2], w[3])
      BY <1>0, <2>1, RegularBefore
    <3> QED BY <2>1, <3>2, <3>3 DEF Undone
  <2> QED BY <1>2, <2>2, <2>3, StatementCases
<1>3. ASSUME NEW c \in Contexts, ActionReturns(c) \/ PreFilterRefuses(c) \/ Throw(c) PROVE Undone'
  <2>1. UNCHANGED <<durable, unit, policy>> /\ unit[c] \in Units
    BY <1>3 DEF ActionReturns, PreFilterRefuses, Throw, dbVars, InAction, UnitInv
  <2>2. /\ \A d \in Contexts : d # c => outcome'[d] = outcome[d]
        /\ \A u \in Units : u # unit[c] => outcome'[c][u] = outcome[c][u]
        /\ outcome[c][unit[c]] = "none" \/ outcome' = outcome
    BY <1>3, <2>1 DEF ActionReturns, PreFilterRefuses, Throw, InAction, UnitInv, Course
  <2>3. \A w \in durable : Regular(w[1], w[2], w[3])' => Regular(w[1], w[2], w[3])
    BY <1>0, <2>1, RegularBefore
  <2>4. \A w \in durable : w[1] \in Contexts /\ w[2] \in Units
    BY WriteFacts DEF DbInv, DbTyped
  <2> QED BY <2>1, <2>2, <2>3, <2>4 DEF Undone
<1>4. ASSUME NEW c \in Contexts, EndTransaction(c) PROVE Undone'
  <2>1. phase[c] = "finish" /\ unit[c] \in Units /\ UNCHANGED <<executed, unit, policy>>
    BY <1>4, EndFacts DEF UnitInv
  <2>2. PICK id \in begun[c] : Ends(c, id)
    BY <1>4, EndFacts
  <2>3. /\ held[c][id] \in Connections
        /\ \A w \in pending[held[c][id]] : Calm(w) => w[1] = c /\ w[2] = unit[c]
        /\ \/ /\ outcome[c][unit[c]] # "rollback" /\ outcome' = outcome
              /\ durable' = durable \cup pending[held[c][id]]
           \/ /\ durable' = durable
              /\ outcome' = [outcome EXCEPT ![c] = [@ EXCEPT ![unit[c]] = "failed"]]
           \/ outcome' = outcome /\ durable' = durable
    BY <2>2 DEF Ends
  <2>4. \A w \in durable' : Regular(w[1], w[2], w[3])' => Regular(w[1], w[2], w[3])
    BY <1>0, <2>1, RegularBefore
  <2>5. \A w \in pending[held[c][id]] : Regular(w[1], w[2], w[3]) => w[1] = c /\ w[2] = unit[c]
    <3>1. \A w \in pending[held[c][id]] : Regular(w[1], w[2], w[3]) => Calm(w)
      BY RegularIsCalm DEF Calm
    <3> QED BY <2>3, <3>1
  <2>6. outcome[c][unit[c]] \in {"commit", "rollback", "failed"}
    BY <2>1 DEF Course
  <2>7. CASE /\ outcome[c][unit[c]] # "rollback" /\ outcome' = outcome
             /\ durable' = durable \cup pending[held[c][id]]
    BY <2>3, <2>4, <2>5, <2>6, <2>7 DEF Undone
  <2>8. CASE /\ durable' = durable
             /\ outcome' = [outcome EXCEPT ![c] = [@ EXCEPT ![unit[c]] = "failed"]]
    <3>1. \A w \in durable : w[1] \in Contexts /\ w[2] \in Units
      BY WriteFacts DEF DbInv, DbTyped
    <3>2. \A w \in durable : outcome'[w[1]][w[2]] \in {outcome[w[1]][w[2]], "failed"}
      BY <2>1, <2>8, <3>1 DEF UnitInv
    <3> QED BY <2>4, <2>8, <3>2 DEF Undone
  <2>9. CASE outcome' = outcome /\ durable' = durable
    BY <2>4, <2>9 DEF Undone
  <2> QED BY <2>3, <2>7, <2>8, <2>9
<1>5. ASSUME NEW c \in Contexts, OpenFails(c) \/ TransactionsEnded(c) \/ WriteResponse(c)
             \/ Release(c) \/ EndWorker(c)
      PROVE  UNCHANGED <<durable, unit, policy, outcome>>
  BY <1>5 DEF OpenFails, TransactionsEnded, WriteResponse, Release, EndWorker,
     ReleaseDatabases, dbVars, unitVars
<1>6. ASSUME NEW c \in Contexts, NEW id \in DatabaseIds, GetSqlDatabase(c, id) \/
             AskDatabase(c, id)
      PROVE  UNCHANGED <<durable, unit, policy, outcome>>
  BY <1>6 DEF GetSqlDatabase, AskDatabase, dbVars, unitVars
<1>7. Crash => UNCHANGED <<durable, unit, policy, outcome>>
  BY DEF Crash, dbVars, unitVars
<1>8. CASE UNCHANGED <<durable, unit, policy, outcome>>
  <2>1. \A w \in durable : Regular(w[1], w[2], w[3])' => Regular(w[1], w[2], w[3])
    BY <1>0, <1>8, RegularBefore
  <2> QED BY <1>8, <2>1 DEF Undone
<1> QED BY <1>1, <1>2, <1>3, <1>4, <1>5, <1>6, <1>7, <1>8 DEF Next, Step, Statement, vars

\* Of a request's statements on a database only those that wait there can become
\* durable later.
LEMMA TogetherSame ==
    ASSUME Together,
           \A d \in HttpContexts, u \in Units, i \in DatabaseIds :
               Regular(d, u, i)' /\ AppStatements(d, u, i) # {} => Regular(d, u, i),
           executed' = executed,
           \A w \in executed : w[1] \in HttpContexts /\ w[4] \in AppWrites =>
                                   (w \in durable' <=> w \in durable)
    PROVE  Together'
<1>1. \A d \in HttpContexts, u \in Units, i \in DatabaseIds :
          AppStatements(d, u, i)' = AppStatements(d, u, i)
  BY DEF AppStatements
<1>2. \A d \in HttpContexts, u \in Units, i \in DatabaseIds : \A w \in AppStatements(d, u, i) :
          w \in executed /\ w[1] \in HttpContexts /\ w[4] \in AppWrites
  BY DEF AppStatements
<1> QED BY <1>1, <1>2 DEF Together

\* The statements of a regular request on a database become durable together.
LEMMA NextTogether ==
    ASSUME DbInv, UnitInv, Books, PendingOwn, TaintKnown,
           BegunInTx, Early, Course, Collected, Together, [Next]_vars
    PROVE  Together'
<1>0. disturbed \subseteq disturbed'
  BY DisturbedGrows
<1>1. ASSUME NEW c \in Contexts, StartRequest(c) \/ StartPayload(c) PROVE Together'
  <2>1. /\ UNCHANGED <<dbVars, executed>>
        /\ \A w \in executed : Regular(w[1], w[2], w[3])' => Regular(w[1], w[2], w[3])
    BY <1>1, StartFacts
  <2>2. \A d \in HttpContexts, u \in Units, i \in DatabaseIds :
            Regular(d, u, i)' /\ AppStatements(d, u, i) # {} => Regular(d, u, i)
    BY <2>1 DEF AppStatements
  <2> QED BY <2>1, <2>2, TogetherSame DEF dbVars
<1>2. ASSUME NEW c \in Contexts, Statement(c) PROVE Together'
  <2>1. UNCHANGED <<unit, policy>> /\ unit[c] \in Units
    BY <1>2, StatementCases DEF unitVars
  <2>2. \A d \in HttpContexts, u \in Units, j \in DatabaseIds :
            Regular(d, u, j)' => Regular(d, u, j)
    BY <1>0, <2>1, RegularBefore
  <2>3. CASE UNCHANGED <<dbVars, executed>>
    BY <2>2, <2>3, TogetherSame DEF dbVars
  <2>4. ASSUME NEW i \in DatabaseIds, NEW x \in AppWrites \cup {"remove", "session", "gc"},
               Runs(c, i, x)
        PROVE  Together'
    <3>1. PICK w0 : w0 = <<c, unit[c], i, x>>
      OBVIOUS
    <3>2. /\ w0[1] = c /\ w0[2] = unit[c] /\ w0[3] = i /\ w0[4] = x
          /\ executed' = executed \cup {w0}
          /\ durable' = durable \/ durable' = durable \cup {w0}
          /\ x \in AppWrites /\ Regular(c, unit[c], i) => durable' = durable /\ w0 \notin durable
      BY <2>1, <2>4, <3>1, RunsFacts
    <3>3. ASSUME NEW d \in HttpContexts, NEW u \in Units, NEW j \in DatabaseIds,
                 Regular(d, u, j)
          PROVE  \/ AppStatements(d, u, j)' \cap durable' = {}
                 \/ AppStatements(d, u, j)' \subseteq durable'
      <4>1. CASE d = c /\ u = unit[c] /\ j = i /\ x \in AppWrites
        <5>1. \A w \in AppStatements(d, u, j) : w \notin durable
          <6>1. phase[c] = "action"
            BY <2>4, <4>1 DEF Runs
          <6>2. \A w \in AppStatements(d, u, j) :
                    w \in executed /\ w[1] = c /\ w[2] = unit[c] /\ w[3] = i /\ w[4] \in AppWrites
            BY <4>1 DEF AppStatements
          <6> QED BY <3>3, <4>1, <6>1, <6>2 DEF Collected, Unended
        <5>2. \A w \in AppStatements(d, u, j)' : w \in AppStatements(d, u, j) \/ w = w0
          BY <3>2 DEF AppStatements
        <5> QED BY <3>2, <3>3, <4>1, <5>1, <5>2
      <4>2. CASE ~(d = c /\ u = unit[c] /\ j = i /\ x \in AppWrites)
        <5>1. AppStatements(d, u, j)' = AppStatements(d, u, j)
          BY <3>2, <4>2 DEF AppStatements
        <5>2. \A w \in AppStatements(d, u, j) : w # w0
          BY <3>2, <4>2 DEF AppStatements
        <5>3. \/ AppStatements(d, u, j) \cap durable = {}
              \/ AppStatements(d, u, j) \subseteq durable
          BY <3>3 DEF Together
        <5> QED BY <3>2, <5>1, <5>2, <5>3
      <4> QED BY <4>1, <4>2
    <3> QED BY <2>2, <3>3 DEF Together
  <2> QED BY <1>2, <2>3, <2>4, StatementCases
<1>3. ASSUME NEW c \in Contexts, EndTransaction(c) PROVE Together'
  <2>1. phase[c] = "finish" /\ unit[c] \in Units /\ UNCHANGED <<executed, unit, policy>>
    BY <1>3, EndFacts DEF UnitInv
  <2>2. PICK id \in begun[c] : Ends(c, id)
    BY <1>3, EndFacts
  <2>3. /\ id \in DatabaseIds /\ held[c][id] \in Connections
        /\ \A w \in pending[held[c][id]] : Calm(w) => w[1] = c /\ w[2] = unit[c] /\ w[3] = id
        /\ durable' = durable \/ durable' = durable \cup pending[held[c][id]]
    BY <2>2 DEF Ends
  <2>4. \A d \in HttpContexts, u \in Units, j \in DatabaseIds :
            Regular(d, u, j)' => Regular(d, u, j)
    BY <1>0, <2>1, RegularBefore
  <2>5. CASE durable' = durable
    BY <2>1, <2>4, <2>5, TogetherSame
  <2>6. CASE durable' = durable \cup pending[held[c][id]]
    <3>1. ASSUME NEW d \in HttpContexts, NEW u \in Units, NEW j \in DatabaseIds,
                 Regular(d, u, j)
          PROVE  \/ AppStatements(d, u, j) \cap durable' = {}
                 \/ AppStatements(d, u, j) \subseteq durable'
      <4>1. CASE d = c /\ u = unit[c] /\ j = id
        <5>1. \A w \in AppStatements(d, u, j) :
                  /\ w \in executed /\ w[1] = c /\ w[2] = unit[c] /\ w[3] = id
                  /\ w[4] \in AppWrites
          BY <4>1 DEF AppStatements
        <5>2. \A w \in AppStatements(d, u, j) : Waiting(w)
          BY <2>1, <2>2, <3>1, <4>1, <5>1 DEF Collected, Unended
        <5> QED BY <2>6, <5>1, <5>2 DEF Waiting
      <4>2. CASE ~(d = c /\ u = unit[c] /\ j = id)
        <5>1. \A w \in AppStatements(d, u, j) : w \notin pending[held[c][id]]
          <6>1. \A w \in AppStatements(d, u, j) : Calm(w) /\ w[1] = d /\ w[2] = u /\ w[3] = j
            BY <3>1, RegularIsCalm DEF AppStatements, Calm
          <6> QED BY <2>3, <4>2, <6>1
        <5>2. \/ AppStatements(d, u, j) \cap durable = {}
              \/ AppStatements(d, u, j) \subseteq durable
          BY <3>1 DEF Together
        <5> QED BY <2>6, <5>1, <5>2
      <4> QED BY <4>1, <4>2
    <3>2. \A d \in HttpContexts, u \in Units, j \in DatabaseIds :
              AppStatements(d, u, j)' = AppStatements(d, u, j)
      BY <2>1 DEF AppStatements
    <3> QED BY <2>4, <3>1, <3>2 DEF Together
  <2> QED BY <2>3, <2>5, <2>6
<1>4. ASSUME NEW c \in Contexts, OpenFails(c) \/ ActionReturns(c) \/ PreFilterRefuses(c)
             \/ Throw(c) \/ TransactionsEnded(c) \/ WriteResponse(c) \/ Release(c) \/
             EndWorker(c)
      PROVE  UNCHANGED <<executed, durable, unit, policy>>
  BY <1>4 DEF OpenFails, ActionReturns, PreFilterRefuses, Throw, TransactionsEnded,
     WriteResponse, Release, EndWorker, ReleaseDatabases, dbVars, unitVars
<1>5. ASSUME NEW c \in Contexts, NEW id \in DatabaseIds, GetSqlDatabase(c, id) \/
             AskDatabase(c, id)
      PROVE  UNCHANGED <<executed, durable, unit, policy>>
  BY <1>5 DEF GetSqlDatabase, AskDatabase, dbVars, unitVars
<1>6. Crash => UNCHANGED <<executed, durable, unit, policy>>
  BY DEF Crash, dbVars, unitVars
<1>7. CASE UNCHANGED <<executed, durable, unit, policy>>
  <2>1. \A d \in HttpContexts, u \in Units, j \in DatabaseIds :
            Regular(d, u, j)' => Regular(d, u, j)
    BY <1>0, <1>7, RegularBefore
  <2> QED BY <1>7, <2>1 DEF Together, AppStatements
<1> QED BY <1>1, <1>2, <1>3, <1>4, <1>5, <1>6, <1>7 DEF Next, Step, Statement, vars

\* What was durable when the response was written stays so, and nothing is added
\* to an answered request.
LEMMA NextAnswered ==
    ASSUME DbInv, UnitInv, Books, PendingOwn, TaintKnown,
           BegunInTx, Early, Course, AnsweredPast, Kept, AnsweredIsDurable, [Next]_vars
    PROVE  AnsweredIsDurable'
<1>0. disturbed \subseteq disturbed'
  BY DisturbedGrows
<1>1. ASSUME NEW c \in Contexts, Statement(c) PROVE AnsweredIsDurable'
  <2>1. UNCHANGED <<answered, outcome>> /\ unit[c] \in Units
    BY <1>1, StatementCases DEF unitVars
  <2>2. CASE UNCHANGED <<dbVars, executed>>
    BY <1>0, <2>1, <2>2 DEF AnsweredIsDurable, dbVars
  <2>3. ASSUME NEW i \in DatabaseIds, NEW x \in AppWrites \cup {"remove", "session", "gc"},
               Runs(c, i, x)
        PROVE  AnsweredIsDurable'
    <3>1. PICK w0 : w0 = <<c, unit[c], i, x>>
      OBVIOUS
    <3>2. /\ w0[1] = c /\ w0[2] = unit[c] /\ w0[4] = x
          /\ executed' = executed \cup {w0} /\ durable \subseteq durable'
      BY <2>1, <2>3, <3>1, RunsFacts
    <3>3. x \in AppWrites \cup {"remove"} => <<c, unit[c]>> \notin answered
      BY <2>1, <2>3 DEF Runs, AnsweredPast
    <3> QED BY <1>0, <2>1, <3>2, <3>3 DEF AnsweredIsDurable
  <2> QED BY <1>1, <2>2, <2>3, StatementCases
<1>2. ASSUME NEW c \in Contexts, ActionReturns(c) \/ PreFilterRefuses(c) \/ Throw(c)
      PROVE AnsweredIsDurable'
  <2>1. UNCHANGED <<durable, executed, answered>> /\ unit[c] \in Units
    BY <1>2 DEF ActionReturns, PreFilterRefuses, Throw, dbVars, InAction, UnitInv
  <2>2. /\ \A d \in Contexts : d # c => outcome'[d] = outcome[d]
        /\ \A u \in Units : u # unit[c] => outcome'[c][u] = outcome[c][u]
        /\ outcome'[c][unit[c]] = "commit" => phase[c] = "action" \/ outcome' = outcome
    BY <1>2, <2>1 DEF ActionReturns, PreFilterRefuses, Throw, InAction, UnitInv
  <2>3. \A w \in executed : w[1] \in Contexts /\ w[2] \in Units
    BY WriteFacts DEF DbInv, DbTyped
  <2> QED BY <1>0, <2>1, <2>2, <2>3 DEF AnsweredIsDurable, AnsweredPast
<1>3. ASSUME NEW c \in Contexts, EndTransaction(c) PROVE AnsweredIsDurable'
  <2>1. unit[c] \in Units /\ UNCHANGED <<executed, answered>>
    BY <1>3, EndFacts DEF UnitInv
  <2>2. PICK id \in begun[c] : Ends(c, id)
    BY <1>3, EndFacts
  <2>3. /\ durable \subseteq durable'
        /\ \/ outcome' = outcome
           \/ outcome' = [outcome EXCEPT ![c] = [@ EXCEPT ![unit[c]] = "failed"]]
    BY <2>2 DEF Ends
  <2>4. \A w \in executed : w[1] \in Contexts /\ w[2] \in Units
    BY WriteFacts DEF DbInv, DbTyped
  <2>5. \A w \in executed : outcome'[w[1]][w[2]] \in {outcome[w[1]][w[2]], "failed"}
    BY <2>1, <2>3, <2>4 DEF UnitInv
  <2> QED BY <1>0, <2>1, <2>3, <2>5 DEF AnsweredIsDurable
<1>4. ASSUME NEW c \in Contexts, WriteResponse(c) PROVE AnsweredIsDurable'
  <2>1. /\ answered' = answered \cup {<<c, unit[c]>>} /\ phase[c] = "respond"
        /\ UNCHANGED <<durable, executed, outcome>>
    BY <1>4 DEF WriteResponse, dbVars
  <2>2. ASSUME NEW w \in executed, <<w[1], w[2]>> = <<c, unit[c]>>, outcome[w[1]][w[2]] = "commit",
               w[1] \in HttpContexts, <<w[1], w[2], w[3]>> \notin disturbed,
               w[4] \in AppWrites \cup {"remove"}
        PROVE  w \in durable
    <3>1. w[1] = c /\ w[2] = unit[c]
      BY <2>2
    <3>2. Calm(w)
      BY <2>2 DEF Calm, CalmAt
    <3> QED BY <2>1, <2>2, <3>1, <3>2 DEF Kept, ActionWrites
  <2> QED BY <1>0, <2>1, <2>2 DEF AnsweredIsDurable
<1>5. ASSUME NEW c \in Contexts, StartRequest(c) \/ StartPayload(c) \/ OpenFails(c) \/
             TransactionsEnded(c) \/ Release(c) \/ EndWorker(c)
      PROVE  UNCHANGED <<executed, durable, answered, outcome>>
  BY <1>5 DEF StartRequest, StartPayload, OpenFails, TransactionsEnded, Release, EndWorker,
     ReleaseDatabases, dbVars, unitVars
<1>6. ASSUME NEW c \in Contexts, NEW id \in DatabaseIds, GetSqlDatabase(c, id) \/
             AskDatabase(c, id)
      PROVE  UNCHANGED <<executed, durable, answered, outcome>>
  BY <1>6 DEF GetSqlDatabase, AskDatabase, dbVars, unitVars
<1>7. Crash => UNCHANGED <<executed, durable, answered, outcome>>
  BY DEF Crash, dbVars, unitVars
<1>8. CASE UNCHANGED <<executed, durable, answered, outcome>>
  BY <1>0, <1>8 DEF AnsweredIsDurable
<1> QED BY <1>1, <1>2, <1>3, <1>4, <1>5, <1>6, <1>7, <1>8 DEF Next, Step, Statement, vars

\* A session that is stored without a transaction is durable at once.
LEMMA NextStored ==
    ASSUME DbInv, UnitInv, Books, PendingOwn, TaintKnown,
           BegunInTx, Early, Course, StoreEnded, StoredSessionIsDurable, [Next]_vars
    PROVE  StoredSessionIsDurable'
<1>0. disturbed \subseteq disturbed'
  BY DisturbedGrows
<1>1. ASSUME NEW c \in Contexts, NEW id \in DatabaseIds, GetSqlDatabase(c, id)
      PROVE StoredSessionIsDurable'
  <2>1. late \subseteq late' /\ UNCHANGED <<durable, executed>>
    BY <1>1, GetFacts
  <2> QED BY <1>0, <2>1 DEF StoredSessionIsDurable
<1>2. ASSUME NEW c \in Contexts, Statement(c) PROVE StoredSessionIsDurable'
  <2>1. UNCHANGED late /\ unit[c] \in Units
    BY <1>2, StatementCases DEF unitVars
  <2>2. CASE UNCHANGED <<dbVars, executed>>
    BY <1>0, <2>1, <2>2 DEF StoredSessionIsDurable, dbVars
  <2>3. ASSUME NEW i \in DatabaseIds, NEW x \in AppWrites \cup {"remove", "session", "gc"},
               Runs(c, i, x)
        PROVE  StoredSessionIsDurable'
    <3>1. PICK w0 : w0 = <<c, unit[c], i, x>>
      OBVIOUS
    <3>2. /\ w0[1] = c /\ w0[2] = unit[c] /\ w0[3] = i /\ w0[4] = x
          /\ executed' = executed \cup {w0} /\ durable \subseteq durable' /\ begun' = begun
          /\ CalmAt(c, unit[c], i) => Waiting(w0)' \/ w0 \in durable'
      BY <2>1, <2>3, <3>1, RunsFacts
    <3>3. x = "session" /\ <<c, unit[c]>> \notin late => begun[c] = {}
      BY <2>3 DEF Runs, StoreEnded
    <3>4. begun[c] = {} /\ CalmAt(c, unit[c], i) => w0 \in durable'
      BY <3>2 DEF Waiting
    <3>5. w0[1] \in HttpContexts /\ <<w0[1], w0[2], w0[3]>> \notin disturbed' => CalmAt(c, unit[c], i)
      BY <1>0, <3>2 DEF CalmAt
    <3> QED BY <1>0, <2>1, <3>5, <3>2, <3>3, <3>4 DEF StoredSessionIsDurable
  <2> QED BY <1>2, <2>2, <2>3, StatementCases
<1>3. ASSUME NEW c \in Contexts, EndTransaction(c) PROVE StoredSessionIsDurable'
  <2>1. durable \subseteq durable'
    BY <1>3, EndFacts DEF Ends
  <2>2. UNCHANGED <<executed, late>>
    BY <1>3, EndFacts
  <2> QED BY <1>0, <2>1, <2>2 DEF StoredSessionIsDurable
<1>4. ASSUME NEW c \in Contexts, StartRequest(c) \/ StartPayload(c) \/ OpenFails(c) \/
             ActionReturns(c) \/ PreFilterRefuses(c) \/ Throw(c) \/ TransactionsEnded(c)
             \/ WriteResponse(c) \/ Release(c) \/ EndWorker(c)
      PROVE  UNCHANGED <<executed, durable, late>>
  BY <1>4 DEF StartRequest, StartPayload, OpenFails, ActionReturns, PreFilterRefuses, Throw,
     TransactionsEnded, WriteResponse, Release, EndWorker, ReleaseDatabases, dbVars, unitVars
<1>5. ASSUME NEW c \in Contexts, NEW id \in DatabaseIds, AskDatabase(c, id)
      PROVE  UNCHANGED <<executed, durable, late>>
  BY <1>5 DEF AskDatabase, dbVars, unitVars
<1>6. Crash => UNCHANGED <<executed, durable, late>>
  BY DEF Crash, dbVars, unitVars
<1>7. CASE UNCHANGED <<executed, durable, late>>
  BY <1>0, <1>7 DEF StoredSessionIsDurable
<1> QED BY <1>1, <1>2, <1>3, <1>4, <1>5, <1>6, <1>7 DEF Next, Step, Statement, vars

-----------------------------------------------------------------------------
(* The theorems.                                                            *)

StatementInv ==
    /\ DbInv /\ UnitInv /\ BegunAtWork /\ FlagInv /\ TransInv
    /\ AnsweredIsDurable /\ StoredSessionIsDurable

\* Before the first request nothing is held, run or answered.
LEMMA InitStatements == Init => StatementInv
<1> SUFFICES ASSUME Init PROVE StatementInv
  OBVIOUS
<1>1. DbInv /\ UnitInv /\ BegunAtWork
  BY InitInv
<1>2. Books /\ PendingOwn /\ TaintKnown /\ BegunInTx /\ Fresh
  BY DEF Init, Books, PendingOwn, TaintKnown, BegunInTx, Fresh
<1>3. Flag /\ Early
  BY DEF Init, Flag, Early
<1>4. Course /\ AnsweredPast /\ StoreEnded
  BY DEF Init, Course, AnsweredPast, StoreEnded
<1>5. Collected /\ Kept /\ Undone
  BY DEF Init, Collected, Kept, Undone
<1>6. Together /\ AnsweredIsDurable /\ StoredSessionIsDurable
  BY DEF Init, Together, AppStatements, AnsweredIsDurable, StoredSessionIsDurable
<1> QED BY <1>1, <1>2, <1>3, <1>4, <1>5, <1>6 DEF StatementInv, FlagInv, TransInv

\* Every step of every context keeps the account of the statements.
LEMMA NextStatements ==
    ASSUME StatementInv, [Next]_vars
    PROVE  StatementInv'
<1> USE DEF StatementInv, FlagInv, TransInv
<1>1. DbInv' /\ UnitInv' /\ BegunAtWork'
  BY NextDbInv, NextUnitInv, NextBegunAtWork
<1>2. Books' /\ PendingOwn' /\ TaintKnown' /\ Flag'
  BY NextBooks, NextPendingOwn, NextTaintKnown, NextFlag
<1>3. BegunInTx' /\ Fresh' /\ Early'
  BY NextBegunInTx, NextFresh, NextEarly
<1>4. Course' /\ AnsweredPast' /\ StoreEnded'
  BY NextCourse, NextAnsweredPast, NextStoreEnded
<1>5. Collected' /\ Kept' /\ Undone'
  BY NextCollected, NextKept, NextUndone
<1>6. Together' /\ AnsweredIsDurable' /\ StoredSessionIsDurable'
  BY NextTogether, NextAnswered, NextStored
<1> QED BY <1>1, <1>2, <1>3, <1>4, <1>5, <1>6

\* The inductive invariant.
LEMMA StatementInvariant == Spec => []StatementInv
<1>1. StatementInv /\ [Next]_vars => StatementInv'
  BY NextStatements
<1> QED BY <1>1, InitStatements, PTL DEF Spec

\* An action that throws or calls rollbackTransaction() leaves nothing in a
\* database with transactions, in a context that has served controllers with
\* transactions only, unless a failed begin, commit or rollback touched the request
\* there; what failed for others is no exception.
THEOREM RollbacksUndo == Spec => []RollbackUndoes
<1>1. ASSUME StatementInv, NEW c \in Contexts, NEW u \in Units, NEW id \in DatabaseIds,
             Regular(c, u, id), outcome[c][u] \in {"rollback", "exception"},
             NEW w \in AppStatements(c, u, id) \cap durable
      PROVE  FALSE
  <2>1. w \in durable /\ w[1] = c /\ w[2] = u /\ w[3] = id /\ w[4] \in AppWrites
    BY <1>1 DEF AppStatements
  <2> QED BY <1>1, <2>1 DEF StatementInv, TransInv, Undone
<1>2. StatementInv => RollbackUndoes
  BY <1>1 DEF RollbackUndoes
<1> QED BY <1>2, StatementInvariant, PTL

\* At every moment, a crash included, either all that such an action did on a
\* database is durable, and the action has returned, or nothing of it.
THEOREM ActionsAreAtomic == Spec => []AtomicPerDatabase
<1>1. ASSUME StatementInv, NEW c \in HttpContexts, NEW u \in Units, NEW id \in DatabaseIds,
             Regular(c, u, id), NEW w \in AppStatements(c, u, id) \cap durable
      PROVE  AppStatements(c, u, id) \subseteq durable /\ outcome[c][u] # "none"
  <2>1. w \in durable /\ w[1] = c /\ w[2] = u /\ w[3] = id /\ w[4] \in AppWrites
    BY <1>1 DEF AppStatements
  <2> QED BY <1>1, <2>1 DEF StatementInv, TransInv, Undone, Together
<1>2. StatementInv => AtomicPerDatabase
  BY <1>1 DEF AtomicPerDatabase
<1> QED BY <1>2, StatementInvariant, PTL

\* A response that reports a committed action is written after all that the
\* action did has become durable, whatever the policies of the controllers, on
\* every database where the request was not disturbed.
THEOREM AnsweredAreDurable == Spec => []AnsweredIsDurable
<1>1. StatementInv => AnsweredIsDurable
  BY DEF StatementInv
<1> QED BY <1>1, StatementInvariant, PTL

\* A session stored on a connection the request had before is durable, although
\* release() rolls back afterwards, unless the connection is one that a failed
\* commit or rollback left in a transaction.
THEOREM StoredSessionsAreDurable ==
    Spec => []StoredSessionIsDurable
<1>1. StatementInv => StoredSessionIsDurable
  BY DEF StatementInv
<1> QED BY <1>1, StatementInvariant, PTL

=============================================================================
