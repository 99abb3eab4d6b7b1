----------------------- MODULE RequestContext_proofs -----------------------
(***************************************************************************)
(* Transactions and pooled connections, for any number of contexts,         *)
(* databases, connections and requests, whatever begin, commit and rollback *)
(* come to.                                                                 *)
(*                                                                          *)
(* That a pooled connection is clean follows from knowing, of every open    *)
(* transaction, which context has it on record, or that a failed commit()   *)
(* or rollback() left it (TxOnRecord): release() rolls back exactly the     *)
(* recorded ones, and what it fails to roll back is left open too.          *)
(***************************************************************************)
EXTENDS RequestContext, TLAPS

(* Connections are held under the id of their database.                     *)
Filed ==
    \A c \in Contexts, id \in DatabaseIds :
        held[c][id] # NoConnection => IdOf(held[c][id]) = id

Exclusive ==
    /\ \A c, d \in Contexts, n \in Connections :
          held[c][IdOf(n)] = n /\ held[d][IdOf(n)] = n => c = d
    /\ \A c \in Contexts, n \in Connections : held[c][IdOf(n)] = n => n \notin free

BegunIsHeld ==
    \A c \in Contexts, id \in DatabaseIds :
        id \in begun[c] => held[c][id] # NoConnection

TxOnRecord ==
    /\ \A n \in inTx \ tainted :
          \E c \in Contexts : held[c][IdOf(n)] = n /\ IdOf(n) \in begun[c]
    /\ \A n \in Connections : pending[n] # {} => n \in inTx

DbTyped ==
    /\ free \in SUBSET Connections
    /\ held \in [Contexts -> [DatabaseIds -> Connections \cup {NoConnection}]]
    /\ wants \in [Contexts -> DatabaseIds \cup {NoConnection}]
    /\ begun \in [Contexts -> SUBSET DatabaseIds]
    /\ inTx \in SUBSET Connections
    /\ pending \in [Connections -> SUBSET Writes]
    /\ durable \in SUBSET Writes
    /\ executed \in SUBSET Writes
    /\ tainted \in SUBSET inTx
    /\ disturbed \in SUBSET (Contexts \X Units \X DatabaseIds)

DbInv == DbTyped /\ Filed /\ Exclusive /\ BegunIsHeld /\ TxOnRecord

(* The control state; a context in the middle of execute() has a request.   *)
UnitInv ==
    /\ enabled \in [Contexts -> BOOLEAN]
    /\ phase \in [Contexts -> Phases]
    /\ unit \in [Contexts -> 0 .. MaxUnits]
    /\ policy \in [Contexts -> [Units -> BOOLEAN]]
    /\ session \in [Contexts -> BOOLEAN]
    /\ outcome \in [Contexts -> [Units -> Outcomes]]
    /\ answered \in SUBSET (Contexts \X Units)
    /\ \A c \in Contexts : phase[c] \notin {"idle", "ended"} => unit[c] \in Units

(* Nothing is on record before the first request.                           *)
BegunAtWork == \A c \in Contexts : unit[c] = 0 => begun[c] = {}

\* A connection has one database, and NoConnection is none.
LEMMA ConnectionFacts ==
    /\ NoConnection \notin Connections
    /\ \A n \in Connections : IdOf(n) \in DatabaseIds
  BY ContextAssumptions DEF Connections, IdOf

\* The invariant says what the runs check.
LEMMA DbInvImplies == DbInv => PooledAreClean /\ HeldExclusively
<1> SUFFICES ASSUME DbInv PROVE PooledAreClean /\ HeldExclusively
  OBVIOUS
<1> USE ConnectionFacts DEF DbInv
<1>1. PooledAreClean
  BY DEF PooledAreClean, TxOnRecord, Exclusive, DbTyped
<1>2. HeldExclusively
  BY DEF HeldExclusively, Exclusive, Filed, DbTyped
<1> QED BY <1>1, <1>2

\* The server starts with every connection free.
LEMMA InitInv == Init => DbInv /\ UnitInv /\ BegunAtWork
<1> SUFFICES ASSUME Init PROVE DbInv /\ UnitInv /\ BegunAtWork
  OBVIOUS
<1> USE ContextAssumptions, ConnectionFacts
<1>1. DbTyped
  BY DEF Init, DbTyped
<1>2. Filed /\ Exclusive /\ BegunIsHeld /\ TxOnRecord
  BY DEF Init, Filed, Exclusive, BegunIsHeld, TxOnRecord
<1>3. UnitInv
  BY DEF Init, UnitInv, Phases, Outcomes
<1>4. BegunAtWork
  BY DEF Init, BegunAtWork
<1> QED BY <1>1, <1>2, <1>3, <1>4 DEF DbInv

-----------------------------------------------------------------------------
(* The operations on the database keep DbInv.                               *)

\* Steps of the control state only.
LEMMA SameDb == ASSUME DbInv, UNCHANGED <<dbVars, executed>> PROVE DbInv'
  BY DEF DbInv, DbTyped, Filed, Exclusive, BegunIsHeld, TxOnRecord, dbVars

\* A statement is recorded as pending on a connection in a transaction only.
LEMMA ExecuteDb ==
    ASSUME DbInv, NEW c \in Contexts, NEW id \in DatabaseIds, unit[c] \in Units,
           NEW what \in AppWrites \cup {"remove", "session", "gc"},
           Execute(c, id, what)
    PROVE  DbInv'
<1> DEFINE w == <<c, unit[c], id, what>>
<1>1. w \in Writes
  BY DEF Writes
<1>2. held[c][id] \in Connections
  BY DEF Execute, DbInv, DbTyped
<1>3. DbTyped'
  <2>1. /\ executed' = executed \cup {w}
        /\ \/ pending' = [pending EXCEPT ![held[c][id]] = @ \cup {w}] /\ durable' = durable
           \/ durable' = durable \cup {w} /\ pending' = pending
        /\ UNCHANGED <<free, held, wants, begun, inTx, tainted, disturbed>>
    BY DEF Execute
  <2> HIDE DEF w
  <2> QED BY <1>1, <1>2, <2>1 DEF DbInv, DbTyped
<1>4. (Filed /\ Exclusive /\ BegunIsHeld)'
  BY DEF Execute, DbInv, Filed, Exclusive, BegunIsHeld
<1>5. TxOnRecord'
  BY <1>2 DEF Execute, DbInv, DbTyped, TxOnRecord
<1> QED BY <1>3, <1>4, <1>5 DEF DbInv

\* A transaction is begun and recorded together.
LEMMA GetSqlDatabaseDb ==
    ASSUME DbInv, NEW c \in Contexts, NEW id \in DatabaseIds, unit[c] \in Units,
           GetSqlDatabase(c, id)
    PROVE  DbInv'
<1> USE ConnectionFacts DEF DbInv
<1>0. PICK n \in free :
        /\ IdOf(n) = id
        /\ free' = free \ {n}
        /\ held' = [held EXCEPT ![c] = [@ EXCEPT ![id] = n]]
        /\ \/ /\ inTx' = IF Begins(c, id) THEN inTx \cup {n} ELSE inTx
              /\ Disturbs(c, IF n \in tainted THEN {id} ELSE {})
           \/ /\ MayFail("begin") /\ Begins(c, id)
              /\ UNCHANGED inTx
              /\ Disturbs(c, {id})
  BY Zenon DEF GetSqlDatabase
<1>1. /\ n \in free /\ IdOf(n) = id /\ free' = free \ {n}
      /\ held' = [held EXCEPT ![c] = [@ EXCEPT ![id] = n]]
  BY <1>0
<1>c. inTx' = inTx \/ (Begins(c, id) /\ inTx' = inTx \cup {n})
  BY <1>0, Zenon
<1>2. n \in Connections /\ held[c][id] = NoConnection
  BY <1>1 DEF GetSqlDatabase, DbTyped
<1>3. \A d \in Contexts, j \in DatabaseIds :
        held'[d][j] = IF d = c /\ j = id THEN n ELSE held[d][j]
  BY <1>1 DEF DbTyped
<1>4. \A d \in Contexts : begun[d] \subseteq begun'[d]
  BY DEF GetSqlDatabase, DbTyped
<1>a. /\ wants' = [wants EXCEPT ![c] = NoConnection]
      /\ begun' = begun \/ begun' = [begun EXCEPT ![c] = @ \cup {id}]
      /\ UNCHANGED <<pending, durable, executed, tainted>>
  BY DEF GetSqlDatabase
<1>b. disturbed' \in SUBSET (Contexts \X Units \X DatabaseIds)
  BY <1>0 DEF DbTyped, Disturbs
<1>5. DbTyped'
  BY <1>1, <1>2, <1>a, <1>b, <1>c DEF DbTyped
<1>6. Filed'
  BY <1>1, <1>2, <1>3 DEF Filed
<1>7. Exclusive'
  BY <1>1, <1>2, <1>3 DEF Exclusive, DbTyped
<1>8. BegunIsHeld'
  BY <1>1, <1>2, <1>3 DEF GetSqlDatabase, BegunIsHeld, DbTyped
<1>9. TxOnRecord'
  <2>1. \A k \in inTx \ tainted :
          \E d \in Contexts : held'[d][IdOf(k)] = k /\ IdOf(k) \in begun'[d]
    BY <1>1, <1>2, <1>3, <1>4 DEF TxOnRecord, DbTyped
  <2>2. Begins(c, id) => held'[c][IdOf(n)] = n /\ IdOf(n) \in begun'[c]
    BY <1>1, <1>2, <1>3 DEF GetSqlDatabase, DbTyped
  <2>3. inTx \subseteq inTx' /\ pending' = pending /\ tainted' = tainted
    BY <1>c, <1>a
  <2> QED BY <1>c, <2>1, <2>2, <2>3 DEF TxOnRecord
<1> QED BY <1>5, <1>6, <1>7, <1>8, <1>9

\* Ending the transaction of a database ends its record and empties it, or
\* leaves it open without a record.
LEMMA EndDb ==
    ASSUME DbInv, NEW c \in Contexts, NEW id \in begun[c], unit[c] \in Units,
           UNCHANGED <<free, held, wants, executed>>,
           begun' = [begun EXCEPT ![c] = @ \ {id}],
           Leaves(held[c][id]) \/ Remains(c, id),
           durable' \in SUBSET Writes
    PROVE  DbInv'
<1> USE ConnectionFacts DEF DbInv
<1>1. id \in DatabaseIds /\ held[c][id] \in Connections /\ IdOf(held[c][id]) = id
  BY DEF DbTyped, BegunIsHeld, Filed
<1>a. PICK n : n = held[c][id]
  OBVIOUS
<1>b. \/ /\ pending' = [pending EXCEPT ![n] = {}] /\ inTx' = inTx \ {n}
         /\ tainted' = tainted \ {n} /\ disturbed' = disturbed
      \/ /\ UNCHANGED <<pending, inTx>> /\ tainted' = tainted \cup ({n} \cap inTx)
         /\ disturbed' = disturbed \cup {<<c, unit[c], id>>}
  BY <1>a DEF Leaves, Remains, Disturbs
<1>2. DbTyped'
  <2>1. disturbed' \in SUBSET (Contexts \X Units \X DatabaseIds)
    BY <1>1, <1>b DEF DbTyped
  <2>2. /\ inTx' \in SUBSET Connections /\ tainted' \in SUBSET inTx'
        /\ pending' \in [Connections -> SUBSET Writes]
    BY <1>1, <1>a, <1>b DEF DbTyped
  <2>3. begun' \in [Contexts -> SUBSET DatabaseIds]
    BY DEF DbTyped
  <2> QED BY <2>1, <2>2, <2>3 DEF DbTyped
<1>3. (Filed /\ Exclusive)'
  BY DEF Filed, Exclusive
<1>4. BegunIsHeld'
  BY DEF BegunIsHeld, DbTyped
<1>5. TxOnRecord'
  <2>1. \A k \in inTx' \ tainted' : k \in inTx \ tainted /\ k # held[c][id]
    BY <1>a, <1>b
  <2>2. \A k \in inTx' \ tainted', d \in Contexts :
          held[d][IdOf(k)] = k /\ IdOf(k) \in begun[d]
            => held'[d][IdOf(k)] = k /\ IdOf(k) \in begun'[d]
    BY <1>1, <2>1 DEF DbTyped
  <2>3. \A k \in Connections : pending'[k] # {} => k \in inTx'
    BY <1>1, <1>a, <1>b DEF TxOnRecord, DbTyped
  <2> QED BY <2>1, <2>2, <2>3 DEF TxOnRecord
<1> QED BY <1>2, <1>3, <1>4, <1>5

\* release() leaves no transaction of the context behind but those whose rollback
\* fails, and they are counted as left open.
LEMMA ReleaseDb ==
    ASSUME DbInv, NEW c \in Contexts, ReleaseDatabases(c), UNCHANGED executed,
           unit[c] \in 0 .. MaxUnits, unit[c] = 0 => begun[c] = {}
    PROVE  DbInv'
<1> USE ConnectionFacts DEF DbInv
<1> DEFINE mine == {held[c][id] : id \in DatabaseIds} \ {NoConnection}
<1>a. PICK failed \in SUBSET begun[c] :
        /\ inTx' = inTx \ {held[c][id] : id \in begun[c] \ failed}
        /\ pending' = [n \in Connections |->
              IF n \in {held[c][id] : id \in begun[c] \ failed} THEN {} ELSE pending[n]]
        /\ tainted' = (tainted \ {held[c][id] : id \in begun[c] \ failed})
                         \cup ({held[c][id] : id \in failed} \cap inTx)
        /\ disturbed' = disturbed \cup {<<c, unit[c], id>> : id \in failed}
  BY DEF ReleaseDatabases, Disturbs
<1> DEFINE over == {held[c][id] : id \in begun[c] \ failed}
           left == {held[c][id] : id \in failed} \cap inTx
<1>1. mine \subseteq Connections
  BY DEF DbTyped
<1>2. \A n \in Connections :
        /\ n \in mine <=> held[c][IdOf(n)] = n
        /\ n \in over <=> held[c][IdOf(n)] = n /\ IdOf(n) \in begun[c] \ failed
        /\ n \in left <=> held[c][IdOf(n)] = n /\ IdOf(n) \in failed /\ n \in inTx
  BY DEF DbTyped, Filed
<1>3. /\ inTx' = inTx \ over
      /\ pending' = [n \in Connections |-> IF n \in over THEN {} ELSE pending[n]]
      /\ tainted' = (tainted \ over) \cup left
      /\ free' = free \cup mine
      /\ held' = [held EXCEPT ![c] = [id \in DatabaseIds |-> NoConnection]]
      /\ begun' = [begun EXCEPT ![c] = {}]
      /\ UNCHANGED <<wants, durable, executed>>
  BY <1>a DEF ReleaseDatabases
<1>b. disturbed' \in SUBSET (Contexts \X Units \X DatabaseIds)
  <2>1. \A id \in failed : id \in DatabaseIds /\ unit[c] \in Units
    BY ContextAssumptions DEF DbTyped, Units
  <2> QED BY <1>a, <2>1 DEF DbTyped
<1> HIDE DEF mine, over, left
<1>4. DbTyped'
  <2>1. \A n \in left : n \in inTx /\ n \notin over
    <3>1. \A n \in left : n \in inTx
      BY DEF left
    <3> QED BY <1>2, <3>1 DEF DbTyped
  <2>2. tainted' \in SUBSET inTx'
    BY <1>3, <2>1 DEF DbTyped
  <2>3. pending' \in [Connections -> SUBSET Writes]
    BY <1>3 DEF DbTyped
  <2> QED BY <1>1, <1>3, <1>b, <2>2, <2>3 DEF DbTyped
<1>5. Filed'
  BY <1>3 DEF Filed, DbTyped
<1>6. Exclusive'
  BY <1>2, <1>3 DEF Exclusive, DbTyped
<1>7. BegunIsHeld'
  BY <1>3 DEF BegunIsHeld, DbTyped
<1>8. TxOnRecord'
  <2>1. \A n \in inTx' \ tainted' :
          \E d \in Contexts : d # c /\ held[d][IdOf(n)] = n /\ IdOf(n) \in begun[d]
    BY <1>2, <1>3 DEF TxOnRecord, DbTyped
  <2>2. \A n \in Connections : pending'[n] # {} => n \in inTx'
    BY <1>3 DEF TxOnRecord, DbTyped
  <2> QED BY <1>3, <2>1, <2>2 DEF TxOnRecord, DbTyped
<1> QED BY <1>4, <1>5, <1>6, <1>7, <1>8

-----------------------------------------------------------------------------
(* Every step keeps the invariant.                                          *)

\* The control state stays well formed.
LEMMA NextUnitInv == UnitInv /\ [Next]_vars => UnitInv'
<1> SUFFICES ASSUME UnitInv, [Next]_vars PROVE UnitInv'
  OBVIOUS
<1> USE ContextAssumptions DEF UnitInv
<1>1. ASSUME NEW c \in Contexts, StartRequest(c) PROVE UnitInv'
  BY <1>1 DEF StartRequest, MayBegin, Phases, Units
<1>2. ASSUME NEW c \in Contexts, StartPayload(c) PROVE UnitInv'
  BY <1>2 DEF StartPayload, MayBegin, Phases, Units
<1>3. ASSUME NEW c \in Contexts, NEW id \in DatabaseIds,
             GetSqlDatabase(c, id) \/ AskDatabase(c, id) \/ OpenFails(c)
      PROVE UnitInv'
  BY <1>3 DEF GetSqlDatabase, AskDatabase, OpenFails, unitVars
<1>4. ASSUME NEW c \in Contexts, FindSession(c) PROVE UnitInv'
  <2>0. phase[c] = "session"
    BY <1>4 DEF FindSession
  <2>1. unit[c] \in Units /\ policy[c][unit[c]] \in BOOLEAN
    BY <2>0
  <2>2. enabled' \in [Contexts -> BOOLEAN]
    BY <1>4, <2>1 DEF FindSession
  <2>3. phase' = [phase EXCEPT ![c] = "action"] /\ UNCHANGED unitVars
    BY <1>4 DEF FindSession
  <2> QED BY <2>1, <2>2, <2>3 DEF unitVars, Phases
<1>5. ASSUME NEW c \in Contexts, NEW id \in DatabaseIds, NEW what \in AppWrites,
             RunStatement(c, id, what)
      PROVE UnitInv'
  BY <1>5 DEF RunStatement, unitVars
<1>6. ASSUME NEW c \in Contexts, ActionReturns(c) PROVE UnitInv'
  <2>1. PICK how \in {"commit", "rollback"} :
          outcome' = [outcome EXCEPT ![c] = [@ EXCEPT ![unit[c]] = how]]
    BY <1>6 DEF ActionReturns
  <2>2. unit[c] \in Units
    BY <1>6 DEF ActionReturns, InAction
  <2>3. outcome' \in [Contexts -> [Units -> Outcomes]]
    BY <2>1, <2>2 DEF Outcomes
  <2>4. /\ phase' = [phase EXCEPT ![c] = "finish"]
        /\ UNCHANGED <<enabled, unit, policy, session, answered>>
    BY <1>6 DEF ActionReturns
  <2> QED BY <2>2, <2>3, <2>4 DEF Phases
<1>7. ASSUME NEW c \in Contexts, PreFilterRefuses(c) PROVE UnitInv'
  BY <1>7 DEF PreFilterRefuses, InAction, Phases, Outcomes, Units
<1>8. ASSUME NEW c \in Contexts, Throw(c) PROVE UnitInv'
  BY <1>8 DEF Throw, InAction, Phases, Outcomes, Units
<1>9. ASSUME NEW c \in Contexts, EndTransaction(c) PROVE UnitInv'
  <2>1. unit[c] \in Units /\ UNCHANGED <<enabled, phase, unit, policy, session, answered>>
    BY <1>9 DEF EndTransaction
  <2>2. \/ outcome' = outcome
        \/ outcome' = [outcome EXCEPT ![c] = [@ EXCEPT ![unit[c]] = "failed"]]
    BY <1>9 DEF EndTransaction, Commit, CommitFailed, Rollback
  <2>3. outcome' \in [Contexts -> [Units -> Outcomes]]
    <3>1. CASE outcome' = outcome
      BY <3>1
    <3>2. CASE outcome' = [outcome EXCEPT ![c] = [@ EXCEPT ![unit[c]] = "failed"]]
      BY <2>1, <3>2 DEF Outcomes
    <3> QED BY <2>2, <3>1, <3>2
  <2> QED BY <2>1, <2>3
<1>10. ASSUME NEW c \in Contexts, TransactionsEnded(c) PROVE UnitInv'
  BY <1>10 DEF TransactionsEnded, unitVars, Phases, Units, Contexts
<1>11. ASSUME NEW c \in Contexts, StoreSession(c) PROVE UnitInv'
  BY <1>11 DEF StoreSession, unitVars, Phases, Units
<1>12. ASSUME NEW c \in Contexts, WriteResponse(c) PROVE UnitInv'
  <2>1. <<c, unit[c]>> \in Contexts \X Units
    BY <1>12 DEF WriteResponse
  <2>2. answered' \in SUBSET (Contexts \X Units)
    BY <1>12, <2>1 DEF WriteResponse
  <2>3. /\ unit[c] \in Units /\ phase' = [phase EXCEPT ![c] = "gc"]
        /\ UNCHANGED <<enabled, unit, policy, session, outcome>>
    BY <1>12 DEF WriteResponse
  <2> QED BY <2>2, <2>3 DEF Phases
<1>13. ASSUME NEW c \in Contexts, CollectGarbage(c) PROVE UnitInv'
  BY <1>13 DEF CollectGarbage, unitVars, Phases, Units
<1>14. ASSUME NEW c \in Contexts, Release(c) \/ EndWorker(c) PROVE UnitInv'
  BY <1>14 DEF Release, EndWorker, unitVars, Phases, Units
<1>15. CASE Crash
  BY <1>15 DEF Crash, unitVars, Phases
<1>16. CASE UNCHANGED vars
  BY <1>16 DEF vars
<1> QED
  BY <1>1, <1>2, <1>3, <1>4, <1>5, <1>6, <1>7, <1>8, <1>9, <1>10, <1>11,
     <1>12, <1>13, <1>14, <1>15, <1>16 DEF Next, Step

\* Every step keeps every open transaction on record.
LEMMA NextDbInv ==
    DbInv /\ UnitInv /\ BegunAtWork /\ [Next]_vars => DbInv'
<1> SUFFICES ASSUME DbInv, UnitInv, BegunAtWork, [Next]_vars
             PROVE  DbInv'
  OBVIOUS
<1> USE ContextAssumptions
<1>1. ASSUME NEW c \in Contexts, StartRequest(c) \/ StartPayload(c) PROVE DbInv'
  BY <1>1, SameDb DEF StartRequest, StartPayload
<1>2. ASSUME NEW c \in Contexts, NEW id \in DatabaseIds, GetSqlDatabase(c, id)
      PROVE DbInv'
  <2>1. phase[c] \notin {"idle", "ended"}
    BY <1>2 DEF GetSqlDatabase, Touches
  <2>2. unit[c] \in Units
    BY <2>1 DEF UnitInv
  <2> QED BY <1>2, <2>2, GetSqlDatabaseDb
<1>3. ASSUME NEW c \in Contexts, NEW id \in DatabaseIds, AskDatabase(c, id) \/ OpenFails(c)
      PROVE DbInv'
  BY <1>3 DEF AskDatabase, OpenFails, DbInv, DbTyped, Filed, Exclusive,
              BegunIsHeld, TxOnRecord
<1>4. ASSUME NEW c \in Contexts, FindSession(c) PROVE DbInv'
  BY <1>4, SameDb, ExecuteDb DEF FindSession, UnitInv, ExecuteFails, SessionDb
<1>5. ASSUME NEW c \in Contexts, NEW id \in DatabaseIds, NEW what \in AppWrites,
             RunStatement(c, id, what)
      PROVE DbInv'
  BY <1>5, ExecuteDb DEF RunStatement, InAction, UnitInv
<1>6. ASSUME NEW c \in Contexts, ActionReturns(c) \/ PreFilterRefuses(c) \/ Throw(c)
      PROVE DbInv'
  BY <1>6, SameDb DEF ActionReturns, PreFilterRefuses, Throw
<1>7. ASSUME NEW c \in Contexts, EndTransaction(c) PROVE DbInv'
  <2>1. PICK id \in begun[c] :
          /\ Rollback(c, id) \/ Commit(c, id) \/ CommitFailed(c, id)
          /\ UNCHANGED <<free, held, wants, executed>> /\ phase[c] = "finish"
    BY <1>7 DEF EndTransaction
  <2>a. id \in DatabaseIds /\ id \in begun[c]
    BY <2>1 DEF DbInv, DbTyped
  <2>b. held[c][id] \in Connections \cup {NoConnection}
    BY <2>a DEF DbInv, DbTyped
  <2>c. held[c][id] # NoConnection
    BY <2>a DEF DbInv, BegunIsHeld
  <2>2. held[c][id] \in Connections
    BY <2>b, <2>c
  <2>3. durable' \in SUBSET Writes
    BY <2>1, <2>2 DEF Rollback, Commit, CommitFailed, DbInv, DbTyped
  <2>4. /\ begun' = [begun EXCEPT ![c] = @ \ {id}]
        /\ Leaves(held[c][id]) \/ Remains(c, id)
    BY <2>1 DEF Rollback, Commit, CommitFailed
  <2>5. unit[c] \in Units
    BY <2>1 DEF UnitInv
  <2> QED BY <2>1, <2>3, <2>4, <2>5, EndDb
<1>8. ASSUME NEW c \in Contexts, TransactionsEnded(c) \/ WriteResponse(c)
      PROVE DbInv'
  BY <1>8, SameDb DEF TransactionsEnded, WriteResponse
<1>9. ASSUME NEW c \in Contexts, StoreSession(c) PROVE DbInv'
  BY <1>9, SameDb, ExecuteDb DEF StoreSession, UnitInv, ExecuteFails, SessionDb
<1>10. ASSUME NEW c \in Contexts, CollectGarbage(c) PROVE DbInv'
  BY <1>10, SameDb, ExecuteDb DEF CollectGarbage, UnitInv, ExecuteFails, SessionDb
<1>11. ASSUME NEW c \in Contexts, Release(c) \/ EndWorker(c) PROVE DbInv'
  BY <1>11, ReleaseDb DEF Release, EndWorker, UnitInv, BegunAtWork
<1>12. CASE Crash
  <2>1. DbTyped'
    BY <1>12 DEF Crash, DbInv, DbTyped
  <2>2. (Filed /\ Exclusive /\ BegunIsHeld /\ TxOnRecord)'
    BY <1>12, ConnectionFacts DEF Crash, Filed, Exclusive, BegunIsHeld, TxOnRecord
  <2> QED BY <2>1, <2>2 DEF DbInv
<1>13. CASE UNCHANGED vars
  BY <1>13, SameDb DEF vars, dbVars
<1> QED
  BY <1>1, <1>2, <1>3, <1>4, <1>5, <1>6, <1>7, <1>8, <1>9, <1>10, <1>11,
     <1>12, <1>13 DEF Next, Step

\* A context without a request has nothing on record.
LEMMA NextBegunAtWork ==
    DbInv /\ UnitInv /\ BegunAtWork /\ [Next]_vars => BegunAtWork'
<1> SUFFICES ASSUME DbInv, UnitInv, BegunAtWork, [Next]_vars PROVE BegunAtWork'
  OBVIOUS
<1> USE DEF BegunAtWork
<1>1. ASSUME NEW c \in Contexts, StartRequest(c) \/ StartPayload(c) PROVE BegunAtWork'
  <2>1. unit' = [unit EXCEPT ![c] = @ + 1] /\ begun' = begun
    BY <1>1 DEF StartRequest, StartPayload, dbVars
  <2> QED BY <2>1 DEF UnitInv
<1>2. ASSUME NEW c \in Contexts, NEW id \in DatabaseIds, GetSqlDatabase(c, id)
      PROVE BegunAtWork'
  <2>1. phase[c] \notin {"idle", "ended"} /\ unit' = unit
    BY <1>2 DEF GetSqlDatabase, Touches
  <2>2. unit[c] # 0
    BY <2>1 DEF UnitInv, Units
  <2>3. \A d \in Contexts : d # c => begun'[d] = begun[d]
    BY <1>2 DEF GetSqlDatabase, DbInv, DbTyped
  <2> QED BY <2>1, <2>2, <2>3
<1>3. ASSUME NEW c \in Contexts, EndTransaction(c) PROVE BegunAtWork'
  <2>1. UNCHANGED unit /\ \A d \in Contexts : begun'[d] \subseteq begun[d]
    BY <1>3 DEF EndTransaction, Commit, CommitFailed, Rollback, DbInv, DbTyped
  <2> QED BY <2>1
<1>4. ASSUME NEW c \in Contexts, Release(c) \/ EndWorker(c) PROVE BegunAtWork'
  <2>1. UNCHANGED unit /\ \A d \in Contexts : begun'[d] \subseteq begun[d]
    BY <1>4 DEF Release, EndWorker, ReleaseDatabases, unitVars, DbInv, DbTyped
  <2> QED BY <2>1
<1>5. CASE Crash
  BY <1>5 DEF Crash
<1>6. ASSUME NEW c \in Contexts, NEW id \in DatabaseIds,
             \/ OpenFails(c) \/ FindSession(c) \/ ActionReturns(c) \/ PreFilterRefuses(c)
             \/ Throw(c) \/ TransactionsEnded(c) \/ StoreSession(c) \/ WriteResponse(c)
             \/ CollectGarbage(c) \/ AskDatabase(c, id)
      PROVE  UNCHANGED <<begun, unit>>
  BY <1>6 DEF OpenFails, FindSession, ActionReturns, PreFilterRefuses, Throw,
     TransactionsEnded, StoreSession, WriteResponse, CollectGarbage, AskDatabase, Execute,
     ExecuteFails, dbVars, unitVars
<1>7. ASSUME NEW c \in Contexts, NEW id \in DatabaseIds, NEW what \in AppWrites,
             RunStatement(c, id, what)
      PROVE  UNCHANGED <<begun, unit>>
  BY <1>7 DEF RunStatement, Execute, unitVars
<1>8. CASE UNCHANGED <<begun, unit>>
  BY <1>8
<1> QED
  BY <1>1, <1>2, <1>3, <1>4, <1>5, <1>6, <1>7, <1>8, ContextAssumptions DEF Next, Step, vars

\* Connections are held by one context at a time, and clean when they are pooled
\* unless a failed commit() or rollback() left them in a transaction, whatever the
\* controllers' policies and however requests, payloads, failures and crashes mix.
THEOREM ConnectionsStayClean == Spec => [](PooledAreClean /\ HeldExclusively)
<1>1. DbInv /\ UnitInv /\ BegunAtWork /\ [Next]_vars => (DbInv /\ UnitInv /\ BegunAtWork)'
  BY NextDbInv, NextUnitInv, NextBegunAtWork
<1> QED BY <1>1, InitInv, DbInvImplies, PTL DEF Spec

=============================================================================
