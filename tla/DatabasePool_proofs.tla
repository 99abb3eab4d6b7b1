------------------------ MODULE DatabasePool_proofs ------------------------
(***************************************************************************)
(* The pool's safety properties for every number of contexts, databases and *)
(* connections.  PoolInv is the inductive invariant: NeverShared alone does *)
(* not say on which stack a name lies nor what a thread has in its hand at  *)
(* which point of the code, and both are needed to see where a push or a    *)
(* pop takes a name from.                                                   *)
(***************************************************************************)
EXTENDS DatabasePool, TLAPS, WellFoundedInduction

(* Names lie on the stacks, and in the slots, of their own database.        *)
Filed ==
    /\ \A id \in DatabaseIds : \A n \in InStack(cachedDatabase[id]) : IdOf(n) = id
    /\ \A id \in DatabaseIds : \A n \in InStack(availableNames[id]) : IdOf(n) = id
    /\ \A c \in Contexts, id \in DatabaseIds :
          held[c][id] # Nobody => IdOf(held[c][id]) = id

(* The places at which a thread has a name in its hand.                     *)
WithName == {"test", "pushBack", "open", "restore", "push"}

Hands ==
    /\ \A c \in Contexts :
          /\ call[c].at \in WithName <=> call[c].name # Nobody
          /\ call[c].name # Nobody => IdOf(call[c].name) = call[c].id
          /\ call[c].at \notin {"outside", "release"} => call[c].id \in DatabaseIds
          /\ InDatabaseCall(c) => held[c][call[c].id] = Nobody
    /\ timer.at \in {"close", "push"} <=> timer.name # Nobody
    /\ timer.name # Nobody => IdOf(timer.name) = timer.id
    /\ timer.at # "outside" => timer.id \in DatabaseIds

PoolInv == TypeOK /\ Filed /\ Hands /\ NeverShared

-----------------------------------------------------------------------------
(* Lemmas about the operators.                                              *)

\* A push keeps the stack's type, adds the pushed name, and makes no duplicate
\* of a name that was not on the stack.
LEMMA PushFacts ==
    ASSUME NEW S, NEW s \in Seq(S), NEW x \in S
    PROVE  /\ Push(s, x) \in Seq(S)
           /\ InStack(Push(s, x)) = InStack(s) \cup {x}
           /\ NoDuplicate(s) /\ x \notin InStack(s) => NoDuplicate(Push(s, x))
  BY DEF Push, InStack, NoDuplicate

\* A pop returns a name of the stack; if the stack has no duplicates the name
\* is gone from it, and all the others remain.
LEMMA PopFacts ==
    ASSUME NEW S, NEW s \in Seq(S), s # <<>>
    PROVE  /\ Top(s) \in S /\ Top(s) \in InStack(s)
           /\ Popped(s) \in Seq(S)
           /\ InStack(s) = InStack(Popped(s)) \cup {Top(s)}
           /\ NoDuplicate(s) => NoDuplicate(Popped(s)) /\ Top(s) \notin InStack(Popped(s))
  BY DEF Top, Popped, InStack, NoDuplicate

\* A connection name belongs to one database, and Nobody is no name.
LEMMA NameFacts ==
    /\ Nobody \notin Names
    /\ \A n \in Names : IdOf(n) \in DatabaseIds
  BY PoolAssumptions DEF Names, IdOf

\* A set of numbers that is not empty has a least element.
LEMMA LeastNumber ==
    ASSUME NEW T, T \subseteq Nat, T # {}
    PROVE  \E x \in T : \A y \in T : x <= y
<1> DEFINE R == OpToRel(<, Nat)
<1>1. IsWellFoundedOn(R, Nat)
  BY NatLessThanWellFounded
<1>2. PICK x \in T : \A y \in T : ~ (<<y, x>> \in R)
  <2> HIDE DEF R
  <2> QED BY <1>1, WFMin
<1>3. \A y \in T : <<y, x>> \in R <=> y < x
  BY DEF OpToRel
<1>4. \A y \in T : ~ (y < x)
  BY <1>2, <1>3
<1> HIDE DEF R
<1> QED BY <1>4

\* The first database id that timerEvent() visits exists.
LEMMA FirstIdExists == FirstId \in DatabaseIds
<1>1. \E id \in DatabaseIds : \A j \in DatabaseIds : id <= j
  BY PoolAssumptions, LeastNumber
<1> QED BY <1>1 DEF FirstId

\* After one id the timer event goes on to an existing one, or ends.
LEMMA NextTimerFacts ==
    ASSUME NEW id \in DatabaseIds
    PROVE  \/ NextTimer(id) = Outside
           \/ \E j \in DatabaseIds : NextTimer(id) = At("load", j, Nobody)
<1>1. CASE LaterIds(id) = {}
  BY <1>1 DEF NextTimer
<1>2. CASE LaterIds(id) # {}
  <2> DEFINE j == CHOOSE j \in LaterIds(id) : \A k \in LaterIds(id) : j <= k
  <2>1. LaterIds(id) \subseteq Nat /\ LaterIds(id) \subseteq DatabaseIds
    BY PoolAssumptions DEF LaterIds
  <2>2. \E i \in LaterIds(id) : \A k \in LaterIds(id) : i <= k
    BY <1>2, <2>1, LeastNumber
  <2>3. j \in LaterIds(id)
    BY <2>2
  <2>4. NextTimer(id) = At("load", j, Nobody)
    BY <1>2 DEF NextTimer
  <2> HIDE DEF j
  <2> QED BY <2>1, <2>3, <2>4
<1> QED BY <1>1, <1>2

-----------------------------------------------------------------------------
(* The invariant.                                                           *)

\* The pool as init() leaves it satisfies the invariant.
LEMMA InitPoolInv == Init => PoolInv
<1> SUFFICES ASSUME Init PROVE PoolInv
  OBVIOUS
<1> USE PoolAssumptions, NameFacts
<1>1. \A id \in DatabaseIds :
        /\ availableNames[id] \in Seq(Names)
        /\ \A n \in InStack(availableNames[id]) : IdOf(n) = id
        /\ NoDuplicate(availableNames[id])
  <2> TAKE id \in DatabaseIds
  <2>1. availableNames[id] = [i \in 1 .. MaxConnects |-> <<id, i>>]
    BY DEF Init
  <2>2. availableNames[id] \in Seq(Names) /\ Len(availableNames[id]) = MaxConnects
    BY <2>1 DEF Names
  <2> QED BY <2>1, <2>2 DEF InStack, IdOf, NoDuplicate
<1>2. \A id \in DatabaseIds : /\ cachedDatabase[id] = <<>>
                             /\ InStack(cachedDatabase[id]) = {}
                             /\ NoDuplicate(cachedDatabase[id])
  BY DEF Init, InStack, NoDuplicate
<1>3. TypeOK
  <2>1. availableNames \in [DatabaseIds -> Seq(Names)]
    BY <1>1 DEF Init
  <2>2. cachedDatabase \in [DatabaseIds -> Seq(Names)]
    BY DEF Init
  <2>3. recent \in [DatabaseIds -> BOOLEAN] /\ closed \in BOOLEAN
    BY DEF Init
  <2>4. held \in [Contexts -> [DatabaseIds -> Names \cup {Nobody}]]
    BY DEF Init
  <2>5. Outside \in [at : {"outside"}, id : Nat, name : Names \cup {Nobody}]
    BY DEF Outside
  <2> QED
    BY <2>1, <2>2, <2>3, <2>4, <2>5 DEF Init, TypeOK, ContextPlaces, TimerPlaces
<1>4. Filed
  BY <1>1, <1>2 DEF Init, Filed
<1>5. Hands
  BY DEF Init, Hands, Outside, WithName, InDatabaseCall
<1>6. NeverShared
  BY <1>1, <1>2 DEF Init, NeverShared, Cached, Available, Carries, Outside
<1> QED BY <1>3, <1>4, <1>5, <1>6 DEF PoolInv
\* Every step of a context, of the timer and of the environment keeps it.
LEMMA NextPoolInv == PoolInv /\ [Next]_vars => PoolInv'
<1> SUFFICES ASSUME PoolInv, [Next]_vars PROVE PoolInv'
  OBVIOUS
<1> USE PoolAssumptions, NameFacts DEF PoolInv
<1>1. ASSUME NEW c \in Contexts, NEW id \in DatabaseIds, GetDatabase(c, id) PROVE PoolInv'
  <2>1. TypeOK'
    BY <1>1 DEF GetDatabase, TypeOK, Hands, At, Outside, WithName, ContextPlaces, TimerPlaces
  <2>2. Filed'
    BY <1>1 DEF GetDatabase, Filed
  <2>3. Hands'
    BY <1>1 DEF GetDatabase, TypeOK, Hands, InDatabaseCall, At, Outside, WithName
  <2>4. NeverShared'
    BY <1>1 DEF GetDatabase, TypeOK, NeverShared, Hands, Cached, Available, Carries, At, Outside, WithName
  <2> QED BY <2>1, <2>2, <2>3, <2>4
<1>2. ASSUME NEW c \in Contexts, PopCache(c) PROVE PoolInv'
  <2>0. /\ Top(cachedDatabase[call[c].id]) \in Names /\ Top(cachedDatabase[call[c].id]) \in InStack(cachedDatabase[call[c].id])
        /\ Popped(cachedDatabase[call[c].id]) \in Seq(Names)
        /\ InStack(cachedDatabase[call[c].id]) = InStack(Popped(cachedDatabase[call[c].id])) \cup {Top(cachedDatabase[call[c].id])}
        /\ NoDuplicate(Popped(cachedDatabase[call[c].id]))
        /\ Top(cachedDatabase[call[c].id]) \notin InStack(Popped(cachedDatabase[call[c].id]))
    <3>1. cachedDatabase[call[c].id] \in Seq(Names) /\ cachedDatabase[call[c].id] # <<>> /\ NoDuplicate(cachedDatabase[call[c].id])
      BY <1>2 DEF PopCache, TypeOK, Hands, NeverShared
    <3> QED BY <3>1, PopFacts
  <2>1. TypeOK'
    BY <1>2, <2>0 DEF PopCache, TypeOK, At, Outside, ContextPlaces, TimerPlaces, Hands
  <2>2. Filed'
    BY <1>2, <2>0 DEF PopCache, TypeOK, Filed, Hands, At, Outside, WithName
  <2>3. Hands'
    BY <1>2, <2>0 DEF PopCache, TypeOK, Hands, Filed, InDatabaseCall, At, Outside, WithName
  <2>4. NeverShared'
    <3> DEFINE t == Top(cachedDatabase[call[c].id])
    <3>1. /\ IdOf(t) = call[c].id /\ Cached(t)
          /\ \A n \in Names : Cached(n)' <=> Cached(n) /\ n # t
      <4>1. call[c].id \in DatabaseIds
        BY <1>2 DEF PopCache, Hands
      <4>2. IdOf(t) = call[c].id /\ Cached(t)
        BY <2>0, <4>1 DEF Filed, Cached
      <4>3. cachedDatabase' = [cachedDatabase EXCEPT ![call[c].id] = Popped(@)]
            /\ DOMAIN cachedDatabase = DatabaseIds
        BY <1>2 DEF PopCache, TypeOK
      <4> QED BY <2>0, <4>1, <4>2, <4>3 DEF Cached
    <3>2. \A n \in Names, d \in Contexts :
            Carries(d, n)' <=> Carries(d, n) \/ (d = c /\ n = t)
      BY <1>2, <2>0 DEF PopCache, TypeOK, Hands, Carries, At, WithName
    <3>3. \A n \in Names : Available(n)' <=> Available(n)
      BY <1>2 DEF PopCache, Available
    <3>4. \A id \in DatabaseIds : NoDuplicate(cachedDatabase'[id]) /\ NoDuplicate(availableNames'[id])
      BY <1>2, <2>0 DEF PopCache, TypeOK, Hands, NeverShared
    <3>5. \A n \in Names, d \in Contexts : ~(held'[d][IdOf(n)] = n /\ call'[d].name = n)
      BY <1>2, <2>0, <3>1 DEF PopCache, TypeOK, Hands, NeverShared, Carries, At
    <3>6. timer' = timer
      BY <1>2 DEF PopCache
    <3> HIDE DEF t
    <3> QED BY <3>1, <3>2, <3>3, <3>4, <3>5, <3>6 DEF NeverShared
  <2> QED BY <2>1, <2>2, <2>3, <2>4
<1>3. ASSUME NEW c \in Contexts, PopCacheEmpty(c) PROVE PoolInv'
  <2>1. TypeOK'
    BY <1>3 DEF PopCacheEmpty, TypeOK, Hands, At, Outside, WithName, ContextPlaces, TimerPlaces
  <2>2. Filed'
    BY <1>3 DEF PopCacheEmpty, Filed
  <2>3. Hands'
    BY <1>3 DEF PopCacheEmpty, TypeOK, Hands, InDatabaseCall, At, Outside, WithName
  <2>4. NeverShared'
    BY <1>3 DEF PopCacheEmpty, TypeOK, NeverShared, Hands, Cached, Available, Carries, At, Outside, WithName
  <2> QED BY <2>1, <2>2, <2>3, <2>4
<1>4. ASSUME NEW c \in Contexts, UseCached(c) PROVE PoolInv'
  BY <1>4 DEF UseCached, TypeOK, Filed, Hands, NeverShared, Cached,
     Available, Carries, InDatabaseCall, At, Outside, WithName, ContextPlaces, TimerPlaces
<1>5. ASSUME NEW c \in Contexts, RejectCached(c) PROVE PoolInv'
  BY <1>5 DEF RejectCached, TypeOK, Filed, Hands, NeverShared, Cached,
     Available, Carries, InDatabaseCall, At, Outside, WithName, ContextPlaces, TimerPlaces
<1>6. ASSUME NEW c \in Contexts, PushBack(c) PROVE PoolInv'
  <2>0. /\ Push(availableNames[call[c].id], call[c].name) \in Seq(Names)
        /\ InStack(Push(availableNames[call[c].id], call[c].name)) = InStack(availableNames[call[c].id]) \cup {call[c].name}
        /\ NoDuplicate(Push(availableNames[call[c].id], call[c].name))
    <3>1. call[c].name \in Names /\ availableNames[call[c].id] \in Seq(Names)
      BY <1>6 DEF PushBack, TypeOK, Hands, WithName
    <3>2. call[c].name \notin InStack(availableNames[call[c].id]) /\ NoDuplicate(availableNames[call[c].id])
      BY <1>6, <3>1 DEF PushBack, Hands, NeverShared, Cached, Available, Carries
    <3> QED BY <3>1, <3>2, PushFacts
  <2>1. TypeOK'
    BY <1>6, <2>0 DEF PushBack, TypeOK, At, Outside, ContextPlaces, TimerPlaces, Hands
  <2>2. Filed'
    BY <1>6, <2>0 DEF PushBack, TypeOK, Filed, Hands, At, Outside, WithName
  <2>3. Hands'
    BY <1>6, <2>0 DEF PushBack, TypeOK, Hands, Filed, InDatabaseCall, At, Outside, WithName
  <2>4. NeverShared'
    BY <1>6, <2>0 DEF PushBack, TypeOK, Filed, Hands, NeverShared, Cached, Available, Carries, At, Outside, WithName
  <2> QED BY <2>1, <2>2, <2>3, <2>4
<1>7. ASSUME NEW c \in Contexts, PopAvailable(c) PROVE PoolInv'
  <2>0. /\ Top(availableNames[call[c].id]) \in Names /\ Top(availableNames[call[c].id]) \in InStack(availableNames[call[c].id])
        /\ Popped(availableNames[call[c].id]) \in Seq(Names)
        /\ InStack(availableNames[call[c].id]) = InStack(Popped(availableNames[call[c].id])) \cup {Top(availableNames[call[c].id])}
        /\ NoDuplicate(Popped(availableNames[call[c].id]))
        /\ Top(availableNames[call[c].id]) \notin InStack(Popped(availableNames[call[c].id]))
    <3>1. availableNames[call[c].id] \in Seq(Names) /\ availableNames[call[c].id] # <<>> /\ NoDuplicate(availableNames[call[c].id])
      BY <1>7 DEF PopAvailable, TypeOK, Hands, NeverShared
    <3> QED BY <3>1, PopFacts
  <2>1. TypeOK'
    BY <1>7, <2>0 DEF PopAvailable, TypeOK, At, Outside, ContextPlaces, TimerPlaces, Hands
  <2>2. Filed'
    BY <1>7, <2>0 DEF PopAvailable, TypeOK, Filed, Hands, At, Outside, WithName
  <2>3. Hands'
    BY <1>7, <2>0 DEF PopAvailable, TypeOK, Hands, Filed, InDatabaseCall, At, Outside, WithName
  <2>4. NeverShared'
    <3> DEFINE t == Top(availableNames[call[c].id])
    <3>1. /\ IdOf(t) = call[c].id /\ Available(t)
          /\ \A n \in Names : Available(n)' <=> Available(n) /\ n # t
      <4>1. call[c].id \in DatabaseIds
        BY <1>7 DEF PopAvailable, Hands
      <4>2. IdOf(t) = call[c].id /\ Available(t)
        BY <2>0, <4>1 DEF Filed, Available
      <4>3. availableNames' = [availableNames EXCEPT ![call[c].id] = Popped(@)]
            /\ DOMAIN availableNames = DatabaseIds
        BY <1>7 DEF PopAvailable, TypeOK
      <4> QED BY <2>0, <4>1, <4>2, <4>3 DEF Available
    <3>2. \A n \in Names, d \in Contexts :
            Carries(d, n)' <=> Carries(d, n) \/ (d = c /\ n = t)
      BY <1>7, <2>0 DEF PopAvailable, TypeOK, Hands, Carries, At, WithName
    <3>3. \A n \in Names : Cached(n)' <=> Cached(n)
      BY <1>7 DEF PopAvailable, Cached
    <3>4. \A id \in DatabaseIds : NoDuplicate(cachedDatabase'[id]) /\ NoDuplicate(availableNames'[id])
      BY <1>7, <2>0 DEF PopAvailable, TypeOK, Hands, NeverShared
    <3>5. \A n \in Names, d \in Contexts : ~(held'[d][IdOf(n)] = n /\ call'[d].name = n)
      BY <1>7, <2>0, <3>1 DEF PopAvailable, TypeOK, Hands, NeverShared, Carries, At
    <3>6. timer' = timer
      BY <1>7 DEF PopAvailable
    <3> HIDE DEF t
    <3> QED BY <3>1, <3>2, <3>3, <3>4, <3>5, <3>6 DEF NeverShared
  <2> QED BY <2>1, <2>2, <2>3, <2>4
<1>8. ASSUME NEW c \in Contexts, PopAvailableEmpty(c) PROVE PoolInv'
  <2>1. TypeOK'
    BY <1>8 DEF PopAvailableEmpty, TypeOK, Hands, At, Outside, WithName, ContextPlaces, TimerPlaces
  <2>2. Filed'
    BY <1>8 DEF PopAvailableEmpty, Filed
  <2>3. Hands'
    BY <1>8 DEF PopAvailableEmpty, TypeOK, Hands, InDatabaseCall, At, Outside, WithName
  <2>4. NeverShared'
    BY <1>8 DEF PopAvailableEmpty, TypeOK, NeverShared, Hands, Cached, Available, Carries, At, Outside, WithName
  <2> QED BY <2>1, <2>2, <2>3, <2>4
<1>9. ASSUME NEW c \in Contexts, OpenSucceeds(c) PROVE PoolInv'
  BY <1>9 DEF WithName, OpenSucceeds, TypeOK, Filed, Hands, NeverShared, Cached,
     Available, Carries, InDatabaseCall, At, Outside, WithName, ContextPlaces, TimerPlaces
<1>10. ASSUME NEW c \in Contexts, OpenFails(c) PROVE PoolInv'
  <2>1. TypeOK'
    BY <1>10 DEF OpenFails, TypeOK, Hands, At, Outside, WithName, ContextPlaces, TimerPlaces
  <2>2. Filed'
    BY <1>10 DEF OpenFails, Filed
  <2>3. Hands'
    BY <1>10 DEF OpenFails, TypeOK, Hands, InDatabaseCall, At, Outside, WithName
  <2>4. NeverShared'
    BY <1>10 DEF OpenFails, TypeOK, NeverShared, Hands, Cached, Available, Carries, At, Outside, WithName
  <2> QED BY <2>1, <2>2, <2>3, <2>4
<1>11. ASSUME NEW c \in Contexts, Restore(c) PROVE PoolInv'
  <2>0. /\ Push(availableNames[call[c].id], call[c].name) \in Seq(Names)
        /\ InStack(Push(availableNames[call[c].id], call[c].name)) = InStack(availableNames[call[c].id]) \cup {call[c].name}
        /\ NoDuplicate(Push(availableNames[call[c].id], call[c].name))
    <3>1. call[c].name \in Names /\ availableNames[call[c].id] \in Seq(Names)
      BY <1>11 DEF Restore, TypeOK, Hands, WithName
    <3>2. call[c].name \notin InStack(availableNames[call[c].id]) /\ NoDuplicate(availableNames[call[c].id])
      BY <1>11, <3>1 DEF Restore, Hands, NeverShared, Cached, Available, Carries
    <3> QED BY <3>1, <3>2, PushFacts
  <2>1. TypeOK'
    BY <1>11, <2>0 DEF Restore, TypeOK, At, Outside, ContextPlaces, TimerPlaces, Hands
  <2>2. Filed'
    BY <1>11, <2>0 DEF Restore, TypeOK, Filed, Hands, At, Outside, WithName
  <2>3. Hands'
    BY <1>11, <2>0 DEF Restore, TypeOK, Hands, Filed, InDatabaseCall, At, Outside, WithName
  <2>4. NeverShared'
    BY <1>11, <2>0 DEF Restore, TypeOK, Filed, Hands, NeverShared, Cached, Available, Carries, At, Outside, WithName
  <2> QED BY <2>1, <2>2, <2>3, <2>4
<1>12. ASSUME NEW c \in Contexts, Release(c) PROVE PoolInv'
  BY <1>12 DEF Release, TypeOK, Filed, Hands, NeverShared, Cached,
     Available, Carries, InDatabaseCall, At, Outside, WithName, ContextPlaces, TimerPlaces
<1>13. ASSUME NEW c \in Contexts, PoolNext(c) PROVE PoolInv'
  <2>1. TypeOK'
    <3>1. PICK id \in DatabaseIds :
            /\ held[c][id] # Nobody
            /\ call' = [call EXCEPT ![c] = At("push", IdOf(held[c][id]), held[c][id])]
            /\ held' = [held EXCEPT ![c] = [@ EXCEPT ![id] = Nobody]]
      BY <1>13 DEF PoolNext
    <3>0. held[c][id] \in Names
      BY <3>1 DEF TypeOK
    <3>2. At("push", IdOf(held[c][id]), held[c][id])
            \in [at : ContextPlaces, id : Nat, name : Names \cup {Nobody}]
      BY <3>0 DEF At, ContextPlaces
    <3>3. /\ call' \in [Contexts -> [at : ContextPlaces, id : Nat, name : Names \cup {Nobody}]]
          /\ held' \in [Contexts -> [DatabaseIds -> Names \cup {Nobody}]]
      BY <3>1, <3>2 DEF TypeOK
    <3> QED BY <1>13, <3>3 DEF PoolNext, TypeOK
  <2>2. Filed'
    BY <1>13 DEF PoolNext, TypeOK, Filed, Hands, At, Outside, WithName
  <2>3. Hands'
    BY <1>13 DEF PoolNext, TypeOK, Hands, Filed, InDatabaseCall, At, Outside, WithName
  <2>4. NeverShared'
    BY <1>13 DEF PoolNext, TypeOK, Filed, Hands, NeverShared, Cached, Available, Carries, At, Outside, WithName
  <2> QED BY <2>1, <2>2, <2>3, <2>4
<1>14. ASSUME NEW c \in Contexts, Released(c) PROVE PoolInv'
  BY <1>14 DEF Released, TypeOK, Filed, Hands, NeverShared, Cached,
     Available, Carries, InDatabaseCall, At, Outside, WithName, ContextPlaces, TimerPlaces
<1>15. ASSUME NEW c \in Contexts, PoolPush(c) PROVE PoolInv'
  <2>0. /\ Push(cachedDatabase[call[c].id], call[c].name) \in Seq(Names)
        /\ InStack(Push(cachedDatabase[call[c].id], call[c].name)) = InStack(cachedDatabase[call[c].id]) \cup {call[c].name}
        /\ NoDuplicate(Push(cachedDatabase[call[c].id], call[c].name))
    <3>1. call[c].name \in Names /\ cachedDatabase[call[c].id] \in Seq(Names)
      BY <1>15 DEF PoolPush, TypeOK, Hands, WithName
    <3>2. call[c].name \notin InStack(cachedDatabase[call[c].id]) /\ NoDuplicate(cachedDatabase[call[c].id])
      BY <1>15, <3>1 DEF PoolPush, Hands, NeverShared, Cached, Available, Carries
    <3> QED BY <3>1, <3>2, PushFacts
  <2>1. TypeOK'
    BY <1>15, <2>0 DEF PoolPush, TypeOK, At, Outside, ContextPlaces, TimerPlaces, Hands
  <2>2. Filed'
    BY <1>15, <2>0 DEF PoolPush, TypeOK, Filed, Hands, At, Outside, WithName
  <2>3. Hands'
    BY <1>15, <2>0 DEF PoolPush, TypeOK, Hands, Filed, InDatabaseCall, At, Outside, WithName
  <2>4. NeverShared'
    BY <1>15, <2>0 DEF PoolPush, TypeOK, Filed, Hands, NeverShared, Cached, Available, Carries, At, Outside, WithName
  <2> QED BY <2>1, <2>2, <2>3, <2>4
<1>16. ASSUME NEW c \in Contexts, PoolStamp(c) PROVE PoolInv'
  BY <1>16 DEF PoolStamp, TypeOK, Filed, Hands, NeverShared, Cached,
     Available, Carries, InDatabaseCall, At, Outside, WithName, ContextPlaces, TimerPlaces
<1>17. ASSUME TimerStart PROVE PoolInv'
  BY <1>17, FirstIdExists DEF TimerStart, TypeOK, Filed, Hands, NeverShared, Cached,
     Available, Carries, InDatabaseCall, At, Outside, WithName, ContextPlaces, TimerPlaces
<1>18. ASSUME TimerLoad PROVE PoolInv'
  BY <1>18 DEF TimerLoad, TypeOK, Filed, Hands, NeverShared, Cached,
     Available, Carries, InDatabaseCall, At, Outside, WithName, ContextPlaces, TimerPlaces
<1>19. ASSUME TimerSkip PROVE PoolInv'
  <2>0. \/ NextTimer(timer.id) = Outside
        \/ \E j \in DatabaseIds : NextTimer(timer.id) = At("load", j, Nobody)
    BY <1>19, NextTimerFacts DEF TimerSkip, Hands
  <2>1. TypeOK'
    BY <1>19, <2>0 DEF TimerSkip, TypeOK, At, Outside, ContextPlaces, TimerPlaces, Hands
  <2>2. Filed'
    BY <1>19, <2>0 DEF TimerSkip, TypeOK, Filed, Hands, At, Outside, WithName
  <2>3. Hands'
    BY <1>19, <2>0 DEF TimerSkip, TypeOK, Hands, Filed, InDatabaseCall, At, Outside, WithName
  <2>4. NeverShared'
    BY <1>19, <2>0 DEF TimerSkip, TypeOK, Filed, Hands, NeverShared, Cached, Available, Carries, At, Outside, WithName
  <2> QED BY <2>1, <2>2, <2>3, <2>4
<1>20. ASSUME TimerPop PROVE PoolInv'
  <2>0. /\ Top(cachedDatabase[timer.id]) \in Names /\ Top(cachedDatabase[timer.id]) \in InStack(cachedDatabase[timer.id])
        /\ Popped(cachedDatabase[timer.id]) \in Seq(Names)
        /\ InStack(cachedDatabase[timer.id]) = InStack(Popped(cachedDatabase[timer.id])) \cup {Top(cachedDatabase[timer.id])}
        /\ NoDuplicate(Popped(cachedDatabase[timer.id]))
        /\ Top(cachedDatabase[timer.id]) \notin InStack(Popped(cachedDatabase[timer.id]))
    <3>1. cachedDatabase[timer.id] \in Seq(Names) /\ cachedDatabase[timer.id] # <<>> /\ NoDuplicate(cachedDatabase[timer.id])
      BY <1>20 DEF TimerPop, TypeOK, Hands, NeverShared
    <3> QED BY <3>1, PopFacts
  <2>1. TypeOK'
    BY <1>20, <2>0 DEF TimerPop, TypeOK, At, Outside, ContextPlaces, TimerPlaces, Hands
  <2>2. Filed'
    BY <1>20, <2>0 DEF TimerPop, TypeOK, Filed, Hands, At, Outside, WithName
  <2>3. Hands'
    BY <1>20, <2>0 DEF TimerPop, TypeOK, Hands, Filed, InDatabaseCall, At, Outside, WithName
  <2>4. NeverShared'
    BY <1>20, <2>0 DEF TimerPop, TypeOK, Filed, Hands, NeverShared, Cached, Available, Carries, At, Outside, WithName
  <2> QED BY <2>1, <2>2, <2>3, <2>4
<1>21. ASSUME TimerPopEmpty PROVE PoolInv'
  <2>0. \/ NextTimer(timer.id) = Outside
        \/ \E j \in DatabaseIds : NextTimer(timer.id) = At("load", j, Nobody)
    BY <1>21, NextTimerFacts DEF TimerPopEmpty, Hands
  <2>1. TypeOK'
    BY <1>21, <2>0 DEF TimerPopEmpty, TypeOK, At, Outside, ContextPlaces, TimerPlaces, Hands
  <2>2. Filed'
    BY <1>21, <2>0 DEF TimerPopEmpty, TypeOK, Filed, Hands, At, Outside, WithName
  <2>3. Hands'
    BY <1>21, <2>0 DEF TimerPopEmpty, TypeOK, Hands, Filed, InDatabaseCall, At, Outside, WithName
  <2>4. NeverShared'
    BY <1>21, <2>0 DEF TimerPopEmpty, TypeOK, Filed, Hands, NeverShared, Cached, Available, Carries, At, Outside, WithName
  <2> QED BY <2>1, <2>2, <2>3, <2>4
<1>22. ASSUME TimerClose PROVE PoolInv'
  <2>1. TypeOK'
    BY <1>22 DEF TimerClose, TypeOK, At, Outside, ContextPlaces, TimerPlaces
  <2>2. Filed'
    BY <1>22 DEF TimerClose, Filed
  <2>3. Hands'
    BY <1>22 DEF TimerClose, TypeOK, Hands, InDatabaseCall, At, Outside, WithName
  <2>4. NeverShared'
    BY <1>22 DEF TimerClose, TypeOK, NeverShared, Hands, Cached, Available, Carries, At, Outside
  <2> QED BY <2>1, <2>2, <2>3, <2>4
<1>23. ASSUME TimerPush PROVE PoolInv'
  <2>0. /\ Push(availableNames[timer.id], timer.name) \in Seq(Names)
        /\ InStack(Push(availableNames[timer.id], timer.name)) = InStack(availableNames[timer.id]) \cup {timer.name}
        /\ NoDuplicate(Push(availableNames[timer.id], timer.name))
    <3>1. timer.name \in Names /\ availableNames[timer.id] \in Seq(Names)
      BY <1>23 DEF TimerPush, TypeOK, Hands, WithName
    <3>2. timer.name \notin InStack(availableNames[timer.id]) /\ NoDuplicate(availableNames[timer.id])
      BY <1>23, <3>1 DEF TimerPush, Hands, NeverShared, Cached, Available, Carries
    <3> QED BY <3>1, <3>2, PushFacts
  <2>1. TypeOK'
    BY <1>23, <2>0 DEF TimerPush, TypeOK, At, Outside, ContextPlaces, TimerPlaces, Hands
  <2>2. Filed'
    BY <1>23, <2>0 DEF TimerPush, TypeOK, Filed, Hands, At, Outside, WithName
  <2>3. Hands'
    BY <1>23, <2>0 DEF TimerPush, TypeOK, Hands, Filed, InDatabaseCall, At, Outside, WithName
  <2>4. NeverShared'
    BY <1>23, <2>0 DEF TimerPush, TypeOK, Filed, Hands, NeverShared, Cached, Available, Carries, At, Outside, WithName
  <2> QED BY <2>1, <2>2, <2>3, <2>4
<1>24. ASSUME NEW id \in DatabaseIds, Idle(id) PROVE PoolInv'
  BY <1>24 DEF Idle, TypeOK, Filed, Hands, NeverShared, Cached,
     Available, Carries, InDatabaseCall, At, Outside, WithName, ContextPlaces, TimerPlaces
<1>25. ASSUME NEW n \in Names, Drop(n) PROVE PoolInv'
  BY <1>25 DEF Drop, TypeOK, Filed, Hands, NeverShared, Cached,
     Available, Carries, InDatabaseCall, At, Outside, WithName, ContextPlaces, TimerPlaces
<1>26. ASSUME Destroy PROVE PoolInv'
  <2>0. InStack(<<>>) = {} /\ NoDuplicate(<<>>)
    BY DEF InStack, NoDuplicate
  <2>1. TypeOK'
    BY <1>26, <2>0 DEF Destroy, TypeOK, At, Outside, ContextPlaces, TimerPlaces, Hands
  <2>2. Filed'
    BY <1>26, <2>0 DEF Destroy, TypeOK, Filed, Hands, At, Outside, WithName
  <2>3. Hands'
    BY <1>26, <2>0 DEF Destroy, TypeOK, Hands, Filed, InDatabaseCall, At, Outside, WithName
  <2>4. NeverShared'
    BY <1>26, <2>0 DEF Destroy, TypeOK, Filed, Hands, NeverShared, Cached, Available, Carries, At, Outside, WithName
  <2> QED BY <2>1, <2>2, <2>3, <2>4
<1>27. ASSUME UNCHANGED vars PROVE PoolInv'
  BY <1>27 DEF vars, TypeOK, Filed, Hands, NeverShared, Cached,
     Available, Carries, InDatabaseCall, At, Outside, WithName, ContextPlaces, TimerPlaces
<1> QED
  BY <1>1, <1>2, <1>3, <1>4, <1>5, <1>6, <1>7, <1>8, <1>9, <1>10, <1>11, <1>12, <1>13, <1>14, <1>15, <1>16, <1>17, <1>18, <1>19, <1>20, <1>21, <1>22, <1>23, <1>24, <1>25, <1>26, <1>27
     DEF Next, DatabaseStep, ReleaseStep, TimerStep

\* The pool is well typed and no connection is ever in two places, for any
\* number of contexts, databases and connections and both kinds of pool.
THEOREM PoolInvariant == Spec => [](TypeOK /\ NeverShared)
<1>1. PoolInv => TypeOK /\ NeverShared
  BY DEF PoolInv
<1> QED BY InitPoolInv, NextPoolInv, <1>1, PTL DEF Spec

-----------------------------------------------------------------------------
(* Nothing open on the available stacks.                                    *)

ClosedInv ==
    /\ AvailableAreClosed
    /\ timer.at = "push" => timer.name \notin open

\* Every step keeps the available stacks, and the hands that feed them, closed.
LEMMA NextClosedInv == PoolInv /\ ClosedInv /\ [Next]_vars => ClosedInv'
<1> SUFFICES ASSUME PoolInv, ClosedInv, [Next]_vars PROVE ClosedInv'
  OBVIOUS
<1> USE PoolAssumptions, NameFacts DEF PoolInv, ClosedInv
<1>1. ASSUME NEW c \in Contexts, NEW id \in DatabaseIds, GetDatabase(c, id) PROVE ClosedInv'
  BY <1>1 DEF GetDatabase, AvailableAreClosed, Available, TypeOK, Hands, WithName, At, Outside
<1>2. ASSUME NEW c \in Contexts, PopCache(c) PROVE ClosedInv'
  BY <1>2 DEF PopCache, AvailableAreClosed, Available, TypeOK, Hands, WithName, At, Outside
<1>3. ASSUME NEW c \in Contexts, PopCacheEmpty(c) PROVE ClosedInv'
  BY <1>3 DEF PopCacheEmpty, AvailableAreClosed, Available, TypeOK, Hands, WithName, At, Outside
<1>4. ASSUME NEW c \in Contexts, UseCached(c) PROVE ClosedInv'
  BY <1>4 DEF UseCached, AvailableAreClosed, Available, TypeOK, Hands, WithName, At, Outside
<1>5. ASSUME NEW c \in Contexts, RejectCached(c) PROVE ClosedInv'
  BY <1>5 DEF RejectCached, AvailableAreClosed, Available, TypeOK, Hands, WithName, At, Outside
<1>6. ASSUME NEW c \in Contexts, PushBack(c) PROVE ClosedInv'
  <2>0. /\ Push(availableNames[call[c].id], call[c].name) \in Seq(Names)
        /\ InStack(Push(availableNames[call[c].id], call[c].name)) = InStack(availableNames[call[c].id]) \cup {call[c].name}
        /\ NoDuplicate(Push(availableNames[call[c].id], call[c].name))
    <3>1. call[c].name \in Names /\ availableNames[call[c].id] \in Seq(Names)
      BY <1>6 DEF PushBack, TypeOK, Hands, WithName
    <3>2. call[c].name \notin InStack(availableNames[call[c].id]) /\ NoDuplicate(availableNames[call[c].id])
      BY <1>6, <3>1 DEF PushBack, Hands, NeverShared, Cached, Available, Carries
    <3> QED BY <3>1, <3>2, PushFacts
  <2> QED
    BY <1>6, <2>0 DEF PushBack, AvailableAreClosed, Available, TypeOK, Hands, WithName, At, Outside
<1>7. ASSUME NEW c \in Contexts, PopAvailable(c) PROVE ClosedInv'
  <2>0. /\ Top(availableNames[call[c].id]) \in Names /\ Top(availableNames[call[c].id]) \in InStack(availableNames[call[c].id])
        /\ Popped(availableNames[call[c].id]) \in Seq(Names)
        /\ InStack(availableNames[call[c].id]) = InStack(Popped(availableNames[call[c].id])) \cup {Top(availableNames[call[c].id])}
        /\ NoDuplicate(Popped(availableNames[call[c].id]))
        /\ Top(availableNames[call[c].id]) \notin InStack(Popped(availableNames[call[c].id]))
    <3>1. availableNames[call[c].id] \in Seq(Names) /\ availableNames[call[c].id] # <<>> /\ NoDuplicate(availableNames[call[c].id])
      BY <1>7 DEF PopAvailable, TypeOK, Hands, NeverShared
    <3> QED BY <3>1, PopFacts
  <2> DEFINE t == Top(availableNames[call[c].id])
  <2>1. t \in Names /\ IdOf(t) = call[c].id /\ Available(t) /\ t \notin open
    BY <1>7, <2>0 DEF PopAvailable, Filed, AvailableAreClosed, Available, TypeOK, Hands
  <2>2. \A n \in Names : Available(n)' => Available(n)
    BY <1>7, <2>0 DEF PopAvailable, Available, TypeOK
  <2>3. \A d \in Contexts : d # c => call'[d] = call[d]
    BY <1>7 DEF PopAvailable, TypeOK
  <2>4. call'[c].name = t /\ open' = open /\ timer' = timer
    BY <1>7 DEF PopAvailable, TypeOK, At
  <2> HIDE DEF t
  <2> QED
    BY <2>1, <2>2, <2>3, <2>4 DEF AvailableAreClosed
<1>8. ASSUME NEW c \in Contexts, PopAvailableEmpty(c) PROVE ClosedInv'
  BY <1>8 DEF PopAvailableEmpty, AvailableAreClosed, Available, TypeOK, Hands, WithName, At, Outside
<1>9. ASSUME NEW c \in Contexts, OpenSucceeds(c) PROVE ClosedInv'
  BY <1>9 DEF OpenSucceeds, NeverShared, Carries, AvailableAreClosed, Available, TypeOK, Hands, WithName, At, Outside
<1>10. ASSUME NEW c \in Contexts, OpenFails(c) PROVE ClosedInv'
  BY <1>10 DEF OpenFails, AvailableAreClosed, Available, TypeOK, Hands, WithName, At, Outside
<1>11. ASSUME NEW c \in Contexts, Restore(c) PROVE ClosedInv'
  <2>0. /\ Push(availableNames[call[c].id], call[c].name) \in Seq(Names)
        /\ InStack(Push(availableNames[call[c].id], call[c].name)) = InStack(availableNames[call[c].id]) \cup {call[c].name}
        /\ NoDuplicate(Push(availableNames[call[c].id], call[c].name))
    <3>1. call[c].name \in Names /\ availableNames[call[c].id] \in Seq(Names)
      BY <1>11 DEF Restore, TypeOK, Hands, WithName
    <3>2. call[c].name \notin InStack(availableNames[call[c].id]) /\ NoDuplicate(availableNames[call[c].id])
      BY <1>11, <3>1 DEF Restore, Hands, NeverShared, Cached, Available, Carries
    <3> QED BY <3>1, <3>2, PushFacts
  <2> QED
    BY <1>11, <2>0 DEF Restore, AvailableAreClosed, Available, TypeOK, Hands, WithName, At, Outside
<1>12. ASSUME NEW c \in Contexts, Release(c) PROVE ClosedInv'
  BY <1>12 DEF Release, AvailableAreClosed, Available, TypeOK, Hands, WithName, At, Outside
<1>13. ASSUME NEW c \in Contexts, PoolNext(c) PROVE ClosedInv'
  BY <1>13 DEF PoolNext, AvailableAreClosed, Available, TypeOK, Hands, WithName, At, Outside
<1>14. ASSUME NEW c \in Contexts, Released(c) PROVE ClosedInv'
  BY <1>14 DEF Released, AvailableAreClosed, Available, TypeOK, Hands, WithName, At, Outside
<1>15. ASSUME NEW c \in Contexts, PoolPush(c) PROVE ClosedInv'
  BY <1>15 DEF PoolPush, AvailableAreClosed, Available, TypeOK, Hands, WithName, At, Outside
<1>16. ASSUME NEW c \in Contexts, PoolStamp(c) PROVE ClosedInv'
  BY <1>16 DEF PoolStamp, AvailableAreClosed, Available, TypeOK, Hands, WithName, At, Outside
<1>17. ASSUME TimerStart PROVE ClosedInv'
  BY <1>17 DEF TimerStart, AvailableAreClosed, Available, TypeOK, Hands, WithName, At, Outside
<1>18. ASSUME TimerLoad PROVE ClosedInv'
  BY <1>18 DEF TimerLoad, AvailableAreClosed, Available, TypeOK, Hands, WithName, At, Outside
<1>19. ASSUME TimerSkip PROVE ClosedInv'
  <2>0. \/ NextTimer(timer.id) = Outside
        \/ \E j \in DatabaseIds : NextTimer(timer.id) = At("load", j, Nobody)
    BY <1>19, NextTimerFacts DEF TimerSkip, Hands
  <2> QED
    BY <1>19, <2>0 DEF TimerSkip, AvailableAreClosed, Available, TypeOK, Hands, WithName, At, Outside
<1>20. ASSUME TimerPop PROVE ClosedInv'
  BY <1>20 DEF TimerPop, AvailableAreClosed, Available, TypeOK, Hands, WithName, At, Outside
<1>21. ASSUME TimerPopEmpty PROVE ClosedInv'
  <2>0. \/ NextTimer(timer.id) = Outside
        \/ \E j \in DatabaseIds : NextTimer(timer.id) = At("load", j, Nobody)
    BY <1>21, NextTimerFacts DEF TimerPopEmpty, Hands
  <2> QED
    BY <1>21, <2>0 DEF TimerPopEmpty, AvailableAreClosed, Available, TypeOK, Hands, WithName, At, Outside
<1>22. ASSUME TimerClose PROVE ClosedInv'
  BY <1>22 DEF TimerClose, AvailableAreClosed, Available, TypeOK, Hands, WithName, At, Outside
<1>23. ASSUME TimerPush PROVE ClosedInv'
  <2>0. /\ Push(availableNames[timer.id], timer.name) \in Seq(Names)
        /\ InStack(Push(availableNames[timer.id], timer.name)) = InStack(availableNames[timer.id]) \cup {timer.name}
        /\ NoDuplicate(Push(availableNames[timer.id], timer.name))
    <3>1. timer.name \in Names /\ availableNames[timer.id] \in Seq(Names)
      BY <1>23 DEF TimerPush, TypeOK, Hands, WithName
    <3>2. timer.name \notin InStack(availableNames[timer.id]) /\ NoDuplicate(availableNames[timer.id])
      BY <1>23, <3>1 DEF TimerPush, Hands, NeverShared, Cached, Available, Carries
    <3> QED BY <3>1, <3>2, PushFacts
  <2> QED
    BY <1>23, <2>0 DEF TimerPush, AvailableAreClosed, Available, TypeOK, Hands, WithName, At, Outside
<1>24. ASSUME NEW id \in DatabaseIds, Idle(id) PROVE ClosedInv'
  BY <1>24 DEF Idle, AvailableAreClosed, Available, TypeOK, Hands, WithName, At, Outside
<1>25. ASSUME NEW n \in Names, Drop(n) PROVE ClosedInv'
  BY <1>25 DEF Drop, AvailableAreClosed, Available, TypeOK, Hands, WithName, At, Outside
<1>26. ASSUME Destroy PROVE ClosedInv'
  BY <1>26 DEF Destroy, InStack, AvailableAreClosed, Available, TypeOK, Hands, WithName, At, Outside
<1>27. ASSUME UNCHANGED vars PROVE ClosedInv'
  BY <1>27 DEF vars, AvailableAreClosed, Available, TypeOK, Hands, WithName, At, Outside
<1> QED
  BY <1>1, <1>2, <1>3, <1>4, <1>5, <1>6, <1>7, <1>8, <1>9, <1>10, <1>11, <1>12, <1>13, <1>14, <1>15, <1>16, <1>17, <1>18, <1>19, <1>20, <1>21, <1>22, <1>23, <1>24, <1>25, <1>26, <1>27
     DEF Next, DatabaseStep, ReleaseStep, TimerStep

\* A connection on an available stack is never open, so database() never
\* takes the branch that warns about one.
THEOREM PoolAvailableAreClosed == Spec => []AvailableAreClosed
<1>1. Init => ClosedInv
  BY DEF Init, ClosedInv, AvailableAreClosed, Outside
<1>2. ClosedInv => AvailableAreClosed
  BY DEF ClosedInv
<1> QED BY <1>1, <1>2, InitPoolInv, NextPoolInv, NextClosedInv, PTL DEF Spec

-----------------------------------------------------------------------------
(* The SQL pool loses no connection.                                        *)

\* Every step of the SQL pool keeps every name somewhere: one name moves, the
\* others stay.
LEMMA NextNeverLost ==
    Kind = "sql" /\ PoolInv /\ NeverLost /\ [Next]_vars => NeverLost'
<1> SUFFICES ASSUME Kind = "sql", PoolInv, NeverLost, [Next]_vars PROVE NeverLost'
  OBVIOUS
<1> USE PoolAssumptions, NameFacts DEF PoolInv
<1>1. ASSUME NEW c \in Contexts, NEW id \in DatabaseIds, GetDatabase(c, id) PROVE NeverLost'
  BY <1>1 DEF GetDatabase, NeverLost, Cached, Available, Carries, TypeOK, Filed, Hands, WithName, At, Outside
<1>2. ASSUME NEW c \in Contexts, PopCache(c) PROVE NeverLost'
  <2>0. /\ Top(cachedDatabase[call[c].id]) \in Names /\ Top(cachedDatabase[call[c].id]) \in InStack(cachedDatabase[call[c].id])
        /\ Popped(cachedDatabase[call[c].id]) \in Seq(Names)
        /\ InStack(cachedDatabase[call[c].id]) = InStack(Popped(cachedDatabase[call[c].id])) \cup {Top(cachedDatabase[call[c].id])}
        /\ NoDuplicate(Popped(cachedDatabase[call[c].id]))
        /\ Top(cachedDatabase[call[c].id]) \notin InStack(Popped(cachedDatabase[call[c].id]))
    <3>1. cachedDatabase[call[c].id] \in Seq(Names) /\ cachedDatabase[call[c].id] # <<>> /\ NoDuplicate(cachedDatabase[call[c].id])
      BY <1>2 DEF PopCache, TypeOK, Hands, NeverShared
    <3> QED BY <3>1, PopFacts
  <2>1. PICK m \in Names : m = Top(cachedDatabase[call[c].id])
    BY <1>2, <2>0 DEF PopCache, TypeOK, Hands, WithName
  <2>2. Carries(c, m)'
    BY <1>2, <2>1, <2>0 DEF PopCache, Cached, Available, Carries, TypeOK, Filed, Hands, WithName, At, Outside
  <2>3. ASSUME NEW n \in Names, n # m
        PROVE  /\ Cached(n) => Cached(n)'
               /\ Available(n) => Available(n)'
               /\ timer.name = n => timer'.name = n
               /\ \A d \in Contexts : Carries(d, n) => Carries(d, n)'
    <3>1. /\ Cached(n) => Cached(n)'
          /\ Available(n) => Available(n)'
          /\ timer.name = n => timer'.name = n
      BY <1>2, <2>1, <2>3, <2>0 DEF PopCache, Cached, Available, TypeOK, Hands, At, WithName
    <3>2. \A d \in Contexts : Carries(d, n) => Carries(d, n)'
      BY <1>2, <2>3 DEF PopCache, Carries, TypeOK, Hands, WithName, At
    <3> QED BY <3>1, <3>2
  <2>4. closed' = closed
    BY <1>2 DEF PopCache
  <2> QED BY <2>2, <2>3, <2>4 DEF NeverLost
<1>3. ASSUME NEW c \in Contexts, PopCacheEmpty(c) PROVE NeverLost'
  BY <1>3 DEF PopCacheEmpty, NeverLost, Cached, Available, Carries, TypeOK, Filed, Hands, WithName, At, Outside
<1>4. ASSUME NEW c \in Contexts, UseCached(c) PROVE NeverLost'
  <2>1. PICK m \in Names : m = call[c].name
    BY <1>4 DEF UseCached, TypeOK, Hands, WithName
  <2>2. Carries(c, m)'
    BY <1>4, <2>1 DEF UseCached, Cached, Available, Carries, TypeOK, Filed, Hands, WithName, At, Outside
  <2>3. ASSUME NEW n \in Names, n # m
        PROVE  /\ Cached(n) => Cached(n)'
               /\ Available(n) => Available(n)'
               /\ timer.name = n => timer'.name = n
               /\ \A d \in Contexts : Carries(d, n) => Carries(d, n)'
    <3>1. /\ Cached(n) => Cached(n)'
          /\ Available(n) => Available(n)'
          /\ timer.name = n => timer'.name = n
      BY <1>4, <2>1, <2>3 DEF UseCached, Cached, Available, TypeOK, Hands, At, WithName
    <3>2. \A d \in Contexts : Carries(d, n) => Carries(d, n)'
      BY <1>4, <2>1, <2>3 DEF UseCached, Carries, InDatabaseCall, TypeOK, Filed, Hands, WithName, At, Outside
    <3> QED BY <3>1, <3>2
  <2>4. closed' = closed
    BY <1>4 DEF UseCached
  <2> QED BY <2>2, <2>3, <2>4 DEF NeverLost
<1>5. ASSUME NEW c \in Contexts, RejectCached(c) PROVE NeverLost'
  BY <1>5 DEF RejectCached, NeverLost, Cached, Available, Carries, TypeOK, Filed, Hands, WithName, At, Outside
<1>6. ASSUME NEW c \in Contexts, PushBack(c) PROVE NeverLost'
  <2>0. /\ Push(availableNames[call[c].id], call[c].name) \in Seq(Names)
        /\ InStack(Push(availableNames[call[c].id], call[c].name)) = InStack(availableNames[call[c].id]) \cup {call[c].name}
        /\ NoDuplicate(Push(availableNames[call[c].id], call[c].name))
    <3>1. call[c].name \in Names /\ availableNames[call[c].id] \in Seq(Names)
      BY <1>6 DEF PushBack, TypeOK, Hands, WithName
    <3>2. call[c].name \notin InStack(availableNames[call[c].id]) /\ NoDuplicate(availableNames[call[c].id])
      BY <1>6, <3>1 DEF PushBack, Hands, NeverShared, Cached, Available, Carries
    <3> QED BY <3>1, <3>2, PushFacts
  <2>1. PICK m \in Names : m = call[c].name
    BY <1>6, <2>0 DEF PushBack, TypeOK, Hands, WithName
  <2>2. Available(m)'
    BY <1>6, <2>1, <2>0 DEF PushBack, Cached, Available, Carries, TypeOK, Filed, Hands, WithName, At, Outside
  <2>3. ASSUME NEW n \in Names, n # m
        PROVE  /\ Cached(n) => Cached(n)'
               /\ Available(n) => Available(n)'
               /\ timer.name = n => timer'.name = n
               /\ \A d \in Contexts : Carries(d, n) => Carries(d, n)'
    <3>1. /\ Cached(n) => Cached(n)'
          /\ Available(n) => Available(n)'
          /\ timer.name = n => timer'.name = n
      BY <1>6, <2>1, <2>3, <2>0 DEF PushBack, Cached, Available, TypeOK, Hands, At, WithName
    <3>2. \A d \in Contexts : Carries(d, n) => Carries(d, n)'
      BY <1>6, <2>1, <2>3, <2>0 DEF PushBack, Carries, InDatabaseCall, TypeOK, Filed, Hands, WithName, At, Outside
    <3> QED BY <3>1, <3>2
  <2>4. closed' = closed
    BY <1>6 DEF PushBack
  <2> QED BY <2>2, <2>3, <2>4 DEF NeverLost
<1>7. ASSUME NEW c \in Contexts, PopAvailable(c) PROVE NeverLost'
  <2>0. /\ Top(availableNames[call[c].id]) \in Names /\ Top(availableNames[call[c].id]) \in InStack(availableNames[call[c].id])
        /\ Popped(availableNames[call[c].id]) \in Seq(Names)
        /\ InStack(availableNames[call[c].id]) = InStack(Popped(availableNames[call[c].id])) \cup {Top(availableNames[call[c].id])}
        /\ NoDuplicate(Popped(availableNames[call[c].id]))
        /\ Top(availableNames[call[c].id]) \notin InStack(Popped(availableNames[call[c].id]))
    <3>1. availableNames[call[c].id] \in Seq(Names) /\ availableNames[call[c].id] # <<>> /\ NoDuplicate(availableNames[call[c].id])
      BY <1>7 DEF PopAvailable, TypeOK, Hands, NeverShared
    <3> QED BY <3>1, PopFacts
  <2>1. PICK m \in Names : m = Top(availableNames[call[c].id])
    BY <1>7, <2>0 DEF PopAvailable, TypeOK, Hands, WithName
  <2>2. Carries(c, m)'
    BY <1>7, <2>1, <2>0 DEF PopAvailable, Cached, Available, Carries, TypeOK, Filed, Hands, WithName, At, Outside
  <2>3. ASSUME NEW n \in Names, n # m
        PROVE  /\ Cached(n) => Cached(n)'
               /\ Available(n) => Available(n)'
               /\ timer.name = n => timer'.name = n
               /\ \A d \in Contexts : Carries(d, n) => Carries(d, n)'
    <3>1. /\ Cached(n) => Cached(n)'
          /\ Available(n) => Available(n)'
          /\ timer.name = n => timer'.name = n
      BY <1>7, <2>1, <2>3, <2>0 DEF PopAvailable, Cached, Available, TypeOK, Hands, At, WithName
    <3>2. \A d \in Contexts : Carries(d, n) => Carries(d, n)'
      BY <1>7, <2>3 DEF PopAvailable, Carries, TypeOK, Hands, WithName, At
    <3> QED BY <3>1, <3>2
  <2>4. closed' = closed
    BY <1>7 DEF PopAvailable
  <2> QED BY <2>2, <2>3, <2>4 DEF NeverLost
<1>8. ASSUME NEW c \in Contexts, PopAvailableEmpty(c) PROVE NeverLost'
  BY <1>8 DEF PopAvailableEmpty, NeverLost, Cached, Available, Carries, TypeOK, Filed, Hands, WithName, At, Outside
<1>9. ASSUME NEW c \in Contexts, OpenSucceeds(c) PROVE NeverLost'
  <2>1. PICK m \in Names : m = call[c].name
    BY <1>9 DEF OpenSucceeds, TypeOK, Hands, WithName
  <2>2. Carries(c, m)'
    BY <1>9, <2>1 DEF OpenSucceeds, Cached, Available, Carries, TypeOK, Filed, Hands, WithName, At, Outside
  <2>3. ASSUME NEW n \in Names, n # m
        PROVE  /\ Cached(n) => Cached(n)'
               /\ Available(n) => Available(n)'
               /\ timer.name = n => timer'.name = n
               /\ \A d \in Contexts : Carries(d, n) => Carries(d, n)'
    <3>1. /\ Cached(n) => Cached(n)'
          /\ Available(n) => Available(n)'
          /\ timer.name = n => timer'.name = n
      BY <1>9, <2>1, <2>3 DEF OpenSucceeds, Cached, Available, TypeOK, Hands, At, WithName
    <3>2. \A d \in Contexts : Carries(d, n) => Carries(d, n)'
      BY <1>9, <2>1, <2>3 DEF OpenSucceeds, Carries, InDatabaseCall, TypeOK, Filed, Hands, WithName, At, Outside
    <3> QED BY <3>1, <3>2
  <2>4. closed' = closed
    BY <1>9 DEF OpenSucceeds
  <2> QED BY <2>2, <2>3, <2>4 DEF NeverLost
<1>10. ASSUME NEW c \in Contexts, OpenFails(c) PROVE NeverLost'
  BY <1>10 DEF OpenFails, NeverLost, Cached, Available, Carries, TypeOK, Filed, Hands, WithName, At, Outside
<1>11. ASSUME NEW c \in Contexts, Restore(c) PROVE NeverLost'
  <2>0. /\ Push(availableNames[call[c].id], call[c].name) \in Seq(Names)
        /\ InStack(Push(availableNames[call[c].id], call[c].name)) = InStack(availableNames[call[c].id]) \cup {call[c].name}
        /\ NoDuplicate(Push(availableNames[call[c].id], call[c].name))
    <3>1. call[c].name \in Names /\ availableNames[call[c].id] \in Seq(Names)
      BY <1>11 DEF Restore, TypeOK, Hands, WithName
    <3>2. call[c].name \notin InStack(availableNames[call[c].id]) /\ NoDuplicate(availableNames[call[c].id])
      BY <1>11, <3>1 DEF Restore, Hands, NeverShared, Cached, Available, Carries
    <3> QED BY <3>1, <3>2, PushFacts
  <2>1. PICK m \in Names : m = call[c].name
    BY <1>11, <2>0 DEF Restore, TypeOK, Hands, WithName
  <2>2. Available(m)'
    BY <1>11, <2>1, <2>0 DEF Restore, Cached, Available, Carries, TypeOK, Filed, Hands, WithName, At, Outside
  <2>3. ASSUME NEW n \in Names, n # m
        PROVE  /\ Cached(n) => Cached(n)'
               /\ Available(n) => Available(n)'
               /\ timer.name = n => timer'.name = n
               /\ \A d \in Contexts : Carries(d, n) => Carries(d, n)'
    <3>1. /\ Cached(n) => Cached(n)'
          /\ Available(n) => Available(n)'
          /\ timer.name = n => timer'.name = n
      BY <1>11, <2>1, <2>3, <2>0 DEF Restore, Cached, Available, TypeOK, Hands, At, WithName
    <3>2. \A d \in Contexts : Carries(d, n) => Carries(d, n)'
      BY <1>11, <2>1, <2>3, <2>0 DEF Restore, Carries, InDatabaseCall, TypeOK, Filed, Hands, WithName, At, Outside
    <3> QED BY <3>1, <3>2
  <2>4. closed' = closed
    BY <1>11 DEF Restore
  <2> QED BY <2>2, <2>3, <2>4 DEF NeverLost
<1>12. ASSUME NEW c \in Contexts, Release(c) PROVE NeverLost'
  BY <1>12 DEF Release, NeverLost, Cached, Available, Carries, TypeOK, Filed, Hands, WithName, At, Outside
<1>13. ASSUME NEW c \in Contexts, PoolNext(c) PROVE NeverLost'
  <2>0. PICK id \in DatabaseIds :
          /\ held[c][id] # Nobody /\ call[c].at = "release"
          /\ call' = [call EXCEPT ![c] = At("push", IdOf(held[c][id]), held[c][id])]
          /\ held' = [held EXCEPT ![c] = [@ EXCEPT ![id] = Nobody]]
    BY <1>13 DEF PoolNext
  <2>1. PICK m \in Names : m = held[c][id]
    BY <1>13, <2>0 DEF PoolNext, TypeOK, Hands, WithName
  <2>2. Carries(c, m)'
    BY <1>13, <2>1, <2>0 DEF PoolNext, Cached, Available, Carries, TypeOK, Filed, Hands, WithName, At, Outside
  <2>3. ASSUME NEW n \in Names, n # m
        PROVE  /\ Cached(n) => Cached(n)'
               /\ Available(n) => Available(n)'
               /\ timer.name = n => timer'.name = n
               /\ \A d \in Contexts : Carries(d, n) => Carries(d, n)'
    <3>1. /\ Cached(n) => Cached(n)'
          /\ Available(n) => Available(n)'
          /\ timer.name = n => timer'.name = n
      BY <1>13, <2>1, <2>3, <2>0 DEF PoolNext, Cached, Available, TypeOK, Hands, At, WithName
    <3>2. \A d \in Contexts : Carries(d, n) => Carries(d, n)'
      BY <1>13, <2>1, <2>3, <2>0 DEF PoolNext, Carries, InDatabaseCall, TypeOK, Filed, Hands, WithName, At, Outside
    <3> QED BY <3>1, <3>2
  <2>4. closed' = closed
    BY <1>13 DEF PoolNext
  <2> QED BY <2>2, <2>3, <2>4 DEF NeverLost
<1>14. ASSUME NEW c \in Contexts, Released(c) PROVE NeverLost'
  BY <1>14 DEF Released, NeverLost, Cached, Available, Carries, TypeOK, Filed, Hands, WithName, At, Outside
<1>15. ASSUME NEW c \in Contexts, PoolPush(c) PROVE NeverLost'
  <2>0. /\ Push(cachedDatabase[call[c].id], call[c].name) \in Seq(Names)
        /\ InStack(Push(cachedDatabase[call[c].id], call[c].name)) = InStack(cachedDatabase[call[c].id]) \cup {call[c].name}
        /\ NoDuplicate(Push(cachedDatabase[call[c].id], call[c].name))
    <3>1. call[c].name \in Names /\ cachedDatabase[call[c].id] \in Seq(Names)
      BY <1>15 DEF PoolPush, TypeOK, Hands, WithName
    <3>2. call[c].name \notin InStack(cachedDatabase[call[c].id]) /\ NoDuplicate(cachedDatabase[call[c].id])
      BY <1>15, <3>1 DEF PoolPush, Hands, NeverShared, Cached, Available, Carries
    <3> QED BY <3>1, <3>2, PushFacts
  <2>1. PICK m \in Names : m = call[c].name
    BY <1>15, <2>0 DEF PoolPush, TypeOK, Hands, WithName
  <2>2. Cached(m)'
    BY <1>15, <2>1, <2>0 DEF PoolPush, Cached, Available, Carries, TypeOK, Filed, Hands, WithName, At, Outside
  <2>3. ASSUME NEW n \in Names, n # m
        PROVE  /\ Cached(n) => Cached(n)'
               /\ Available(n) => Available(n)'
               /\ timer.name = n => timer'.name = n
               /\ \A d \in Contexts : Carries(d, n) => Carries(d, n)'
    <3>1. /\ Cached(n) => Cached(n)'
          /\ Available(n) => Available(n)'
          /\ timer.name = n => timer'.name = n
      BY <1>15, <2>1, <2>3, <2>0 DEF PoolPush, Cached, Available, TypeOK, Hands, At, WithName
    <3>2. \A d \in Contexts : Carries(d, n) => Carries(d, n)'
      BY <1>15, <2>1, <2>3, <2>0 DEF PoolPush, Carries, InDatabaseCall, TypeOK, Filed, Hands, WithName, At, Outside
    <3> QED BY <3>1, <3>2
  <2>4. closed' = closed
    BY <1>15 DEF PoolPush
  <2> QED BY <2>2, <2>3, <2>4 DEF NeverLost
<1>16. ASSUME NEW c \in Contexts, PoolStamp(c) PROVE NeverLost'
  BY <1>16 DEF PoolStamp, NeverLost, Cached, Available, Carries, TypeOK, Filed, Hands, WithName, At, Outside
<1>17. ASSUME TimerStart PROVE NeverLost'
  BY <1>17 DEF TimerStart, NeverLost, Cached, Available, Carries, TypeOK, Filed, Hands, WithName, At, Outside
<1>18. ASSUME TimerLoad PROVE NeverLost'
  BY <1>18 DEF TimerLoad, NeverLost, Cached, Available, Carries, TypeOK, Filed, Hands, WithName, At, Outside
<1>19. ASSUME TimerSkip PROVE NeverLost'
  <2>0. \/ NextTimer(timer.id) = Outside
        \/ \E j \in DatabaseIds : NextTimer(timer.id) = At("load", j, Nobody)
    BY <1>19, NextTimerFacts DEF TimerSkip, Hands
  <2> QED
    BY <1>19, <2>0 DEF TimerSkip, NeverLost, Cached, Available, Carries, TypeOK, Filed, Hands, WithName, At, Outside
<1>20. ASSUME TimerPop PROVE NeverLost'
  <2>0. /\ Top(cachedDatabase[timer.id]) \in Names /\ Top(cachedDatabase[timer.id]) \in InStack(cachedDatabase[timer.id])
        /\ Popped(cachedDatabase[timer.id]) \in Seq(Names)
        /\ InStack(cachedDatabase[timer.id]) = InStack(Popped(cachedDatabase[timer.id])) \cup {Top(cachedDatabase[timer.id])}
        /\ NoDuplicate(Popped(cachedDatabase[timer.id]))
        /\ Top(cachedDatabase[timer.id]) \notin InStack(Popped(cachedDatabase[timer.id]))
    <3>1. cachedDatabase[timer.id] \in Seq(Names) /\ cachedDatabase[timer.id] # <<>> /\ NoDuplicate(cachedDatabase[timer.id])
      BY <1>20 DEF TimerPop, TypeOK, Hands, NeverShared
    <3> QED BY <3>1, PopFacts
  <2>1. PICK m \in Names : m = Top(cachedDatabase[timer.id])
    BY <1>20, <2>0 DEF TimerPop, TypeOK, Hands, WithName
  <2>2. timer'.name = m
    BY <1>20, <2>1, <2>0 DEF TimerPop, Cached, Available, Carries, TypeOK, Filed, Hands, WithName, At, Outside
  <2>3. ASSUME NEW n \in Names, n # m
        PROVE  /\ Cached(n) => Cached(n)'
               /\ Available(n) => Available(n)'
               /\ timer.name = n => timer'.name = n
               /\ \A d \in Contexts : Carries(d, n) => Carries(d, n)'
    <3>1. /\ Cached(n) => Cached(n)'
          /\ Available(n) => Available(n)'
          /\ timer.name = n => timer'.name = n
      BY <1>20, <2>1, <2>3, <2>0 DEF TimerPop, Cached, Available, TypeOK, Hands, At, WithName
    <3>2. \A d \in Contexts : Carries(d, n) => Carries(d, n)'
      BY <1>20, <2>1, <2>3, <2>0 DEF TimerPop, Carries, InDatabaseCall, TypeOK, Filed, Hands, WithName, At, Outside
    <3> QED BY <3>1, <3>2
  <2>4. closed' = closed
    BY <1>20 DEF TimerPop
  <2> QED BY <2>2, <2>3, <2>4 DEF NeverLost
<1>21. ASSUME TimerPopEmpty PROVE NeverLost'
  <2>0. \/ NextTimer(timer.id) = Outside
        \/ \E j \in DatabaseIds : NextTimer(timer.id) = At("load", j, Nobody)
    BY <1>21, NextTimerFacts DEF TimerPopEmpty, Hands
  <2> QED
    BY <1>21, <2>0 DEF TimerPopEmpty, NeverLost, Cached, Available, Carries, TypeOK, Filed, Hands, WithName, At, Outside
<1>22. ASSUME TimerClose PROVE NeverLost'
  BY <1>22 DEF TimerClose, NeverLost, Cached, Available, Carries, TypeOK, Filed, Hands, WithName, At, Outside
<1>23. ASSUME TimerPush PROVE NeverLost'
  <2>0. /\ Push(availableNames[timer.id], timer.name) \in Seq(Names)
        /\ InStack(Push(availableNames[timer.id], timer.name)) = InStack(availableNames[timer.id]) \cup {timer.name}
        /\ NoDuplicate(Push(availableNames[timer.id], timer.name))
    <3>1. timer.name \in Names /\ availableNames[timer.id] \in Seq(Names)
      BY <1>23 DEF TimerPush, TypeOK, Hands, WithName
    <3>2. timer.name \notin InStack(availableNames[timer.id]) /\ NoDuplicate(availableNames[timer.id])
      BY <1>23, <3>1 DEF TimerPush, Hands, NeverShared, Cached, Available, Carries
    <3> QED BY <3>1, <3>2, PushFacts
  <2>1. PICK m \in Names : m = timer.name
    BY <1>23, <2>0 DEF TimerPush, TypeOK, Hands, WithName
  <2>2. Available(m)'
    BY <1>23, <2>1, <2>0 DEF TimerPush, Cached, Available, Carries, TypeOK, Filed, Hands, WithName, At, Outside
  <2>3. ASSUME NEW n \in Names, n # m
        PROVE  /\ Cached(n) => Cached(n)'
               /\ Available(n) => Available(n)'
               /\ timer.name = n => timer'.name = n
               /\ \A d \in Contexts : Carries(d, n) => Carries(d, n)'
    <3>1. /\ Cached(n) => Cached(n)'
          /\ Available(n) => Available(n)'
          /\ timer.name = n => timer'.name = n
      BY <1>23, <2>1, <2>3, <2>0 DEF TimerPush, Cached, Available, TypeOK, Hands, At, WithName
    <3>2. \A d \in Contexts : Carries(d, n) => Carries(d, n)'
      BY <1>23, <2>1, <2>3, <2>0 DEF TimerPush, Carries, InDatabaseCall, TypeOK, Filed, Hands, WithName, At, Outside
    <3> QED BY <3>1, <3>2
  <2>4. closed' = closed
    BY <1>23 DEF TimerPush
  <2> QED BY <2>2, <2>3, <2>4 DEF NeverLost
<1>24. ASSUME NEW id \in DatabaseIds, Idle(id) PROVE NeverLost'
  BY <1>24 DEF Idle, NeverLost, Cached, Available, Carries, TypeOK, Filed, Hands, WithName, At, Outside
<1>25. ASSUME NEW n \in Names, Drop(n) PROVE NeverLost'
  BY <1>25 DEF Drop, NeverLost, Cached, Available, Carries, TypeOK, Filed, Hands, WithName, At, Outside
<1>26. ASSUME Destroy PROVE NeverLost'
  BY <1>26 DEF Destroy, NeverLost, Cached, Available, Carries, TypeOK, Filed, Hands, WithName, At, Outside
<1>27. ASSUME UNCHANGED vars PROVE NeverLost'
  BY <1>27 DEF vars, NeverLost, Cached, Available, Carries, TypeOK, Filed, Hands, WithName, At, Outside
<1> QED
  BY <1>1, <1>2, <1>3, <1>4, <1>5, <1>6, <1>7, <1>8, <1>9, <1>10, <1>11, <1>12, <1>13, <1>14, <1>15, <1>16, <1>17, <1>18, <1>19, <1>20, <1>21, <1>22, <1>23, <1>24, <1>25, <1>26, <1>27
     DEF Next, DatabaseStep, ReleaseStep, TimerStep

\* The SQL pool keeps all its connections until it is destroyed: none is lost
\* to a failed open(), to a closed connection or to the timer.
THEOREM SqlPoolNeverLost == Kind = "sql" /\ Spec => []NeverLost
<1>1. Init => NeverLost
  <2> SUFFICES ASSUME Init, NEW n \in Names PROVE Available(n)
    BY DEF NeverLost
  <2>1. PICK id \in DatabaseIds, i \in 1 .. MaxConnects : n = <<id, i>>
    BY DEF Names
  <2>2. availableNames[id] = [k \in 1 .. MaxConnects |-> <<id, k>>]
    BY DEF Init
  <2>3. Len(availableNames[id]) = MaxConnects
    BY <2>2, PoolAssumptions
  <2>4. availableNames[id][i] = n
    BY <2>1, <2>2
  <2> QED BY <2>1, <2>3, <2>4 DEF Available, InStack, IdOf
<1>2. CASE Kind = "sql"
  <2>1. PoolInv /\ NeverLost /\ [Next]_vars => NeverLost'
    BY <1>2, NextNeverLost
  <2> QED BY <1>1, <2>1, InitPoolInv, NextPoolInv, PTL DEF Spec
<1>3. CASE Kind # "sql"
  BY <1>3
<1> QED BY <1>2, <1>3

-----------------------------------------------------------------------------
(* Refinement of ConnectionPool.                                            *)

\* The refinement mapping is a function: a name has at most one owner.
LEMMA OwnerFacts ==
    ASSUME PoolInv
    PROVE  /\ DOMAIN Owner = Names
           /\ \A n \in Names, c \in Contexts : Owner[n] = c <=> Owns(c, n)
           /\ \A n \in Names : Owner[n] = Nobody <=> \A c \in Contexts : ~Owns(c, n)
<1>1. \A n \in Names : \A c, d \in Contexts : Owns(c, n) /\ Owns(d, n) => c = d
  BY DEF PoolInv, NeverShared, Carries, Owns
<1> QED BY <1>1, PoolAssumptions DEF Owner

\* Steps that change nobody's ownership leave the abstract pool alone.
LEMMA SameOwner ==
    ASSUME PoolInv, PoolInv',
           \A n \in Names, c \in Contexts : Owns(c, n)' <=> Owns(c, n)
    PROVE  UNCHANGED Owner
  BY PoolAssumptions DEF Owner

\* Only database() returning and pool() pushing change an owner.
LEMMA StepRefines ==
    PoolInv /\ PoolInv' /\ [Next]_vars => [Abstract!Next]_Owner
<1> SUFFICES ASSUME PoolInv, PoolInv', [Next]_vars
             PROVE  Abstract!Next \/ UNCHANGED Owner
  OBVIOUS
<1> USE PoolAssumptions, NameFacts
<1>1. ASSUME NEW c \in Contexts, NEW id \in DatabaseIds, GetDatabase(c, id) PROVE UNCHANGED Owner
  <2>1. \A n \in Names, d \in Contexts : Owns(d, n)' <=> Owns(d, n)
    BY <1>1 DEF GetDatabase, Owns, PoolInv, TypeOK, Filed, Hands, WithName, At, Outside
  <2> QED BY <2>1, SameOwner
<1>2. ASSUME NEW c \in Contexts, PopCache(c) PROVE UNCHANGED Owner
  <2>1. \A n \in Names, d \in Contexts : Owns(d, n)' <=> Owns(d, n)
    BY <1>2 DEF PopCache, Owns, PoolInv, TypeOK, Filed, Hands, WithName, At, Outside
  <2> QED BY <2>1, SameOwner
<1>3. ASSUME NEW c \in Contexts, PopCacheEmpty(c) PROVE UNCHANGED Owner
  <2>1. \A n \in Names, d \in Contexts : Owns(d, n)' <=> Owns(d, n)
    BY <1>3 DEF PopCacheEmpty, Owns, PoolInv, TypeOK, Filed, Hands, WithName, At, Outside
  <2> QED BY <2>1, SameOwner
<1>4. ASSUME NEW c \in Contexts, RejectCached(c) PROVE UNCHANGED Owner
  <2>1. \A n \in Names, d \in Contexts : Owns(d, n)' <=> Owns(d, n)
    BY <1>4 DEF RejectCached, Owns, PoolInv, TypeOK, Filed, Hands, WithName, At, Outside
  <2> QED BY <2>1, SameOwner
<1>5. ASSUME NEW c \in Contexts, PushBack(c) PROVE UNCHANGED Owner
  <2>1. \A n \in Names, d \in Contexts : Owns(d, n)' <=> Owns(d, n)
    BY <1>5 DEF PushBack, Owns, PoolInv, TypeOK, Filed, Hands, WithName, At, Outside
  <2> QED BY <2>1, SameOwner
<1>6. ASSUME NEW c \in Contexts, PopAvailable(c) PROVE UNCHANGED Owner
  <2>1. \A n \in Names, d \in Contexts : Owns(d, n)' <=> Owns(d, n)
    BY <1>6 DEF PopAvailable, Owns, PoolInv, TypeOK, Filed, Hands, WithName, At, Outside
  <2> QED BY <2>1, SameOwner
<1>7. ASSUME NEW c \in Contexts, PopAvailableEmpty(c) PROVE UNCHANGED Owner
  <2>1. \A n \in Names, d \in Contexts : Owns(d, n)' <=> Owns(d, n)
    BY <1>7 DEF PopAvailableEmpty, Owns, PoolInv, TypeOK, Filed, Hands, WithName, At, Outside
  <2> QED BY <2>1, SameOwner
<1>8. ASSUME NEW c \in Contexts, OpenFails(c) PROVE UNCHANGED Owner
  <2>1. \A n \in Names, d \in Contexts : Owns(d, n)' <=> Owns(d, n)
    BY <1>8 DEF OpenFails, Owns, PoolInv, TypeOK, Filed, Hands, WithName, At, Outside
  <2> QED BY <2>1, SameOwner
<1>9. ASSUME NEW c \in Contexts, Restore(c) PROVE UNCHANGED Owner
  <2>1. \A n \in Names, d \in Contexts : Owns(d, n)' <=> Owns(d, n)
    BY <1>9 DEF Restore, Owns, PoolInv, TypeOK, Filed, Hands, WithName, At, Outside
  <2> QED BY <2>1, SameOwner
<1>10. ASSUME NEW c \in Contexts, Release(c) PROVE UNCHANGED Owner
  <2>1. \A n \in Names, d \in Contexts : Owns(d, n)' <=> Owns(d, n)
    BY <1>10 DEF Release, Owns, PoolInv, TypeOK, Filed, Hands, WithName, At, Outside
  <2> QED BY <2>1, SameOwner
<1>11. ASSUME NEW c \in Contexts, PoolNext(c) PROVE UNCHANGED Owner
  <2>1. \A n \in Names, d \in Contexts : Owns(d, n)' <=> Owns(d, n)
    BY <1>11 DEF PoolNext, Owns, PoolInv, TypeOK, Filed, Hands, WithName, At, Outside
  <2> QED BY <2>1, SameOwner
<1>12. ASSUME NEW c \in Contexts, Released(c) PROVE UNCHANGED Owner
  <2>1. \A n \in Names, d \in Contexts : Owns(d, n)' <=> Owns(d, n)
    BY <1>12 DEF Released, Owns, PoolInv, TypeOK, Filed, Hands, WithName, At, Outside
  <2> QED BY <2>1, SameOwner
<1>13. ASSUME NEW c \in Contexts, PoolStamp(c) PROVE UNCHANGED Owner
  <2>1. \A n \in Names, d \in Contexts : Owns(d, n)' <=> Owns(d, n)
    BY <1>13 DEF PoolStamp, Owns, PoolInv, TypeOK, Filed, Hands, WithName, At, Outside
  <2> QED BY <2>1, SameOwner
<1>14. ASSUME TimerStart PROVE UNCHANGED Owner
  <2>1. \A n \in Names, d \in Contexts : Owns(d, n)' <=> Owns(d, n)
    BY <1>14 DEF TimerStart, Owns, PoolInv, TypeOK, Filed, Hands, WithName, At, Outside
  <2> QED BY <2>1, SameOwner
<1>15. ASSUME TimerLoad PROVE UNCHANGED Owner
  <2>1. \A n \in Names, d \in Contexts : Owns(d, n)' <=> Owns(d, n)
    BY <1>15 DEF TimerLoad, Owns, PoolInv, TypeOK, Filed, Hands, WithName, At, Outside
  <2> QED BY <2>1, SameOwner
<1>16. ASSUME TimerSkip PROVE UNCHANGED Owner
  <2>1. \A n \in Names, d \in Contexts : Owns(d, n)' <=> Owns(d, n)
    BY <1>16 DEF TimerSkip, Owns, PoolInv, TypeOK, Filed, Hands, WithName, At, Outside
  <2> QED BY <2>1, SameOwner
<1>17. ASSUME TimerPop PROVE UNCHANGED Owner
  <2>1. \A n \in Names, d \in Contexts : Owns(d, n)' <=> Owns(d, n)
    BY <1>17 DEF TimerPop, Owns, PoolInv, TypeOK, Filed, Hands, WithName, At, Outside
  <2> QED BY <2>1, SameOwner
<1>18. ASSUME TimerPopEmpty PROVE UNCHANGED Owner
  <2>1. \A n \in Names, d \in Contexts : Owns(d, n)' <=> Owns(d, n)
    BY <1>18 DEF TimerPopEmpty, Owns, PoolInv, TypeOK, Filed, Hands, WithName, At, Outside
  <2> QED BY <2>1, SameOwner
<1>19. ASSUME TimerClose PROVE UNCHANGED Owner
  <2>1. \A n \in Names, d \in Contexts : Owns(d, n)' <=> Owns(d, n)
    BY <1>19 DEF TimerClose, Owns, PoolInv, TypeOK, Filed, Hands, WithName, At, Outside
  <2> QED BY <2>1, SameOwner
<1>20. ASSUME TimerPush PROVE UNCHANGED Owner
  <2>1. \A n \in Names, d \in Contexts : Owns(d, n)' <=> Owns(d, n)
    BY <1>20 DEF TimerPush, Owns, PoolInv, TypeOK, Filed, Hands, WithName, At, Outside
  <2> QED BY <2>1, SameOwner
<1>21. ASSUME NEW id \in DatabaseIds, Idle(id) PROVE UNCHANGED Owner
  <2>1. \A n \in Names, d \in Contexts : Owns(d, n)' <=> Owns(d, n)
    BY <1>21 DEF Idle, Owns, PoolInv, TypeOK, Filed, Hands, WithName, At, Outside
  <2> QED BY <2>1, SameOwner
<1>22. ASSUME NEW m \in Names, Drop(m) PROVE UNCHANGED Owner
  <2>1. \A n \in Names, d \in Contexts : Owns(d, n)' <=> Owns(d, n)
    BY <1>22 DEF Drop, Owns, PoolInv, TypeOK, Filed, Hands, WithName, At, Outside
  <2> QED BY <2>1, SameOwner
<1>23. ASSUME Destroy PROVE UNCHANGED Owner
  <2>1. \A n \in Names, d \in Contexts : Owns(d, n)' <=> Owns(d, n)
    BY <1>23 DEF Destroy, Owns, PoolInv, TypeOK, Filed, Hands, WithName, At, Outside
  <2> QED BY <2>1, SameOwner
<1>24. ASSUME UNCHANGED vars PROVE UNCHANGED Owner
  <2>1. \A n \in Names, d \in Contexts : Owns(d, n)' <=> Owns(d, n)
    BY <1>24 DEF vars, Owns, PoolInv, TypeOK, Filed, Hands, WithName, At, Outside
  <2> QED BY <2>1, SameOwner
<1>25. ASSUME NEW c \in Contexts, UseCached(c) PROVE Abstract!Next
  <2>1. PICK n \in Names : n = call[c].name
    BY <1>25 DEF UseCached, PoolInv, TypeOK, Hands, WithName
  <2>2. \A d \in Contexts : ~Owns(d, n)
    BY <1>25, <2>1 DEF UseCached, Owns, PoolInv, NeverShared, Carries
  <2>3. \A k \in Names, d \in Contexts : Owns(d, k)' <=> Owns(d, k) \/ (d = c /\ k = n)
    BY <1>25, <2>1 DEF UseCached, Owns, PoolInv, TypeOK, Hands, Outside, InDatabaseCall, WithName
  <2>4. Owner[n] = Nobody /\ Owner' = [Owner EXCEPT ![n] = c]
    BY <2>2, <2>3 DEF Owner
  <2> QED BY <2>4 DEF Abstract!Next, Abstract!Acquire
<1>26. ASSUME NEW c \in Contexts, OpenSucceeds(c) PROVE Abstract!Next
  <2>1. PICK n \in Names : n = call[c].name
    BY <1>26 DEF OpenSucceeds, PoolInv, TypeOK, Hands, WithName
  <2>2. \A d \in Contexts : ~Owns(d, n)
    BY <1>26, <2>1 DEF OpenSucceeds, Owns, PoolInv, NeverShared, Carries
  <2>3. \A k \in Names, d \in Contexts : Owns(d, k)' <=> Owns(d, k) \/ (d = c /\ k = n)
    BY <1>26, <2>1 DEF OpenSucceeds, Owns, PoolInv, TypeOK, Hands, Outside, InDatabaseCall, WithName
  <2>4. Owner[n] = Nobody /\ Owner' = [Owner EXCEPT ![n] = c]
    BY <2>2, <2>3 DEF Owner
  <2> QED BY <2>4 DEF Abstract!Next, Abstract!Acquire
<1>27. ASSUME NEW c \in Contexts, PoolPush(c) PROVE Abstract!Next
  <2>1. PICK n \in Names : n = call[c].name
    BY <1>27 DEF PoolPush, PoolInv, TypeOK, Hands, WithName
  <2>2. Owns(c, n)
    BY <1>27, <2>1 DEF PoolPush, Owns
  <2>3. \A k \in Names, d \in Contexts : Owns(d, k)' <=> Owns(d, k) /\ k # n
    <3>1. \A d \in Contexts : held[d][IdOf(n)] # n
      BY <2>1, <2>2 DEF Owns, PoolInv, NeverShared, Carries
    <3>2. \A d \in Contexts : call[d].name = n => d = c
      BY <2>1 DEF PoolInv, NeverShared, Carries
    <3>3. \A d \in Contexts : d # c => call'[d] = call[d]
      BY <1>27 DEF PoolPush, PoolInv, TypeOK
    <3>4. call'[c].at = "stamp" /\ held' = held /\ call[c].name = n
      BY <1>27, <2>1 DEF PoolPush, PoolInv, TypeOK, At
    <3> QED BY <3>1, <3>2, <3>3, <3>4 DEF Owns
  <2>4. Owner[n] = c
    BY <2>2, OwnerFacts
  <2>5. Owner' = [Owner EXCEPT ![n] = Nobody]
    BY <2>3 DEF Owner
  <2> QED BY <2>4, <2>5 DEF Abstract!Next, Abstract!Return
<1> QED
  BY <1>1, <1>2, <1>3, <1>4, <1>5, <1>6, <1>7, <1>8, <1>9, <1>10, <1>11, <1>12, <1>13, <1>14, <1>15, <1>16, <1>17, <1>18, <1>19, <1>20, <1>21, <1>22, <1>23, <1>24, <1>25, <1>26, <1>27
     DEF Next, DatabaseStep, ReleaseStep, TimerStep

\* Both pools implement the abstract pool of exclusively owned connections.
THEOREM PoolImplementsConnectionPool == Spec => ImplementsConnectionPool
<1>1. Init => Abstract!Init
  BY NameFacts, PoolAssumptions DEF Init, Abstract!Init, Owner, Owns, Outside
<1> QED
  BY <1>1, InitPoolInv, NextPoolInv, StepRefines, PTL
     DEF Spec, ImplementsConnectionPool, Abstract!Spec
=============================================================================
