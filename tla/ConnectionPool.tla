--------------------------- MODULE ConnectionPool ---------------------------
(***************************************************************************)
(* What TSqlDatabasePool and TKvsDatabasePool promise to the contexts that  *)
(* use them, with neither the two stacks nor the timer: every connection    *)
(* name is either free or owned by exactly one context, a context obtains   *)
(* a free one, and gives it back.  DatabasePool is shown to implement this. *)
(***************************************************************************)
CONSTANTS
    Contexts,   \* the TDatabaseContext objects that call the pool
    Names,      \* the connection names made by init()
    Nobody      \* the owner of a free name; not a context

VARIABLE owner  \* owner[n] is the context that holds connection n, or Nobody

TypeOK == owner \in [Names -> Contexts \cup {Nobody}]

Init == owner = [n \in Names |-> Nobody]

\* database(): a free connection becomes the caller's.
Acquire(c, n) ==
    /\ owner[n] = Nobody
    /\ owner' = [owner EXCEPT ![n] = c]

\* pool(): the holder, and nobody else, gives a connection back.
Return(c, n) ==
    /\ owner[n] = c
    /\ owner' = [owner EXCEPT ![n] = Nobody]

Next == \E c \in Contexts, n \in Names : Acquire(c, n) \/ Return(c, n)

Spec == Init /\ [][Next]_owner
=============================================================================
