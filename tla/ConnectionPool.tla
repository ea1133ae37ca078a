--------------------------- MODULE ConnectionPool ---------------------------
(***************************************************************************)
(* _PostgresAdapterPool: threads share at most MaxSize connections.  One   *)
(* step is what a thread does while it holds the pool's lock; connecting,  *)
(* using and rolling back a connection happen between two steps.           *)
(***************************************************************************)
EXTENDS Naturals, FiniteSets

CONSTANTS
    Thread,     \* threads that call get_db_connection
    MaxSize     \* _max_size

ASSUME PoolAssumption == MaxSize \in Nat \ {0} /\ IsFiniteSet(Thread)

VARIABLES
    thread,     \* what each thread is doing
    spare,      \* the length of _idle_raw_connections
    total,      \* _total_connections
    disposed    \* _disposed

poolVars == <<thread, spare, total, disposed>>

\* away:     holds no connection      asleep: in _condition.wait
\* awake:    its wait is over         dialing: connects, the slot is taken
\* using:    has a connection
PoolTypeOK ==
    /\ thread \in [Thread -> {"away", "asleep", "awake", "dialing", "using"}]
    /\ spare \in Nat /\ total \in Nat
    /\ disposed \in BOOLEAN

Asleep == {t \in Thread : thread[t] = "asleep"}
Awake == {t \in Thread : thread[t] = "awake"}
Lent == {t \in Thread : thread[t] \in {"dialing", "using"}}

PoolInit ==
    /\ thread = [t \in Thread |-> "away"]
    /\ spare = 0 /\ total = 0 /\ disposed = FALSE

(* t goes on to state s, and n calls of notify wake that many sleepers. *)
Proceed(t, s, n) ==
    \E woken \in SUBSET Asleep :
        /\ \/ Cardinality(woken) = n
           \/ Cardinality(woken) < n /\ woken = Asleep
        /\ thread' = [u \in Thread |-> IF u = t THEN s
                                       ELSE IF u \in woken THEN "awake" ELSE thread[u]]

(* acquire, once the lock is held: connections the server has closed are   *)
(* dropped until one is open, otherwise a free slot is taken.              *)
TakeSpare(t) ==
    /\ thread[t] \in {"away", "awake"} /\ ~disposed
    /\ \E dead \in 0..spare :
        /\ dead < spare
        /\ spare' = spare - dead - 1
        /\ total' = total - dead
        /\ Proceed(t, "using", dead)
    /\ UNCHANGED disposed

TakeSlot(t) ==
    /\ thread[t] \in {"away", "awake"} /\ ~disposed
    /\ total - spare < MaxSize
    /\ spare' = 0
    /\ total' = total - spare + 1
    /\ Proceed(t, "dialing", spare)
    /\ UNCHANGED disposed

(* Nothing is to be had: wait, or raise TimeoutError after the deadline. *)
WaitOrRaise(t) ==
    /\ thread[t] \in {"away", "awake"} /\ ~disposed
    /\ spare = 0 /\ total >= MaxSize
    /\ \E s \in {"asleep", "away"} : thread' = [thread EXCEPT ![t] = s]
    /\ UNCHANGED <<spare, total, disposed>>

RaiseDisposed(t) ==
    /\ thread[t] = "awake" /\ disposed
    /\ thread' = [thread EXCEPT ![t] = "away"]
    /\ UNCHANGED <<spare, total, disposed>>

(* The deadline passes in wait. *)
WaitTimesOut(t) ==
    /\ thread[t] = "asleep"
    /\ thread' = [thread EXCEPT ![t] = "awake"]
    /\ UNCHANGED <<spare, total, disposed>>

Dialed(t) ==
    /\ thread[t] = "dialing"
    /\ thread' = [thread EXCEPT ![t] = "using"]
    /\ UNCHANGED <<spare, total, disposed>>

(* Broken: the slot is given back and nobody is told. *)
DialFailsQuietly(t) ==
    /\ thread[t] = "dialing"
    /\ total' = total - 1
    /\ thread' = [thread EXCEPT ![t] = "away"]
    /\ UNCHANGED <<spare, disposed>>

(* connect_postgres_raw raises. *)
DialFails(t) ==
    /\ thread[t] = "dialing"
    /\ total' = total - 1
    /\ Proceed(t, "away", 1)
    /\ UNCHANGED <<spare, disposed>>

(* Broken: a connection that cannot be used again keeps its slot. *)
ReleaseLeaks(t) ==
    /\ thread[t] = "using"
    /\ \/ ~disposed /\ spare < MaxSize /\ spare' = spare + 1 /\ UNCHANGED total
       \/ UNCHANGED <<spare, total>>
    /\ Proceed(t, "away", 1)
    /\ UNCHANGED disposed

(* release: back to the idle ones, or closed when it is broken, cannot be  *)
(* rolled back, or the pool is disposed.                                   *)
Release(t) ==
    /\ thread[t] = "using"
    /\ \/ ~disposed /\ spare < MaxSize /\ spare' = spare + 1 /\ UNCHANGED total
       \/ total' = total - 1 /\ UNCHANGED spare
    /\ Proceed(t, "away", 1)
    /\ UNCHANGED disposed

(* clear_postgres_connection_pools. *)
Dispose ==
    /\ ~disposed /\ disposed' = TRUE
    /\ total' = total - spare /\ spare' = 0
    /\ thread' = [t \in Thread |-> IF t \in Asleep THEN "awake" ELSE thread[t]]

PoolNext ==
    \/ \E t \in Thread :
        \/ TakeSpare(t) \/ TakeSlot(t) \/ WaitOrRaise(t) \/ RaiseDisposed(t)
        \/ WaitTimesOut(t) \/ Dialed(t) \/ DialFails(t) \/ Release(t)
    \/ Dispose

PoolSpec == PoolInit /\ [][PoolNext]_poolVars

-----------------------------------------------------------------------------
(* The counter is exact, whatever fails between the steps and also while   *)
(* connections come back to a disposed pool: no slot leaks, and PostgreSQL  *)
(* never sees more than MaxSize connections of this pool.                  *)
PoolCount ==
    /\ total = Cardinality(Lent) + spare
    /\ total <= MaxSize

(* No wake-up is lost: while a thread sleeps in acquire, every connection  *)
(* or slot that is free has a thread awake that is about to look at it.    *)
PoolWakes == Asleep # {} => spare + (MaxSize - total) <= Cardinality(Awake)
=============================================================================
