--------------------------- MODULE ConnectionPool ---------------------------
(***************************************************************************)
(* bronx::db::ConnectionPool (database/core/connection_pool.cpp): a queue  *)
(* of open connections and a counter, both guarded by one mutex that is    *)
(* given up while a connection is pinged or opened.  An action is one      *)
(* critical section of a thread together with what follows it up to the    *)
(* next one.                                                               *)
(*                                                                         *)
(* pc      out      not using the pool                                     *)
(*         acquire  about to lock the mutex in acquire()                   *)
(*         ping     pinging hand[t], mutex given up                        *)
(*         open     opening a connection, mutex given up                   *)
(*         count    connection open, about to lock the mutex to count it   *)
(*         hold     acquire() has returned hand[t]                         *)
(*         failed   acquire() has returned nullptr                         *)
(***************************************************************************)
EXTENDS Integers, Sequences, FiniteSets

CONSTANTS
    Threads,
    Conns,           \* identities of connections
    NoConn,
    MaxConnections,  \* max_connections_
    Eager,           \* the most the constructor opens, 8 in the code
    MaxLost          \* bound on the connections that are never released

ASSUME MaxAssumption == MaxConnections \in Nat \ {0}
ASSUME EagerAssumption == Eager \in Nat
ASSUME ThreadsAssumption == IsFiniteSet(Threads)
ASSUME NoConnAssumption == NoConn \notin Conns

VARIABLES
    pool,    \* pool_, oldest first
    total,   \* total_connections_
    pc,
    hand,    \* the connection a thread has in hand
    idle,    \* pooled connections not used for more than 60 seconds
    lost     \* history: connections dropped by holders that never release()

vars == <<pool, total, pc, hand, idle, lost>>

Steps == {"out", "acquire", "ping", "open", "count", "hold", "failed"}

Pooled == {pool[i] : i \in 1 .. Len(pool)}
InHand == {t \in Threads : pc[t] \in {"ping", "count", "hold"}}
Open == Pooled \cup {hand[t] : t \in InHand}

TypeOK ==
    /\ pool \in Seq(Conns)
    /\ total \in Nat
    /\ pc \in [Threads -> Steps]
    /\ hand \in [Threads -> Conns \cup {NoConn}]
    /\ idle \subseteq Conns
    /\ lost \in Nat

\* The constructor opens up to Eager connections, fewer if some attempts fail.
Init ==
    /\ pool \in UNION {[1 .. n -> Conns] : n \in 0 .. Eager}
    /\ Len(pool) <= MaxConnections
    /\ \A i, j \in 1 .. Len(pool) : pool[i] = pool[j] => i = j
    /\ total = Len(pool)
    /\ pc = [t \in Threads |-> "out"]
    /\ hand = [t \in Threads |-> NoConn]
    /\ idle = {}
    /\ lost = 0

-----------------------------------------------------------------------------
Move(t, step, conn) ==
    /\ pc' = [pc EXCEPT ![t] = step]
    /\ hand' = [hand EXCEPT ![t] = conn]

\* Mutant: a closed connection is counted twice.
DecrementedTwice(n) == n - 2

\* total_connections_ > 0 ? total_connections_ - 1 : 0
Decremented(n) == IF n > 0 THEN n - 1 ELSE 0

\* The body of acquire()'s loop and the test that ends it: take the oldest
\* connection, and ping it only if it has been idle; with none left, go and
\* open one, at the maximum or not.
TakeFront(t) ==
    \/ /\ pool # <<>>
       /\ pool' = Tail(pool)
       /\ idle' = idle \ {Head(pool)}
       /\ Move(t, IF Head(pool) \in idle THEN "ping" ELSE "hold", Head(pool))
    \/ /\ pool = <<>>
       /\ Move(t, "open", NoConn)
       /\ UNCHANGED <<pool, idle>>

CallAcquire(t) ==
    /\ pc[t] = "out"
    /\ Move(t, "acquire", NoConn)
    /\ UNCHANGED <<pool, total, idle, lost>>

Acquire(t) ==
    /\ pc[t] = "acquire"
    /\ TakeFront(t)
    /\ UNCHANGED <<total, lost>>

PingAnswered(t) ==
    /\ pc[t] = "ping"
    /\ Move(t, "hold", hand[t])
    /\ UNCHANGED <<pool, total, idle, lost>>

\* Mutants: the counter is not told; the dead connection is put back.
PingFailedUncounted(t) ==
    /\ pc[t] = "ping"
    /\ TakeFront(t)
    /\ UNCHANGED <<total, lost>>

PingFailedRequeued(t) ==
    /\ pc[t] = "ping"
    /\ pool' = Append(pool, hand[t])
    /\ idle' = idle \cup {hand[t]}
    /\ Move(t, "acquire", NoConn)
    /\ UNCHANGED <<total, lost>>

\* A dead connection is closed and the loop goes on under the same lock.
PingFailed(t) ==
    /\ pc[t] = "ping"
    /\ total' = Decremented(total)
    /\ TakeFront(t)
    /\ UNCHANGED lost

OpenSucceeds(t) ==
    /\ pc[t] = "open"
    /\ \E c \in Conns \ Open : Move(t, "count", c)
    /\ UNCHANGED <<pool, total, idle, lost>>

OpenFails(t) ==
    /\ pc[t] = "open"
    /\ Move(t, "failed", NoConn)
    /\ UNCHANGED <<pool, total, idle, lost>>

Count(t) ==
    /\ pc[t] = "count"
    /\ total' = total + 1
    /\ Move(t, "hold", hand[t])
    /\ UNCHANGED <<pool, idle, lost>>

\* Mutants: one more than the maximum; the caller keeps its pointer.
ReleaseOneOver(t) ==
    /\ pc[t] = "hold"
    /\ \/ /\ Len(pool) <= MaxConnections
          /\ pool' = Append(pool, hand[t])
          /\ UNCHANGED total
       \/ /\ Len(pool) > MaxConnections
          /\ total' = Decremented(total)
          /\ UNCHANGED pool
    /\ Move(t, "out", NoConn)
    /\ UNCHANGED <<idle, lost>>

ReleaseKeeping(t) ==
    /\ pc[t] = "hold"
    /\ Len(pool) < MaxConnections
    /\ pool' = Append(pool, hand[t])
    /\ UNCHANGED <<total, pc, hand, idle, lost>>

\* release(): back to the pool, or closed when the pool is full.
Release(t) ==
    /\ pc[t] = "hold"
    /\ \/ /\ Len(pool) < MaxConnections
          /\ pool' = Append(pool, hand[t])
          /\ UNCHANGED total
       \/ /\ Len(pool) >= MaxConnections
          /\ total' = Decremented(total)
          /\ UNCHANGED pool
    /\ Move(t, "out", NoConn)
    /\ UNCHANGED <<idle, lost>>

\* release(nullptr) returns at once.
ReleaseNull(t) ==
    /\ pc[t] = "failed"
    /\ Move(t, "out", NoConn)
    /\ UNCHANGED <<pool, total, idle, lost>>

\* raid_operations and guild_settings_operations return without release():
\* the last shared_ptr closes the connection and the counter is not told.
Drop(t) ==
    /\ pc[t] = "hold"
    /\ lost < MaxLost
    /\ lost' = lost + 1
    /\ Move(t, "out", NoConn)
    /\ UNCHANGED <<pool, total, idle>>

\* A minute passes over the pooled connections.  A ping is over much earlier:
\* the read timeout of the connection bounds it.
GoIdle ==
    /\ \A t \in Threads : pc[t] # "ping"
    /\ \E C \in SUBSET Pooled : C # {} /\ idle' = idle \cup C
    /\ UNCHANGED <<pool, total, pc, hand, lost>>

-----------------------------------------------------------------------------
Next ==
    \/ \E t \in Threads :
        \/ CallAcquire(t) \/ Acquire(t)
        \/ PingAnswered(t) \/ PingFailed(t)
        \/ OpenSucceeds(t) \/ OpenFails(t) \/ Count(t)
        \/ Release(t) \/ ReleaseNull(t) \/ Drop(t)
    \/ GoIdle

Spec == Init /\ [][Next]_vars

\* The mutex is free between critical sections and lets every waiter in; pings
\* and connection attempts end, by their timeouts at the latest.
Fairness ==
    \A t \in Threads :
        /\ WF_vars(Acquire(t))
        /\ WF_vars(PingAnswered(t) \/ PingFailed(t))
        /\ WF_vars(OpenSucceeds(t) \/ OpenFails(t))
        /\ WF_vars(Count(t))

FairSpec == Spec /\ Fairness
-----------------------------------------------------------------------------
(* Properties.                                                              *)

Counted == {t \in Threads : pc[t] \in {"ping", "hold"}}

\* The counter is exact at every moment the mutex is free, although opening,
\* counting and pinging happen outside it: pooled connections, those counted
\* in threads' hands, and the ones that were dropped unreleased.  The clamp at
\* zero never hides a miscount.
Accounting == total = Len(pool) + Cardinality(Counted) + lost

\* No connection is in two hands, or in a hand and the pool, or twice in the
\* pool: two handlers never share a MYSQL handle.
Exclusive ==
    /\ \A i, j \in 1 .. Len(pool) : pool[i] = pool[j] => i = j
    /\ \A t \in InHand : hand[t] \in Conns \ Pooled
    /\ \A t, u \in InHand : hand[t] = hand[u] => t = u

\* Overflow connections do not accumulate in the pool.
PoolBounded == Len(pool) <= MaxConnections

\* connection_pool.h:45 "Get connection from pool (blocks if none available)":
\* a connection beyond the maximum would never be opened.
BlocksAtMaximum ==
    [][\A t \in Threads :
        pc[t] # "open" /\ pc'[t] = "open" => total' < MaxConnections]_vars

\* acquire() ends, with a connection or with nullptr.
AcquireEnds ==
    \A t \in Threads : pc[t] = "acquire" ~> pc[t] \in {"hold", "failed"}
=============================================================================
