------------------------ MODULE ConnectionPoolProofs ------------------------
(***************************************************************************)
(* Proofs about ConnectionPool, for any number of threads, connections and *)
(* any maximum.                                                            *)
(***************************************************************************)
EXTENDS ConnectionPool, FiniteSetTheorems, TLAPS

IInv == TypeOK /\ Accounting /\ Exclusive /\ PoolBounded

IsCounted(step) == step \in {"ping", "hold"}

(* Moving one thread changes the number of counted threads by at most one.  *)
LEMMA CountedMove ==
    ASSUME TypeOK, NEW t \in Threads, NEW step \in Steps, NEW conn,
           Move(t, step, conn)
    PROVE  /\ Cardinality(Counted) \in Nat
           /\ IsCounted(pc[t]) => Cardinality(Counted) >= 1
           /\ Cardinality(Counted)' =
                Cardinality(Counted) + (IF IsCounted(step) THEN 1 ELSE 0)
                                     - (IF IsCounted(pc[t]) THEN 1 ELSE 0)
  <1>1. IsFiniteSet(Counted)
    BY ThreadsAssumption, FS_Subset DEF Counted
  <1>2. Cardinality(Counted) \in Nat
    BY <1>1, FS_CardinalityType
  <1>3. Counted' = IF IsCounted(step) THEN Counted \cup {t} ELSE Counted \ {t}
    BY DEF Counted, Move, TypeOK, IsCounted
  <1>4. t \in Counted <=> IsCounted(pc[t])
    BY DEF Counted, IsCounted
  <1>5. IsCounted(pc[t]) => Cardinality(Counted) >= 1
    <2>1. IsCounted(pc[t]) => Cardinality(Counted) # 0
      BY <1>1, <1>4, FS_EmptySet
    <2> QED BY <1>2, <2>1
  <1>6. CASE IsCounted(step)
    <2>1. Counted' = Counted \cup {t}
      BY <1>3, <1>6
    <2>2. CASE t \in Counted
      <3>1. Counted' = Counted
        BY <2>1, <2>2
      <3> QED BY <1>2, <1>4, <1>5, <1>6, <2>2, <3>1
    <2>3. CASE t \notin Counted
      <3>1. Cardinality(Counted \cup {t}) = Cardinality(Counted) + 1
        BY <1>1, <2>3, FS_AddElement
      <3>2. Cardinality(Counted)' = Cardinality(Counted) + 1
        BY <2>1, <3>1
      <3> QED BY <1>2, <1>4, <1>6, <2>3, <3>2
    <2> QED BY <2>2, <2>3
  <1>7. CASE ~IsCounted(step)
    <2>1. CASE t \in Counted
      <3>1. Cardinality(Counted \ {t}) = Cardinality(Counted) - 1
        BY <1>1, <2>1, FS_RemoveElement
      <3>2. Counted' = Counted \ {t}
        BY <1>3, <1>7
      <3>3. Cardinality(Counted)' = Cardinality(Counted) - 1
        BY <3>1, <3>2
      <3>4. IsCounted(pc[t])
        BY <1>4, <2>1
      <3> QED BY <1>2, <1>5, <1>7, <3>3, <3>4
    <2>2. CASE t \notin Counted
      <3>1. Counted' = Counted
        BY <1>3, <1>7, <2>2
      <3> QED BY <1>2, <1>4, <1>7, <2>2, <3>1
    <2> QED BY <2>1, <2>2
  <1> QED BY <1>2, <1>5, <1>6, <1>7

(* The oldest connection moves from the pool to the hand of the thread that *)
(* takes it.                                                                *)
LEMMA TakeFrontKeeps ==
    ASSUME TypeOK, Exclusive, PoolBounded,
           NEW t \in Threads, pc[t] \in {"acquire", "ping"}, TakeFront(t)
    PROVE  /\ Exclusive' /\ PoolBounded'
           /\ pool' \in Seq(Conns) /\ idle' \subseteq Conns
           /\ pc' \in [Threads -> Steps]
           /\ hand' \in [Threads -> Conns \cup {NoConn}]
           /\ \E step \in {"ping", "hold", "open"}, conn \in Conns \cup {NoConn} :
                /\ Move(t, step, conn)
                /\ Len(pool') = Len(pool) - (IF IsCounted(step) THEN 1 ELSE 0)
  <1>1. CASE pool # <<>>
    <2>1. /\ pool' = Tail(pool) /\ Head(pool) = pool[1] /\ Head(pool) \in Conns
          /\ Len(pool) \in Nat \ {0} /\ Len(pool') = Len(pool) - 1
          /\ pool' \in Seq(Conns)
          /\ \A i \in 1 .. Len(pool') : pool'[i] = pool[i + 1]
      BY <1>1, SMTT(60) DEF TakeFront, TypeOK
    <2>2. PICK step \in {"ping", "hold"} : Move(t, step, Head(pool))
      BY <1>1 DEF TakeFront
    <2>3. idle' \subseteq Conns
      BY <1>1 DEF TakeFront, TypeOK
    <2>4. /\ pc' \in [Threads -> Steps]
          /\ hand' \in [Threads -> Conns \cup {NoConn}]
      BY <2>1, <2>2 DEF Move, TypeOK, Steps
    <2>5. Pooled' \subseteq Pooled /\ Head(pool) \in Pooled /\ Head(pool) \notin Pooled'
      BY <2>1 DEF Pooled, Exclusive
    <2>6. \A u \in InHand' : u # t => u \in InHand /\ hand'[u] = hand[u]
      BY <2>2 DEF InHand, Move, TypeOK
    <2>7. hand'[t] = Head(pool)
      BY <2>2 DEF Move, TypeOK
    <2>8. Exclusive'
      <3>1. \A i, j \in 1 .. Len(pool') : pool'[i] = pool'[j] => i = j
        BY <2>1 DEF Exclusive
      <3>2. \A u \in InHand' : hand'[u] \in Conns \ Pooled'
        BY <2>1, <2>5, <2>6, <2>7 DEF Exclusive
      <3>3. \A u, v \in InHand' : hand'[u] = hand'[v] => u = v
        BY <2>5, <2>6, <2>7 DEF Exclusive
      <3> QED BY <3>1, <3>2, <3>3 DEF Exclusive
    <2>9. PoolBounded'
      BY <2>1, MaxAssumption DEF PoolBounded
    <2> QED BY <2>1, <2>2, <2>3, <2>4, <2>8, <2>9 DEF IsCounted
  <1>2. CASE pool = <<>>
    <2>1. Move(t, "open", NoConn) /\ pool' = pool /\ idle' = idle
      BY <1>2 DEF TakeFront
    <2>2. /\ pc' \in [Threads -> Steps]
          /\ hand' \in [Threads -> Conns \cup {NoConn}]
      BY <2>1 DEF Move, TypeOK, Steps
    <2>3. \A u \in InHand' : u \in InHand /\ hand'[u] = hand[u]
      BY <2>1 DEF InHand, Move, TypeOK
    <2>4. Exclusive' /\ PoolBounded'
      BY <2>1, <2>3 DEF Exclusive, PoolBounded, Pooled
    <2> QED BY <2>1, <2>2, <2>4 DEF TypeOK, IsCounted
  <1> QED BY <1>1, <1>2

(* A step that leaves the pool alone and only lets go of what is in hand,   *)
(* or keeps it.                                                             *)
LEMMA HandOnly ==
    ASSUME TypeOK, Exclusive, PoolBounded, NEW t \in Threads,
           NEW step \in Steps, NEW conn \in Conns \cup {NoConn},
           Move(t, step, conn), pool' = pool,
           step \in {"ping", "count", "hold"} =>
             \/ t \in InHand /\ conn = hand[t]
             \/ conn \in Conns \ Open
    PROVE  /\ Exclusive' /\ PoolBounded'
           /\ pc' \in [Threads -> Steps]
           /\ hand' \in [Threads -> Conns \cup {NoConn}]
  <1>1. \A u \in InHand' : u # t => u \in InHand /\ hand'[u] = hand[u]
    BY DEF InHand, Move, TypeOK
  <1>2. hand'[t] = conn /\ (t \in InHand' => step \in {"ping", "count", "hold"})
    BY DEF InHand, Move, TypeOK
  <1>3. Pooled' = Pooled
    BY DEF Pooled
  <1>4. \A u \in InHand' : hand'[u] \in Conns \ Pooled'
    BY <1>1, <1>2, <1>3 DEF Exclusive, Open
  <1>5. \A u, v \in InHand' : hand'[u] = hand'[v] => u = v
    BY <1>1, <1>2 DEF Exclusive, Open
  <1>6. Exclusive'
    BY <1>4, <1>5 DEF Exclusive
  <1> QED BY <1>6 DEF PoolBounded, Move, TypeOK
(* release() appends the connection in hand.                                *)
LEMMA ReleaseKeeps ==
    ASSUME TypeOK, Exclusive, PoolBounded, NEW t \in Threads, pc[t] = "hold",
           Len(pool) < MaxConnections, pool' = Append(pool, hand[t]),
           Move(t, "out", NoConn)
    PROVE  /\ Exclusive' /\ PoolBounded'
           /\ pool' \in Seq(Conns) /\ Len(pool') = Len(pool) + 1
           /\ pc' \in [Threads -> Steps]
           /\ hand' \in [Threads -> Conns \cup {NoConn}]
  <1>1. t \in InHand /\ hand[t] \in Conns \ Pooled
    BY DEF InHand, Exclusive
  <1>2. /\ pool' \in Seq(Conns) /\ Len(pool') = Len(pool) + 1
        /\ Len(pool) \in Nat
        /\ \A i \in 1 .. Len(pool) : pool'[i] = pool[i]
        /\ pool'[Len(pool) + 1] = hand[t]
    BY <1>1 DEF TypeOK
  <1>3. \A u \in InHand' : u # t /\ u \in InHand /\ hand'[u] = hand[u]
    BY DEF InHand, Move, TypeOK
  <1>4. Pooled' = Pooled \cup {hand[t]}
    BY <1>2 DEF Pooled
  <1>5. \A i, j \in 1 .. Len(pool') : pool'[i] = pool'[j] => i = j
    BY <1>1, <1>2 DEF Exclusive, Pooled
  <1>6. /\ \A u \in InHand' : hand'[u] \in Conns \ Pooled'
        /\ \A u, v \in InHand' : hand'[u] = hand'[v] => u = v
    BY <1>1, <1>3, <1>4 DEF Exclusive
  <1>7. PoolBounded'
    BY <1>2, MaxAssumption DEF PoolBounded
  <1> QED BY <1>2, <1>5, <1>6, <1>7 DEF Exclusive, Move, TypeOK, Steps

-----------------------------------------------------------------------------
LEMMA InitIInv == Init => IInv
  <1> SUFFICES ASSUME Init PROVE IInv
    OBVIOUS
  <1>1. PICK n \in 0 .. Eager : pool \in [1 .. n -> Conns]
    BY DEF Init
  <1>2. pool \in Seq(Conns) /\ Len(pool) = n
    BY <1>1, EagerAssumption
  <1>3. Counted = {} /\ InHand = {}
    BY DEF Init, Counted, InHand
  <1>4. TypeOK
    BY <1>1, <1>2, EagerAssumption DEF Init, TypeOK, Steps
  <1>5. Accounting
    BY <1>2, <1>3, FS_EmptySet, EagerAssumption DEF Init, Accounting
  <1> QED BY <1>3, <1>4, <1>5 DEF IInv, Init, Exclusive, PoolBounded

LEMMA NextIInv == IInv /\ [Next]_vars => IInv'
  <1> SUFFICES ASSUME IInv, [Next]_vars PROVE IInv'
    OBVIOUS
  <1>0. TypeOK /\ Accounting /\ Exclusive /\ PoolBounded
    BY DEF IInv
  <1>a. Len(pool) \in Nat
    BY <1>0 DEF TypeOK
  <1>1. ASSUME NEW t \in Threads, CallAcquire(t) PROVE IInv'
    <2>1. Cardinality(Counted)' = Cardinality(Counted)
      BY <1>0, <1>1, CountedMove DEF CallAcquire, Steps, IsCounted
    <2>2. /\ Exclusive' /\ PoolBounded' /\ pc' \in [Threads -> Steps]
          /\ hand' \in [Threads -> Conns \cup {NoConn}]
      BY <1>0, <1>1, HandOnly DEF CallAcquire, Steps
    <2> QED BY <1>0, <1>1, <2>1, <2>2 DEF IInv, Accounting, CallAcquire, TypeOK
  <1>2. ASSUME NEW t \in Threads, Acquire(t) PROVE IInv'
    <2>1. PICK step \in {"ping", "hold", "open"}, conn \in Conns \cup {NoConn} :
            /\ Move(t, step, conn)
            /\ Len(pool') = Len(pool) - (IF IsCounted(step) THEN 1 ELSE 0)
      BY <1>0, <1>2, TakeFrontKeeps DEF Acquire
    <2>2. Cardinality(Counted)' =
            Cardinality(Counted) + (IF IsCounted(step) THEN 1 ELSE 0)
      BY <1>0, <1>2, <2>1, CountedMove DEF Acquire, Steps, IsCounted
    <2>3. /\ Exclusive' /\ PoolBounded'
          /\ pool' \in Seq(Conns) /\ idle' \subseteq Conns
          /\ pc' \in [Threads -> Steps]
          /\ hand' \in [Threads -> Conns \cup {NoConn}]
      BY <1>0, <1>2, TakeFrontKeeps DEF Acquire
    <2>4. Accounting'
      BY <1>0, <1>2, <1>a, <2>1, <2>2, CountedMove DEF Accounting, Acquire, TypeOK, Steps
    <2> QED BY <1>0, <1>2, <2>3, <2>4 DEF IInv, TypeOK, Acquire
  <1>3. ASSUME NEW t \in Threads, PingAnswered(t) PROVE IInv'
    <2>1. Cardinality(Counted)' = Cardinality(Counted)
      BY <1>0, <1>3, CountedMove DEF PingAnswered, Steps, IsCounted, TypeOK
    <2>2. /\ Exclusive' /\ PoolBounded' /\ pc' \in [Threads -> Steps]
          /\ hand' \in [Threads -> Conns \cup {NoConn}]
      BY <1>0, <1>3, HandOnly DEF PingAnswered, Steps, InHand, TypeOK
    <2> QED BY <1>0, <1>3, <2>1, <2>2 DEF IInv, Accounting, PingAnswered, TypeOK
  <1>4. ASSUME NEW t \in Threads, PingFailed(t) PROVE IInv'
    <2>1. PICK step \in {"ping", "hold", "open"}, conn \in Conns \cup {NoConn} :
            /\ Move(t, step, conn)
            /\ Len(pool') = Len(pool) - (IF IsCounted(step) THEN 1 ELSE 0)
      BY <1>0, <1>4, TakeFrontKeeps DEF PingFailed
    <2>2. /\ Cardinality(Counted)' =
              Cardinality(Counted) + (IF IsCounted(step) THEN 1 ELSE 0) - 1
          /\ Cardinality(Counted) \in Nat /\ Cardinality(Counted) >= 1
      BY <1>0, <1>4, <2>1, CountedMove DEF PingFailed, Steps, IsCounted
    <2>3. /\ Exclusive' /\ PoolBounded'
          /\ pool' \in Seq(Conns) /\ idle' \subseteq Conns
          /\ pc' \in [Threads -> Steps]
          /\ hand' \in [Threads -> Conns \cup {NoConn}]
      BY <1>0, <1>4, TakeFrontKeeps DEF PingFailed
    <2>4. total' = total - 1 /\ total' \in Nat /\ lost' = lost /\ lost \in Nat
      BY <1>0, <1>4, <1>a, <2>2 DEF PingFailed, Decremented, Accounting, TypeOK
    <2>5. Accounting'
      BY <1>0, <1>a, <2>1, <2>2, <2>4 DEF Accounting
    <2> QED BY <1>0, <2>3, <2>4, <2>5 DEF IInv, TypeOK
  <1>5. ASSUME NEW t \in Threads, OpenSucceeds(t) PROVE IInv'
    <2>1. PICK c \in Conns \ Open : Move(t, "count", c)
      BY <1>5 DEF OpenSucceeds
    <2>2. Cardinality(Counted)' = Cardinality(Counted)
      BY <1>0, <1>5, <2>1, CountedMove DEF OpenSucceeds, Steps, IsCounted
    <2>3. /\ Exclusive' /\ PoolBounded' /\ pc' \in [Threads -> Steps]
          /\ hand' \in [Threads -> Conns \cup {NoConn}]
      BY <1>0, <1>5, <2>1, HandOnly DEF OpenSucceeds, Steps
    <2> QED BY <1>0, <1>5, <2>2, <2>3 DEF IInv, Accounting, OpenSucceeds, TypeOK
  <1>6. ASSUME NEW t \in Threads, OpenFails(t) PROVE IInv'
    <2>1. Cardinality(Counted)' = Cardinality(Counted)
      BY <1>0, <1>6, CountedMove DEF OpenFails, Steps, IsCounted
    <2>2. /\ Exclusive' /\ PoolBounded' /\ pc' \in [Threads -> Steps]
          /\ hand' \in [Threads -> Conns \cup {NoConn}]
      BY <1>0, <1>6, HandOnly DEF OpenFails, Steps
    <2> QED BY <1>0, <1>6, <2>1, <2>2 DEF IInv, Accounting, OpenFails, TypeOK
  <1>7. ASSUME NEW t \in Threads, Count(t) PROVE IInv'
    <2>1. /\ Cardinality(Counted)' = Cardinality(Counted) + 1
          /\ Cardinality(Counted) \in Nat
      BY <1>0, <1>7, CountedMove DEF Count, Steps, IsCounted, TypeOK
    <2>2. /\ Exclusive' /\ PoolBounded' /\ pc' \in [Threads -> Steps]
          /\ hand' \in [Threads -> Conns \cup {NoConn}]
      BY <1>0, <1>7, HandOnly DEF Count, Steps, InHand, TypeOK
    <2> QED BY <1>0, <1>7, <1>a, <2>1, <2>2 DEF IInv, Accounting, Count, TypeOK
  <1>8. ASSUME NEW t \in Threads, Release(t) PROVE IInv'
    <2>1. /\ Cardinality(Counted)' = Cardinality(Counted) - 1
          /\ Cardinality(Counted) \in Nat /\ Cardinality(Counted) >= 1
      BY <1>0, <1>8, CountedMove DEF Release, Steps, IsCounted
    <2>2. CASE Len(pool) < MaxConnections
      <3>1. /\ pool' = Append(pool, hand[t]) /\ total' = total /\ lost' = lost
            /\ Move(t, "out", NoConn) /\ pc[t] = "hold" /\ idle' = idle
        BY <1>8, <1>a, <2>2, MaxAssumption DEF Release
      <3>2. /\ Exclusive' /\ PoolBounded'
            /\ pool' \in Seq(Conns) /\ Len(pool') = Len(pool) + 1
            /\ pc' \in [Threads -> Steps]
            /\ hand' \in [Threads -> Conns \cup {NoConn}]
        BY <1>0, <2>2, <3>1, ReleaseKeeps
      <3> QED BY <1>0, <1>a, <2>1, <3>1, <3>2 DEF IInv, Accounting, TypeOK
    <2>3. CASE ~(Len(pool) < MaxConnections)
      <3>1. /\ pool' = pool /\ total' = Decremented(total) /\ lost' = lost
            /\ Move(t, "out", NoConn) /\ idle' = idle
        BY <1>8, <2>3 DEF Release
      <3>2. /\ Exclusive' /\ PoolBounded' /\ pc' \in [Threads -> Steps]
            /\ hand' \in [Threads -> Conns \cup {NoConn}]
        BY <1>0, <3>1, HandOnly DEF Steps
      <3>3. total' = total - 1 /\ total' \in Nat
        BY <1>0, <1>a, <2>1, <3>1 DEF Decremented, Accounting, TypeOK
      <3> QED BY <1>0, <1>a, <2>1, <3>1, <3>2, <3>3 DEF IInv, Accounting, TypeOK
    <2> QED BY <2>2, <2>3
  <1>9. ASSUME NEW t \in Threads, ReleaseNull(t) PROVE IInv'
    <2>1. Cardinality(Counted)' = Cardinality(Counted)
      BY <1>0, <1>9, CountedMove DEF ReleaseNull, Steps, IsCounted
    <2>2. /\ Exclusive' /\ PoolBounded' /\ pc' \in [Threads -> Steps]
          /\ hand' \in [Threads -> Conns \cup {NoConn}]
      BY <1>0, <1>9, HandOnly DEF ReleaseNull, Steps
    <2> QED BY <1>0, <1>9, <2>1, <2>2 DEF IInv, Accounting, ReleaseNull, TypeOK
  <1>10. ASSUME NEW t \in Threads, Drop(t) PROVE IInv'
    <2>1. /\ Cardinality(Counted)' = Cardinality(Counted) - 1
          /\ Cardinality(Counted) \in Nat
      BY <1>0, <1>10, CountedMove DEF Drop, Steps, IsCounted
    <2>2. /\ Exclusive' /\ PoolBounded' /\ pc' \in [Threads -> Steps]
          /\ hand' \in [Threads -> Conns \cup {NoConn}]
      BY <1>0, <1>10, HandOnly DEF Drop, Steps
    <2>3. Accounting'
      BY <1>0, <1>10, <1>a, <2>1 DEF Accounting, Drop, TypeOK
    <2> QED BY <1>0, <1>10, <2>2, <2>3 DEF IInv, Drop, TypeOK
  <1>11. CASE GoIdle \/ UNCHANGED vars
    <2>1. /\ pool' = pool /\ total' = total /\ pc' = pc /\ hand' = hand
          /\ lost' = lost
      BY <1>11 DEF GoIdle, vars
    <2>2. Pooled \subseteq Conns
      BY <1>0 DEF Pooled, TypeOK
    <2>3. idle' \subseteq Conns
      BY <1>0, <1>11, <2>2 DEF GoIdle, vars, TypeOK
    <2> QED BY <1>0, <2>1, <2>3
            DEF IInv, TypeOK, Accounting, Counted, Exclusive, InHand, Pooled, PoolBounded
  <1> QED BY <1>1, <1>2, <1>3, <1>4, <1>5, <1>6, <1>7, <1>8, <1>9, <1>10, <1>11
          DEF Next

THEOREM Invariance == Spec => []IInv
  BY InitIInv, NextIInv, PTL DEF Spec

(* Every variable of the pool keeps its type: total_connections_, taken down *)
(* in three places, never falls below zero.                                 *)
THEOREM TypeCorrect == Spec => []TypeOK
  <1>1. IInv => TypeOK
    BY DEF IInv
  <1> QED BY <1>1, Invariance, PTL

(* total_connections_ counts exactly the connections the pool and its users *)
(* have, plus those that were dropped without release().                    *)
THEOREM CounterIsExact == Spec => []Accounting
  <1>1. IInv => Accounting
    BY DEF IInv
  <1> QED BY <1>1, Invariance, PTL

(* No connection is ever in two places.                                     *)
THEOREM ConnectionsAreExclusive == Spec => []Exclusive
  <1>1. IInv => Exclusive
    BY DEF IInv
  <1> QED BY <1>1, Invariance, PTL

(* The pool keeps at most max_connections_ connections, however many        *)
(* overflow connections were opened.                                        *)
THEOREM PoolStaysBounded == Spec => []PoolBounded
  <1>1. IInv => PoolBounded
    BY DEF IInv
  <1> QED BY <1>1, Invariance, PTL
=============================================================================
