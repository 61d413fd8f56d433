------------------------ MODULE CooldownClaimProofs ------------------------
(***************************************************************************)
(* Proofs about CooldownClaim, for any sessions, keys, gaps and clocks.    *)
(***************************************************************************)
EXTENDS CooldownClaim, TLAPS

Inside == {"accepted", "upsert", "commit", "rollback"}
Decided == {"accepted", "upsert"}

\* Who holds what: a session in its call holds its row, or the gap it would be
\* in; a failure is the only way past both.
KeyInCall   == \A s \in Sessions : pc[s] # "idle" => key[s] \in Keys
LockInCall  == \A s \in Sessions, k \in Keys :
                   lock[k] = s => key[s] = k /\ pc[s] \in Inside
GapInCall   == \A s \in gap : pc[s] \in Inside
RowLocked   == \A s \in Sessions :
                   pc[s] \in Decided /\ lock[key[s]] = s => row[key[s]] # NoRow
Covered     == \A s \in Sessions :
                   pc[s] \in Decided /\ s \notin harmed =>
                       lock[key[s]] = s \/ (s \in gap /\ row[key[s]] = NoRow)
WriteLocked == \A s \in Sessions : pc[s] = "commit" => lock[key[s]] = s
WritesAlone == \A s, t \in Sessions :
                   s # t /\ pc[t] = "commit" /\ pc[s] \in Decided /\ key[s] = key[t]
                       => s \in harmed

Locks == /\ KeyInCall /\ LockInCall /\ GapInCall /\ RowLocked /\ Covered
         /\ WriteLocked /\ WritesAlone

\* What is over when: the row, or its absence, tells of every grant, and so does
\* the moment a session decided at.
RowTells     == \A k \in Keys : \A x \in granted[k] :
                    /\ x <= now
                    /\ row[k] = NoRow => x + Seconds <= now
                    /\ row[k] # NoRow => x + Seconds <= row[k]
DatedInPast  == \A s \in Sessions : dated[s] <= now
DecidedRight == \A s \in Sessions :
                    s \notin harmed =>
                        \A x \in granted[key[s]] :
                            /\ pc[s] = "accepted" => now + Ahead >= x + Seconds
                            /\ pc[s] \in {"upsert", "commit"} =>
                                   dated[s] + Ahead >= x + Seconds

Ages == RowTells /\ DatedInPast /\ DecidedRight

IInv == TypeOK /\ Locks /\ Ages

-----------------------------------------------------------------------------

LEMMA NoRowNoMoment == NoRow \notin Nat /\ NoRow \in Int
  BY DEF NoRow

(* The state a call starts from satisfies the invariant.                    *)
LEMMA Initially == Init => IInv
  <1> SUFFICES ASSUME Init PROVE IInv
    OBVIOUS
  <1> USE NoSessionAssumption, NoKeyAssumption, ClockAssumption
  <1>1. TypeOK
    BY DEF Init, TypeOK, Steps
  <1>2. Locks
    BY DEF Init, Locks, KeyInCall, LockInCall, GapInCall, RowLocked, Covered,
           WriteLocked, WritesAlone, Decided
  <1>3. Ages
    BY DEF Init, Ages, RowTells, DatedInPast, DecidedRight
  <1> QED BY <1>1, <1>2, <1>3 DEF IInv

(* Types.                                                                   *)
LEMMA TypeStep == TypeOK /\ KeyInCall /\ [Next]_vars => TypeOK'
  <1> SUFFICES ASSUME TypeOK, KeyInCall, [Next]_vars PROVE TypeOK'
    OBVIOUS
  <1> USE NoSessionAssumption, NoKeyAssumption, ClockAssumption DEF TypeOK, Steps
  <1>1. ASSUME NEW s \in Sessions, NEW k \in Keys, Call(s, k) PROVE TypeOK'
    BY <1>1 DEF Call
  <1>2. ASSUME NEW s \in Sessions, SelectNone(s) PROVE TypeOK'
    BY <1>2 DEF SelectNone
  <1>3. ASSUME NEW s \in Sessions, SelectRow(s) PROVE TypeOK'
    BY <1>3 DEF SelectRow, KeyInCall
  <1>4. ASSUME NEW s \in Sessions, Send(s) PROVE TypeOK'
    BY <1>4 DEF Send
  <1>5. ASSUME NEW s \in Sessions, Upsert(s) PROVE TypeOK'
    BY <1>5 DEF Upsert, KeyInCall
  <1>6. ASSUME NEW s \in Sessions, NEW r \in BOOLEAN, End(s, r), row' \in [Keys -> Nat \cup {NoRow}],
               harmed' \in SUBSET Sessions, granted' \in [Keys -> SUBSET (0 .. MaxTime)]
        PROVE TypeOK'
    BY <1>6 DEF End
  <1>7. ASSUME NEW s \in Sessions, Commit(s) PROVE TypeOK'
    <2>1. row' \in [Keys -> Nat \cup {NoRow}]
      BY <1>7 DEF Commit, KeyInCall
    <2>2. granted' \in [Keys -> SUBSET (0 .. MaxTime)]
      BY <1>7 DEF Commit, KeyInCall
    <2> QED BY <1>6, <1>7, <2>1, <2>2 DEF Commit
  <1>8. ASSUME NEW s \in Sessions, Rollback(s) PROVE TypeOK'
    BY <1>6, <1>8 DEF Rollback
  <1>9. ASSUME NEW s \in Sessions, Return(s) PROVE TypeOK'
    BY <1>9 DEF Return
  <1>10. ASSUME NEW s \in Sessions, Deadlock(s) PROVE TypeOK'
    BY <1>6, <1>10 DEF Deadlock
  <1>11. ASSUME NEW s \in Sessions, SelectFails(s) PROVE TypeOK'
    BY <1>11 DEF SelectFails
  <1>12. ASSUME NEW s \in Sessions, UpsertFails(s) PROVE TypeOK'
    BY <1>12 DEF UpsertFails
  <1>13. ASSUME NEW s \in Sessions, CommitFails(s) PROVE TypeOK'
    <2>1. harmed' \in SUBSET Sessions /\ row' = row /\ granted' = granted
      BY <1>13 DEF CommitFails
    <2> QED BY <1>6, <1>13, <2>1 DEF CommitFails
  <1>14. ASSUME NEW k \in Keys, Elsewhere(k) PROVE TypeOK'
    BY <1>14 DEF Elsewhere, SetCooldown, CleanUp, Rebirth
  <1>15. CASE Tick
    BY <1>15 DEF Tick
  <1>16. CASE UNCHANGED vars
    BY <1>16 DEF vars
  <1> QED BY <1>1, <1>2, <1>3, <1>4, <1>5, <1>7, <1>8, <1>9, <1>10, <1>11, <1>12, <1>13,
             <1>14, <1>15, <1>16 DEF Next, Step, Fault

(* A transaction that ends gives back what it held, and the others keep what *)
(* they hold; only a COMMIT may have changed a row, which is then its own.   *)
LEMMA EndKeepsLocks ==
    ASSUME TypeOK, Locks, NEW s \in Sessions, NEW r, End(s, r), pc[s] # "idle",
           \A k \in Keys : row'[k] = row[k] \/ (k = key[s] /\ pc[s] = "commit"),
           \A t \in Sessions : t # s => (t \in harmed' <=> t \in harmed)
    PROVE  Locks'
  <1> USE NoSessionAssumption
  <1>1. \A t \in Sessions : t # s => key'[t] = key[t] /\ pc'[t] = pc[t]
    BY DEF End, TypeOK
  <1>2. \A t \in Sessions : t # s => (t \in gap' <=> t \in gap)
    BY DEF End, TypeOK
  <1>3. \A t \in Sessions, k \in Keys : t # s => (lock'[k] = t <=> lock[k] = t)
    BY DEF End, TypeOK
  <1>4. pc'[s] = "done" /\ key'[s] = key[s] /\ s \notin gap' /\ gap' \subseteq gap
    BY DEF End, TypeOK
  <1>5. \A k \in Keys : lock'[k] # s
    BY DEF End, TypeOK
  <1>6. KeyInCall'
    BY <1>1, <1>4 DEF Locks, KeyInCall
  <1>7. LockInCall'
    BY <1>1, <1>3, <1>5 DEF Locks, LockInCall
  <1>8. GapInCall'
    BY <1>1, <1>2, <1>4 DEF Locks, GapInCall, TypeOK
  <1>9. WriteLocked'
    <2> SUFFICES ASSUME NEW t \in Sessions, pc'[t] = "commit" PROVE lock'[key'[t]] = t
      BY DEF WriteLocked
    <2>1. t # s /\ pc[t] = "commit" /\ key'[t] = key[t]
      BY <1>1, <1>4
    <2>2. key[t] \in Keys /\ lock[key[t]] = t
      BY <2>1 DEF Locks, KeyInCall, WriteLocked
    <2> QED BY <1>3, <2>1, <2>2
  <1>10. WritesAlone'
    <2> SUFFICES ASSUME NEW t \in Sessions, NEW u \in Sessions, t # u, pc'[u] = "commit",
                        pc'[t] \in Decided, key'[t] = key'[u]
                 PROVE  t \in harmed'
      BY DEF WritesAlone
    <2>1. t # s /\ u # s
      BY <1>4 DEF Decided
    <2>2. t \in harmed
      BY <1>1, <2>1 DEF Locks, WritesAlone
    <2> QED BY <2>1, <2>2
  <1>11. RowLocked'
    <2> SUFFICES ASSUME NEW t \in Sessions, pc'[t] \in Decided, lock'[key'[t]] = t
                 PROVE  row'[key'[t]] # NoRow
      BY DEF RowLocked
    <2>1. t # s /\ pc[t] \in Decided /\ key'[t] = key[t]
      BY <1>1, <1>4 DEF Decided
    <2>2. key[t] \in Keys
      BY <2>1 DEF Locks, KeyInCall, Decided
    <2>3. lock[key[t]] = t
      BY <1>3, <2>1, <2>2
    <2>4. row[key[t]] # NoRow
      BY <2>1, <2>3 DEF Locks, RowLocked
    <2>5. ~(key[t] = key[s] /\ pc[s] = "commit")
      BY <2>1, <2>3 DEF Locks, WriteLocked
    <2> QED BY <2>1, <2>2, <2>4, <2>5
  <1>12. Covered'
    <2> SUFFICES ASSUME NEW t \in Sessions, pc'[t] \in Decided, t \notin harmed'
                 PROVE  lock'[key'[t]] = t \/ (t \in gap' /\ row'[key'[t]] = NoRow)
      BY DEF Covered
    <2>1. t # s /\ pc[t] \in Decided /\ key'[t] = key[t] /\ t \notin harmed
      BY <1>1, <1>4 DEF Decided
    <2>2. key[t] \in Keys
      BY <2>1 DEF Locks, KeyInCall, Decided
    <2>3. ~(key[t] = key[s] /\ pc[s] = "commit")
      BY <2>1 DEF Locks, WritesAlone
    <2>4. lock[key[t]] = t \/ (t \in gap /\ row[key[t]] = NoRow)
      BY <2>1 DEF Locks, Covered
    <2> QED BY <1>2, <1>3, <2>1, <2>2, <2>3, <2>4
  <1> QED BY <1>6, <1>7, <1>8, <1>9, <1>10, <1>11, <1>12 DEF Locks

(* The locks stay what they are for.                                        *)
LEMMA LockStep == TypeOK /\ Locks /\ [Next]_vars => Locks'
  <1> SUFFICES ASSUME TypeOK, Locks, [Next]_vars PROVE Locks'
    OBVIOUS
  <1> USE NoSessionAssumption, NoKeyAssumption, NearAssumption, NoRowNoMoment
  <1>1. ASSUME NEW s \in Sessions, NEW k \in Keys, Call(s, k) PROVE Locks'
    BY <1>1 DEF Call,
           Locks, KeyInCall, LockInCall, GapInCall, RowLocked, Covered, WriteLocked,
           WritesAlone, TypeOK, Steps, Inside, Decided
  <1>2. ASSUME NEW s \in Sessions, SelectNone(s) PROVE Locks'
    BY <1>2 DEF SelectNone, CanLock,
           Locks, KeyInCall, LockInCall, GapInCall, RowLocked, Covered, WriteLocked,
           WritesAlone, TypeOK, Steps, Inside, Decided
  <1>3. ASSUME NEW s \in Sessions, SelectRow(s) PROVE Locks'
    BY <1>3 DEF SelectRow, CanLock,
           Locks, KeyInCall, LockInCall, GapInCall, RowLocked, Covered, WriteLocked,
           WritesAlone, TypeOK, Steps, Inside, Decided
  <1>4. ASSUME NEW s \in Sessions, Send(s) PROVE Locks'
    BY <1>4 DEF Send,
           Locks, KeyInCall, LockInCall, GapInCall, RowLocked, Covered, WriteLocked,
           WritesAlone, TypeOK, Steps, Inside, Decided
  <1>5. ASSUME NEW s \in Sessions, Upsert(s) PROVE Locks'
    BY <1>5 DEF Upsert, CanWrite, CanLock, InTheWay,
           Locks, KeyInCall, LockInCall, GapInCall, RowLocked, Covered, WriteLocked,
           WritesAlone, TypeOK, Steps, Inside, Decided
  <1>6. ASSUME NEW s \in Sessions, Commit(s) PROVE Locks'
    <2>1. pc[s] # "idle" /\ \E r : End(s, r)
      BY <1>6 DEF Commit
    <2>2. \A k \in Keys : row'[k] = row[k] \/ (k = key[s] /\ pc[s] = "commit")
      BY <1>6 DEF Commit, TypeOK
    <2>3. \A t \in Sessions : t # s => (t \in harmed' <=> t \in harmed)
      BY <1>6 DEF Commit
    <2> QED BY <2>1, <2>2, <2>3, EndKeepsLocks
  <1>7. ASSUME NEW s \in Sessions, Rollback(s) PROVE Locks'
    <2>1. pc[s] # "idle" /\ \E r : End(s, r)
      BY <1>7 DEF Rollback
    <2>2. \A k \in Keys : row'[k] = row[k] \/ (k = key[s] /\ pc[s] = "commit")
      BY <1>7 DEF Rollback, TypeOK
    <2>3. \A t \in Sessions : t # s => (t \in harmed' <=> t \in harmed)
      BY <1>7 DEF Rollback
    <2> QED BY <2>1, <2>2, <2>3, EndKeepsLocks
  <1>8. ASSUME NEW s \in Sessions, Return(s) PROVE Locks'
    BY <1>8 DEF Return,
           Locks, KeyInCall, LockInCall, GapInCall, RowLocked, Covered, WriteLocked,
           WritesAlone, TypeOK, Steps, Inside, Decided
  <1>9. ASSUME NEW s \in Sessions, Deadlock(s) PROVE Locks'
    <2>1. pc[s] # "idle" /\ \E r : End(s, r)
      BY <1>9 DEF Deadlock, OnCycle
    <2>2. \A k \in Keys : row'[k] = row[k] \/ (k = key[s] /\ pc[s] = "commit")
      BY <1>9 DEF Deadlock, TypeOK
    <2>3. \A t \in Sessions : t # s => (t \in harmed' <=> t \in harmed)
      BY <1>9 DEF Deadlock
    <2> QED BY <2>1, <2>2, <2>3, EndKeepsLocks
  <1>10. ASSUME NEW s \in Sessions, SelectFails(s) PROVE Locks'
    BY <1>10 DEF SelectFails,
           Locks, KeyInCall, LockInCall, GapInCall, RowLocked, Covered, WriteLocked,
           WritesAlone, TypeOK, Steps, Inside, Decided
  <1>11. ASSUME NEW s \in Sessions, UpsertFails(s) PROVE Locks'
    BY <1>11 DEF UpsertFails,
           Locks, KeyInCall, LockInCall, GapInCall, RowLocked, Covered, WriteLocked,
           WritesAlone, TypeOK, Steps, Inside, Decided
  <1>12. ASSUME NEW s \in Sessions, CommitFails(s) PROVE Locks'
    <2>1. pc[s] # "idle" /\ \E r : End(s, r)
      BY <1>12 DEF CommitFails
    <2>2. \A k \in Keys : row'[k] = row[k] \/ (k = key[s] /\ pc[s] = "commit")
      BY <1>12 DEF CommitFails, TypeOK
    <2>3. \A t \in Sessions : t # s => (t \in harmed' <=> t \in harmed)
      BY <1>12 DEF CommitFails
    <2> QED BY <2>1, <2>2, <2>3, EndKeepsLocks
  <1>13. ASSUME NEW k \in Keys, Elsewhere(k) PROVE Locks'
    BY <1>13 DEF Elsewhere, SetCooldown, CleanUp, Rebirth,
           Locks, KeyInCall, LockInCall, GapInCall, RowLocked, Covered, WriteLocked,
           WritesAlone, TypeOK, Steps, Inside, Decided
  <1>14. CASE Tick
    BY <1>14 DEF Tick,
           Locks, KeyInCall, LockInCall, GapInCall, RowLocked, Covered, WriteLocked,
           WritesAlone, TypeOK, Steps, Inside, Decided
  <1>15. CASE UNCHANGED vars
    BY <1>15 DEF vars,
           Locks, KeyInCall, LockInCall, GapInCall, RowLocked, Covered, WriteLocked,
           WritesAlone, TypeOK, Steps, Inside, Decided
  <1> QED BY <1>1, <1>2, <1>3, <1>4, <1>5, <1>6, <1>7, <1>8, <1>9, <1>10, <1>11, <1>12, <1>13, <1>14, <1>15
          DEF Next, Step, Fault

(* What the rows tell of the grants stays true.                             *)
LEMMA AgeStep == TypeOK /\ Locks /\ Ages /\ [Next]_vars => Ages'
  <1> SUFFICES ASSUME TypeOK, Locks, Ages, [Next]_vars PROVE Ages'
    OBVIOUS
  <1> USE ClockAssumption, NoRowNoMoment, NoKeyAssumption
  <1> USE DEF Ages, RowTells, DatedInPast, DecidedRight, TypeOK, Steps
  <1>0. KeyInCall
    BY DEF Locks
  <1>1. ASSUME NEW s \in Sessions, NEW k \in Keys, Call(s, k) PROVE Ages'
    BY <1>1 DEF Call
  <1>2. ASSUME NEW s \in Sessions, SelectNone(s) PROVE Ages'
    BY <1>0, <1>2 DEF SelectNone, KeyInCall
  <1>3. ASSUME NEW s \in Sessions, SelectRow(s) PROVE Ages'
    BY <1>0, <1>3 DEF SelectRow, KeyInCall
  <1>4. ASSUME NEW s \in Sessions, Send(s) PROVE Ages'
    BY <1>0, <1>4 DEF Send, KeyInCall
  <1>5. ASSUME NEW s \in Sessions, Upsert(s) PROVE Ages'
    BY <1>0, <1>5 DEF Upsert, KeyInCall
  <1>6. ASSUME NEW s \in Sessions, Commit(s) PROVE Ages'
    BY <1>0, <1>6 DEF Commit, End, KeyInCall, Locks, WritesAlone, WriteLocked, Decided
  <1>7. ASSUME NEW s \in Sessions, Rollback(s) PROVE Ages'
    BY <1>0, <1>7 DEF Rollback, End, KeyInCall
  <1>8. ASSUME NEW s \in Sessions, Return(s) PROVE Ages'
    BY <1>0, <1>8 DEF Return, KeyInCall
  <1>9. ASSUME NEW s \in Sessions, Deadlock(s) PROVE Ages'
    BY <1>0, <1>9 DEF Deadlock, End, KeyInCall
  <1>10. ASSUME NEW s \in Sessions, SelectFails(s) PROVE Ages'
    BY <1>0, <1>10 DEF SelectFails, KeyInCall
  <1>11. ASSUME NEW s \in Sessions, UpsertFails(s) PROVE Ages'
    BY <1>0, <1>11 DEF UpsertFails, KeyInCall
  <1>12. ASSUME NEW s \in Sessions, CommitFails(s) PROVE Ages'
    BY <1>0, <1>12 DEF CommitFails, End, KeyInCall
  <1>13. ASSUME NEW k \in Keys, SetCooldown(k) PROVE Ages'
    BY <1>0, <1>13 DEF SetCooldown, KeyInCall
  <1>14. ASSUME NEW k \in Keys, CleanUp(k) PROVE Ages'
    BY <1>0, <1>14 DEF CleanUp, KeyInCall
  <1>15. ASSUME NEW k \in Keys, Rebirth(k) PROVE Ages'
    BY <1>0, <1>15 DEF Rebirth, KeyInCall
  <1>16. CASE Tick
    BY <1>0, <1>16 DEF Tick, KeyInCall
  <1>17. CASE UNCHANGED vars
    BY <1>17 DEF vars
  <1> QED BY <1>1, <1>2, <1>3, <1>4, <1>5, <1>6, <1>7, <1>8, <1>9, <1>10, <1>11, <1>12,
             <1>13, <1>14, <1>15, <1>16, <1>17 DEF Next, Step, Fault, Elsewhere

THEOREM Invariance == Spec => []IInv
  <1>1. IInv /\ [Next]_vars => IInv'
    BY TypeStep, LockStep, AgeStep DEF IInv, Locks
  <1> QED BY <1>1, Initially, PTL DEF Spec

(* Whatever calls race and fail, every variable keeps its type.             *)
THEOREM TypeCorrect == Spec => []TypeOK
  BY Invariance, PTL DEF IInv

(* However many sessions hold one gap and want to insert into it, one of    *)
(* them can go on or is on a cycle of waits: the holder of a row never      *)
(* waits, so those who wait all wait for gaps, each for another of them.    *)
LEMMA LocksUnstick == TypeOK /\ Locks => NobodyStuck
  <1> SUFFICES ASSUME TypeOK, Locks, NEW s0 \in Sessions, pc[s0] # "idle",
                      \A s \in Sessions : pc[s] # "idle" => ~Moves(s)
               PROVE  OnCycle(s0)
    BY DEF NobodyStuck
  <1> DEFINE W == {s \in Sessions : pc[s] # "idle"}
  <1>1. \A s \in W : \/ pc[s] = "select" /\ ~CanLock(s)
                     \/ pc[s] = "upsert" /\ ~CanWrite(s)
    BY DEF Moves, TypeOK, Steps
  <1>2. \A s \in W : CanLock(s)
    <2> SUFFICES ASSUME NEW s \in W, ~CanLock(s) PROVE FALSE
      OBVIOUS
    <2>1. key[s] \in Keys
      BY DEF Locks, KeyInCall
    <2>2. PICK t \in Sessions : lock[key[s]] = t
      BY <2>1 DEF CanLock, TypeOK
    <2>3. key[t] = key[s] /\ pc[t] \in Inside
      BY <2>1, <2>2 DEF Locks, LockInCall
    <2>4. t \in W /\ pc[t] = "upsert"
      BY <1>1, <2>3 DEF Inside
    <2>5. CanWrite(t)
      BY <2>2, <2>3 DEF CanWrite, CanLock
    <2> QED BY <1>1, <2>4, <2>5
  <1>3. \A s \in W : pc[s] = "upsert" /\ ~CanWrite(s)
    BY <1>1, <1>2
  <1>4. \A s \in W : InTheWay(s) \cap W # {}
    <2> SUFFICES ASSUME NEW s \in W PROVE InTheWay(s) \cap W # {}
      OBVIOUS
    <2>1. PICK t \in gap : t \in InTheWay(s)
      BY <1>2, <1>3 DEF CanWrite, InTheWay
    <2>2. t \in W
      BY DEF Locks, GapInCall, Inside, TypeOK
    <2> QED BY <2>1, <2>2
  <1> QED BY <1>2, <1>3, <1>4 DEF OnCycle

THEOREM NoSilentWait == Spec => []NobodyStuck
  BY Invariance, LocksUnstick, PTL DEF IInv

(* A step of the database is a grant, the return of one, a forgotten row,   *)
(* or nothing to those who call.                                            *)
LEMMA StepIsClaim ==
    ASSUME IInv, [Next]_vars
    PROVE  [C!Next]_<<granted, Told>>
  <1> USE ClockAssumption, NoRowNoMoment
  <1> USE DEF Told
  <1>0. TypeOK /\ KeyInCall
    BY DEF IInv, Locks
  <1>1. ASSUME NEW s \in Sessions, NEW k \in Keys, Call(s, k)
        PROVE  UNCHANGED <<granted, Told>>
    BY <1>0, <1>1 DEF Call, TypeOK
  <1>2. ASSUME NEW s \in Sessions,
               SelectNone(s) \/ SelectRow(s) \/ Send(s) \/ Upsert(s)
        PROVE  UNCHANGED <<granted, Told>>
    BY <1>0, <1>2 DEF SelectNone, SelectRow, Send, Upsert, TypeOK
  <1>3. ASSUME NEW s \in Sessions, SelectFails(s) \/ UpsertFails(s)
        PROVE  UNCHANGED <<granted, Told>>
    BY <1>0, <1>3 DEF SelectFails, UpsertFails, TypeOK
  <1>4. ASSUME NEW s \in Sessions, Rollback(s) \/ Deadlock(s)
        PROVE  UNCHANGED <<granted, Told>>
    <2>1. pc[s] # "done" /\ End(s, FALSE) /\ UNCHANGED <<harmed, granted>>
      BY <1>4 DEF Rollback, Deadlock, OnCycle
    <2> QED BY <1>0, <2>1 DEF End, TypeOK
  <1>5. ASSUME NEW s \in Sessions, CommitFails(s)
        PROVE  UNCHANGED <<granted, Told>>
    BY <1>0, <1>5 DEF CommitFails, End, TypeOK
  <1>6. ASSUME NEW s \in Sessions, Commit(s)
        PROVE  C!Next \/ UNCHANGED <<granted, Told>>
    <2>1. key[s] \in Keys /\ dated[s] \in 0 .. MaxTime /\ pc[s] = "commit"
      BY <1>0, <1>6 DEF Commit, KeyInCall, TypeOK
    <2>2. CASE s \in harmed
      <3>1. Told' = Told
        BY <1>0, <1>6, <2>2 DEF Commit, End, TypeOK
      <3>2. granted' = [granted EXCEPT ![key[s]] = {}]
        BY <1>6, <2>2 DEF Commit
      <3>3. C!Forget(key[s])
        BY <3>1, <3>2 DEF C!Forget
      <3> QED BY <2>1, <3>3 DEF C!Next
    <2>3. CASE s \notin harmed
      <3>1. Told' = Told \cup {s} /\ s \notin Told
        BY <1>0, <1>6, <2>3 DEF Commit, End, TypeOK
      <3>2. granted' = [granted EXCEPT ![key[s]] = @ \cup {dated[s]}]
        BY <1>6, <2>3 DEF Commit
      <3>3. \A x \in granted[key[s]] : dated[s] + Ahead >= x + Seconds
        BY <2>1, <2>3 DEF IInv, Ages, DecidedRight
      <3>4. C!Grant(s, key[s], dated[s])
        BY <3>1, <3>2, <3>3 DEF C!Grant
      <3>5. \E x \in Sessions, k \in Keys, t \in 0 .. MaxTime : C!Grant(x, k, t)
        BY <2>1, <3>4 DEF C!Grant
      <3> QED BY <3>5 DEF C!Next
    <2> QED BY <2>2, <2>3
  <1>7. ASSUME NEW s \in Sessions, Return(s)
        PROVE  C!Next \/ UNCHANGED <<granted, Told>>
    <2>1. CASE s \in Told
      <3>1. Told' = Told \ {s} /\ granted' = granted
        BY <1>0, <1>7 DEF Return, TypeOK
      <3>2. C!Hear(s)
        BY <2>1, <3>1 DEF C!Hear
      <3> QED BY <3>2 DEF C!Next
    <2>2. CASE s \notin Told
      BY <1>0, <1>7, <2>2 DEF Return, TypeOK
    <2> QED BY <2>1, <2>2
  <1>8. ASSUME NEW k \in Keys, SetCooldown(k) \/ CleanUp(k)
        PROVE  UNCHANGED <<granted, Told>>
    BY <1>8 DEF SetCooldown, CleanUp
  <1>9. ASSUME NEW k \in Keys, Rebirth(k) PROVE C!Next
    <2>1. C!Forget(k)
      BY <1>9 DEF Rebirth, C!Forget
    <2> QED BY <2>1 DEF C!Next
  <1>10. CASE Tick
    BY <1>10 DEF Tick
  <1>11. CASE UNCHANGED vars
    BY <1>11 DEF vars
  <1> QED BY <1>1, <1>2, <1>3, <1>4, <1>5, <1>6, <1>7, <1>8, <1>9, <1>10, <1>11
          DEF Next, Step, Fault, Elsewhere

(* The statements of try_claim_cooldown implement an atomic claim: of calls  *)
(* that race, also for a row that is not there yet, none is granted before   *)
(* the one granted before it is over, unless a statement of one failed.      *)
THEOREM ClaimsAreAtomic == Spec => ImplementsClaims
  <1>1. Init => C!Init
    BY DEF Init, C!Init, Told
  <1>2. IInv /\ [Next]_vars => [C!Next]_<<granted, Told>>
    BY StepIsClaim
  <1> QED BY <1>1, <1>2, Invariance, PTL DEF Spec, ImplementsClaims, C!Spec

GrantsApart ==
    \A k \in Keys : \A x, y \in granted[k] : x < y => y - x >= Seconds - Ahead

(* Two grants for one user and command are a cooldown apart, less what the  *)
(* bot's clock is ahead of the database's: a reward cannot be drawn twice   *)
(* in one period, however many presses race (try_claim_cooldown).           *)
THEOREM GrantsAreApart == Spec => []GrantsApart
  <1>1. Init => GrantsApart
    BY DEF Init, GrantsApart
  <1>2. IInv /\ GrantsApart /\ [Next]_vars => GrantsApart'
    <2> SUFFICES ASSUME IInv, GrantsApart, [Next]_vars PROVE GrantsApart'
      OBVIOUS
    <2>1. granted \in [Keys -> SUBSET (0 .. MaxTime)] /\ MaxTime \in Nat
      BY ClockAssumption DEF IInv, TypeOK
    <2>2. CASE UNCHANGED <<granted, Told>>
      BY <2>2 DEF GrantsApart
    <2>3. CASE C!Next
      <3>1. CASE \E s \in Sessions : C!Hear(s)
        BY <3>1 DEF C!Hear, GrantsApart
      <3>2. CASE \E k \in Keys : C!Forget(k)
        BY <2>1, <3>2 DEF C!Forget, GrantsApart
      <3>3. ASSUME NEW s \in Sessions, NEW k \in Keys, NEW t \in 0 .. MaxTime, C!Grant(s, k, t)
            PROVE  GrantsApart'
        <4>1. /\ \A x \in granted[k] : t + Ahead >= x + Seconds
              /\ granted' = [granted EXCEPT ![k] = @ \cup {t}]
          BY <3>3 DEF C!Grant
        <4> SUFFICES ASSUME NEW j \in Keys, NEW x \in granted'[j], NEW y \in granted'[j], x < y
                     PROVE  y - x >= Seconds - Ahead
          BY DEF GrantsApart
        <4>2. CASE j # k
          BY <2>1, <4>1, <4>2 DEF GrantsApart
        <4>3. CASE j = k
          <5>1. x \in granted[k] \cup {t} /\ y \in granted[k] \cup {t}
            BY <2>1, <4>1, <4>3
          <5>2. x \in Nat /\ y \in Nat /\ t \in Nat /\ Seconds \in Int /\ Ahead \in Int
            BY <2>1, <5>1, ClockAssumption
          <5>3. CASE x \in granted[k] /\ y \in granted[k]
            BY <5>3 DEF GrantsApart
          <5>4. CASE x \in granted[k] /\ y = t
            <6>1. t + Ahead >= x + Seconds
              BY <4>1, <5>4
            <6> QED BY <5>2, <5>4, <6>1
          <5>5. CASE x = t /\ y \in granted[k]
            <6>1. t + Ahead >= y + Seconds
              BY <4>1, <5>5
            <6> QED BY <5>2, <5>5, <6>1
          <5> QED BY <5>1, <5>3, <5>4, <5>5
        <4> QED BY <4>2, <4>3
      <3> QED BY <2>3, <3>1, <3>2, <3>3 DEF C!Next
    <2> QED BY <2>2, <2>3, StepIsClaim
  <1> QED BY <1>1, <1>2, Invariance, PTL DEF Spec
=============================================================================
