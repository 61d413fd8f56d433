---------------------------- MODULE CooldownClaim ----------------------------
(***************************************************************************)
(* try_claim_cooldown, statement by statement, as the sessions of the      *)
(* database run it: SELECT ... FOR UPDATE of a row that may not be there,  *)
(* a decision by the bot's clock, an upsert dated by the database's, and   *)
(* COMMIT.  A row that is there is locked; one that is not leaves a lock   *)
(* on the gap it would be in, which others may take too and which keeps    *)
(* all of them from inserting there.                                       *)
(*                                                                         *)
(* pc      idle      no call in progress                                   *)
(*         select    SELECT ... FOR UPDATE sent                            *)
(*         accepted  no row, or one that has run out                       *)
(*         upsert    INSERT ... ON DUPLICATE KEY UPDATE sent               *)
(*         commit    row written, COMMIT sent                              *)
(*         rollback  ROLLBACK sent                                         *)
(*         done      the call has its result                               *)
(***************************************************************************)
EXTENDS Integers

CONSTANTS
    Sessions,
    NoSession,
    Keys,        \* a user and a command
    NoKey,       \* the key of a session without a call
    Near,        \* the keys that a lock on the gap of an absent row covers
    Seconds,     \* the length of the cooldown
    Ahead,       \* how far the bot's clock is ahead of the database's
    MaxTime      \* bound on the clock

ASSUME NoSessionAssumption == NoSession \notin Sessions
ASSUME NoKeyAssumption == NoKey \notin Keys
ASSUME NearAssumption == Near \in [Keys -> SUBSET Keys] /\ \A k \in Keys : k \in Near[k]
ASSUME ClockAssumption ==
    Seconds \in Nat /\ Ahead \in Nat /\ Ahead <= Seconds /\ MaxTime \in Nat

VARIABLES
    now,
    row,        \* when the cooldown of a key is over, NoRow without a row
    lock,       \* the session that has the row locked
    pc,
    key,        \* the key a call is about
    gap,        \* the sessions that hold the lock on the gap of their key
    dated,      \* NOW() of a session's upsert
    result,
    harmed,     \* the calls a failure has hit
    granted     \* history: when each key was granted since its row was made

vars == <<now, row, lock, pc, key, gap, dated, result, harmed, granted>>

NoRow == -1

Steps == {"idle", "select", "accepted", "upsert", "commit", "rollback", "done"}

TypeOK ==
    /\ now \in 0 .. MaxTime
    /\ row \in [Keys -> Nat \cup {NoRow}]
    /\ lock \in [Keys -> Sessions \cup {NoSession}]
    /\ pc \in [Sessions -> Steps]
    /\ key \in [Sessions -> Keys \cup {NoKey}]
    /\ gap \in SUBSET Sessions
    /\ dated \in [Sessions -> 0 .. MaxTime]
    /\ result \in [Sessions -> BOOLEAN]
    /\ harmed \in SUBSET Sessions
    /\ granted \in [Keys -> SUBSET (0 .. MaxTime)]

Init ==
    /\ now = 0
    /\ row = [k \in Keys |-> NoRow]
    /\ lock = [k \in Keys |-> NoSession]
    /\ pc = [s \in Sessions |-> "idle"]
    /\ key = [s \in Sessions |-> NoKey]
    /\ gap = {}
    /\ dated = [s \in Sessions |-> 0]
    /\ result = [s \in Sessions |-> FALSE]
    /\ harmed = {}
    /\ granted = [k \in Keys |-> {}]

-----------------------------------------------------------------------------
(* The call.                                                                *)

\* ensure_user_exists, a connection, START TRANSACTION, and the SELECT is sent.
Call(s, k) ==
    /\ pc[s] = "idle"
    /\ pc' = [pc EXCEPT ![s] = "select"]
    /\ key' = [key EXCEPT ![s] = k]
    /\ UNCHANGED <<now, row, lock, gap, dated, result, harmed, granted>>

CanLock(s) == lock[key[s]] \in {s, NoSession}

\* Mutant: the SELECT is not FOR UPDATE, so an absent row locks nothing.
SelectNoneUnlocked(s) ==
    /\ pc[s] = "select" /\ CanLock(s) /\ row[key[s]] = NoRow
    /\ pc' = [pc EXCEPT ![s] = "accepted"]
    /\ UNCHANGED <<now, row, lock, key, gap, dated, result, harmed, granted>>

\* No row: the gap is locked, whoever else has locked it.
SelectNone(s) ==
    /\ pc[s] = "select" /\ CanLock(s) /\ row[key[s]] = NoRow
    /\ gap' = gap \cup {s}
    /\ pc' = [pc EXCEPT ![s] = "accepted"]
    /\ UNCHANGED <<now, row, lock, key, dated, result, harmed, granted>>

\* A row: it is locked, and judged by the bot's own clock.
SelectRow(s) ==
    /\ pc[s] = "select" /\ CanLock(s) /\ row[key[s]] # NoRow
    /\ lock' = [lock EXCEPT ![key[s]] = s]
    /\ pc' = [pc EXCEPT ![s] =
                 IF now + Ahead >= row[key[s]] THEN "accepted" ELSE "rollback"]
    /\ UNCHANGED <<now, row, key, gap, dated, result, harmed, granted>>

\* The upsert is sent; the database dates it before it waits.
Send(s) ==
    /\ pc[s] = "accepted"
    /\ pc' = [pc EXCEPT ![s] = "upsert"]
    /\ dated' = [dated EXCEPT ![s] = now]
    /\ UNCHANGED <<now, row, lock, key, gap, result, harmed, granted>>

\* The others that hold the gap s wants to insert into.
InTheWay(s) == {t \in gap \ {s} : key[s] \in Near[key[t]]}

\* An absent row is inserted when nobody else holds its gap.
CanWrite(s) ==
    CanLock(s) /\ (lock[key[s]] = s \/ row[key[s]] # NoRow \/ InTheWay(s) = {})

Upsert(s) ==
    /\ pc[s] = "upsert" /\ CanWrite(s)
    /\ lock' = [lock EXCEPT ![key[s]] = s]
    /\ pc' = [pc EXCEPT ![s] = "commit"]
    /\ UNCHANGED <<now, row, key, gap, dated, result, harmed, granted>>

\* The transaction ends: its locks are gone, the call has its result.
End(s, r) ==
    /\ lock' = [k \in Keys |-> IF lock[k] = s THEN NoSession ELSE lock[k]]
    /\ gap' = gap \ {s}
    /\ pc' = [pc EXCEPT ![s] = "done"]
    /\ dated' = [dated EXCEPT ![s] = 0]
    /\ result' = [result EXCEPT ![s] = r]
    /\ UNCHANGED <<now, key>>

Commit(s) ==
    /\ pc[s] = "commit"
    /\ row' = [row EXCEPT ![key[s]] = dated[s] + Seconds]
    /\ granted' = [granted EXCEPT ![key[s]] =
                     IF s \in harmed THEN {} ELSE @ \cup {dated[s]}]
    /\ End(s, TRUE)
    /\ UNCHANGED harmed

\* Mutant: the refusal returns without ROLLBACK, and the locks stay.
RollbackMissing(s) ==
    /\ pc[s] = "rollback"
    /\ pc' = [pc EXCEPT ![s] = "done"]
    /\ result' = [result EXCEPT ![s] = FALSE]
    /\ UNCHANGED <<now, row, lock, key, gap, dated, harmed, granted>>

Rollback(s) ==
    /\ pc[s] = "rollback"
    /\ End(s, FALSE)
    /\ UNCHANGED <<row, harmed, granted>>

Return(s) ==
    /\ pc[s] = "done"
    /\ pc' = [pc EXCEPT ![s] = "idle"]
    /\ result' = [result EXCEPT ![s] = FALSE]
    /\ key' = [key EXCEPT ![s] = NoKey]
    /\ harmed' = harmed \ {s}
    /\ UNCHANGED <<now, row, lock, gap, dated, granted>>

-----------------------------------------------------------------------------
(* What the database, the clock and other commands do.                      *)

\* The sessions that wait for one another's gaps.
OnCycle(s) ==
    \E C \in SUBSET Sessions :
        /\ s \in C
        /\ \A x \in C : pc[x] = "upsert" /\ CanLock(x) /\ ~CanWrite(x)
        /\ \A x \in C : InTheWay(x) \cap C # {}

\* InnoDB rolls one of them back; its upsert fails, and the call is refused.
Deadlock(s) ==
    /\ OnCycle(s)
    /\ End(s, FALSE)
    /\ UNCHANGED <<row, harmed, granted>>

\* The SELECT fails: a result with no rows is taken for a row that is not there.
SelectFails(s) ==
    /\ pc[s] = "select"
    /\ pc' = [pc EXCEPT ![s] = "accepted"]
    /\ harmed' = harmed \cup {s}
    /\ UNCHANGED <<now, row, lock, key, gap, dated, result, granted>>

\* The upsert waits too long, or the connection is lost.
UpsertFails(s) ==
    /\ pc[s] = "upsert"
    /\ pc' = [pc EXCEPT ![s] = "rollback"]
    /\ harmed' = harmed \cup {s}
    /\ UNCHANGED <<now, row, lock, key, gap, dated, result, granted>>

\* The connection is lost at COMMIT, and the call returns true all the same.
CommitFails(s) ==
    /\ pc[s] = "commit"
    /\ End(s, TRUE)
    /\ harmed' = harmed \cup {s}
    /\ UNCHANGED <<row, granted>>

\* set_cooldown writes the row whatever it holds, unless somebody has it locked.
SetCooldown(k) ==
    /\ lock[k] = NoSession
    /\ row[k] = NoRow => \A t \in gap : k \notin Near[key[t]]
    /\ row' = [row EXCEPT ![k] = now + Seconds]
    /\ UNCHANGED <<now, lock, pc, key, gap, dated, result, harmed, granted>>

\* The event cleanup_cooldowns deletes a row that has run out.
CleanUp(k) ==
    /\ lock[k] = NoSession /\ row[k] # NoRow /\ row[k] < now
    /\ row' = [row EXCEPT ![k] = NoRow]
    /\ UNCHANGED <<now, lock, pc, key, gap, dated, result, harmed, granted>>

\* A rebirth deletes the cooldowns of a user.
Rebirth(k) ==
    /\ lock[k] = NoSession /\ row[k] # NoRow
    /\ row' = [row EXCEPT ![k] = NoRow]
    /\ granted' = [granted EXCEPT ![k] = {}]
    /\ UNCHANGED <<now, lock, pc, key, gap, dated, result, harmed>>

Tick ==
    /\ now < MaxTime
    /\ now' = now + 1
    /\ UNCHANGED <<row, lock, pc, key, gap, dated, result, harmed, granted>>

-----------------------------------------------------------------------------
Step(s) ==
    \/ SelectNone(s) \/ SelectRow(s) \/ Send(s) \/ Upsert(s)
    \/ Commit(s) \/ Rollback(s) \/ Return(s)

Fault(s) == SelectFails(s) \/ UpsertFails(s) \/ CommitFails(s)

Elsewhere(k) == SetCooldown(k) \/ CleanUp(k) \/ Rebirth(k)

Next ==
    \/ \E s \in Sessions :
          \/ \E k \in Keys : Call(s, k)
          \/ Step(s)
          \/ Deadlock(s)
          \/ Fault(s)
    \/ \E k \in Keys : Elsewhere(k)
    \/ Tick

Spec == Init /\ [][Next]_vars

-----------------------------------------------------------------------------
(* Properties.                                                              *)

\* A claim that no failure has hit is granted at once or refused, and never
\* before the one granted before it for that user and command is over, less what
\* the bot's clock is ahead: of claims that race for a row that is not there yet
\* one at most is granted.
Told == {s \in Sessions : pc[s] = "done" /\ result[s] /\ s \notin harmed}
C == INSTANCE Claims WITH Moments <- 0 .. MaxTime, granted <- granted, told <- Told
ImplementsClaims == C!Spec

Moves(s) ==
    \/ pc[s] \in {"accepted", "commit", "rollback", "done"}
    \/ pc[s] = "select" /\ CanLock(s)
    \/ pc[s] = "upsert" /\ CanWrite(s)

\* However many sessions hold one gap and want to insert into it, one of them can
\* go on or is on a cycle InnoDB breaks: no set of claims waits for itself unseen.
NobodyStuck ==
    (\E s \in Sessions : pc[s] # "idle") =>
        \E s \in Sessions : pc[s] # "idle" /\ (Moves(s) \/ OnCycle(s))
=============================================================================
