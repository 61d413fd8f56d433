---------------------------- MODULE AccountStore ----------------------------
(***************************************************************************)
(* The money operations of database/operations/user/user_operations.cpp as *)
(* the sessions of the database run them: statement by statement, on rows  *)
(* locked by SELECT ... FOR UPDATE or by UPDATE, with the values computed  *)
(* in the bot from the rows it read.  One session is one command handler   *)
(* with its pooled connection.                                             *)
(*                                                                         *)
(* pc      idle      no call in progress                                   *)
(*         select    SELECT ... FOR UPDATE of op.user sent                 *)
(*         update    row read and accepted, UPDATE of op.user sent         *)
(*         updateTo  transfer only: UPDATE of op.to sent                   *)
(*         commit    COMMIT sent                                           *)
(*         rollback  ROLLBACK sent                                         *)
(*         done      the call has its result                               *)
(***************************************************************************)
EXTENDS Accounts

CONSTANTS
    Sessions,
    NoSession,
    NoOp,          \* the operation of a session without a call
    Faults,        \* whether connections can be lost and lock waits time out
    MaxPrestige    \* bound on the prestige counter of a row

ASSUME NoSessionAssumption == NoSession \notin Sessions
ASSUME NoOpAssumption == NoOp \notin Ops
ASSUME FaultsAssumption == Faults \in BOOLEAN

VARIABLES
    acct,     \* the committed rows
    lock,     \* the session holding the row lock of a user
    pc,
    op,       \* the operation a session was called with
    staged,   \* the uncommitted values of the rows a session has written
    result,   \* what the call returns: ok, rejected (a check) or error
    applied   \* history: whether the call's effect is in the table

vars == <<acct, lock, pc, op, staged, result, applied>>

Results == {"none", "ok", "rejected", "error"}
Steps == {"idle", "select", "update", "updateTo", "commit", "rollback", "done"}

TypeOK ==
    /\ acct \in [Users -> Account]
    /\ lock \in [Users -> Sessions \cup {NoSession}]
    /\ pc \in [Sessions -> Steps]
    /\ op \in [Sessions -> Ops \cup {NoOp}]
    /\ staged \in [Sessions -> [Users -> Account]]
    /\ result \in [Sessions -> Results]
    /\ applied \in [Sessions -> BOOLEAN]

NewTable == [u \in Users |-> NewAccount]

Init ==
    /\ acct = NewTable
    /\ lock = [u \in Users |-> NoSession]
    /\ pc = [s \in Sessions |-> "idle"]
    /\ op = [s \in Sessions |-> NoOp]
    /\ staged = [s \in Sessions |-> NewTable]
    /\ result = [s \in Sessions |-> "none"]
    /\ applied = [s \in Sessions |-> FALSE]

-----------------------------------------------------------------------------
(* The row locks of InnoDB.                                                 *)

Unlocked(s) == [u \in Users |-> IF lock[u] = s THEN NoSession ELSE lock[u]]

\* The row the statement a session has sent needs to lock.
Wants(s) == IF pc[s] = "updateTo" THEN op[s].to ELSE op[s].user

\* Mutant: the SELECT is not FOR UPDATE.
CanLockAlways(s) == TRUE

CanLock(s) == lock[Wants(s)] \in {s, NoSession}

Waiting(s) == pc[s] \in {"select", "updateTo"} /\ ~CanLock(s)

\* The table as it is once the rows s holds have its values.
Written(s) == [u \in Users |-> IF lock[u] = s THEN staged[s][u] ELSE acct[u]]

-----------------------------------------------------------------------------
(* The steps of a call.                                                     *)

\* A handler calls an operation: ensure_user_exists, a connection, START
\* TRANSACTION, and the first locking statement is on its way.
Call(s, o) ==
    /\ pc[s] = "idle"
    /\ o.kind = "prestige" => acct[o.user].prestige < MaxPrestige
    /\ pc' = [pc EXCEPT ![s] = "select"]
    /\ op' = [op EXCEPT ![s] = o]
    /\ UNCHANGED <<acct, lock, staged, result, applied>>

\* The row is locked and read, and the new columns are computed or refused.
Select(s) ==
    /\ pc[s] = "select"
    /\ CanLock(s)
    /\ lock' = [lock EXCEPT ![op[s].user] = s]
    /\ LET row == acct[op[s].user]
       IN  \/ /\ Accepts(row, op[s])
              /\ staged' = [staged EXCEPT ![s] =
                              [NewTable EXCEPT ![op[s].user] = NewRow(row, op[s])]]
              /\ pc' = [pc EXCEPT ![s] = "update"]
              /\ UNCHANGED result
           \/ /\ ~Accepts(row, op[s])
              /\ pc' = [pc EXCEPT ![s] = "rollback"]
              /\ result' = [result EXCEPT ![s] = "rejected"]
              /\ UNCHANGED staged
    /\ UNCHANGED <<acct, op, applied>>

\* UPDATE of the first row.
Update(s) ==
    /\ pc[s] = "update"
    /\ \/ /\ Storable(staged[s][op[s].user])
          /\ pc' = [pc EXCEPT ![s] =
                      IF op[s].kind = "transfer" THEN "updateTo" ELSE "commit"]
          /\ UNCHANGED result
       \/ /\ ~Storable(staged[s][op[s].user])
          /\ pc' = [pc EXCEPT ![s] = "rollback"]
          /\ result' = [result EXCEPT ![s] = "error"]
    /\ UNCHANGED <<acct, lock, op, staged, applied>>

\* Mutant: the recipient's row as committed, not as this session left it.
UpdateToStale(s) ==
    /\ pc[s] = "updateTo"
    /\ CanLock(s)
    /\ lock' = [lock EXCEPT ![op[s].to] = s]
    /\ staged' = [staged EXCEPT ![s][op[s].to] = Receive(acct[op[s].to], op[s])]
    /\ pc' = [pc EXCEPT ![s] = "commit"]
    /\ UNCHANGED <<acct, op, result, applied>>

\* UPDATE of the recipient: wallet = wallet + amount on the newest row.
UpdateTo(s) ==
    /\ pc[s] = "updateTo"
    /\ CanLock(s)
    /\ lock' = [lock EXCEPT ![op[s].to] = s]
    /\ LET row == Receive(Written(s)[op[s].to], op[s])
       IN  \/ /\ Storable(row)
              /\ staged' = [staged EXCEPT ![s][op[s].to] = row]
              /\ pc' = [pc EXCEPT ![s] = "commit"]
              /\ UNCHANGED result
           \/ /\ ~Storable(row)
              /\ pc' = [pc EXCEPT ![s] = "rollback"]
              /\ result' = [result EXCEPT ![s] = "error"]
              /\ UNCHANGED staged
    /\ UNCHANGED <<acct, op, applied>>

\* The server commits: the rows are visible and unlocked.
Publish(s) ==
    /\ acct' = Written(s)
    /\ lock' = Unlocked(s)
    /\ applied' = [applied EXCEPT ![s] = (Written(s) = Apply(acct, op[s]))]

Discard(s) ==
    /\ lock' = Unlocked(s)
    /\ UNCHANGED <<acct, applied>>

Finish(s, r) ==
    /\ pc' = [pc EXCEPT ![s] = "done"]
    /\ result' = [result EXCEPT ![s] = r]
    /\ staged' = [staged EXCEPT ![s] = NewTable]
    /\ UNCHANGED op

Commit(s) == pc[s] = "commit" /\ Publish(s) /\ Finish(s, "ok")

\* Mutants: the caller is told of success after the rollback; the statement
\* is missing and the locks stay.
RollbackAsOk(s) == pc[s] = "rollback" /\ Discard(s) /\ Finish(s, "ok")

RollbackMissing(s) ==
    /\ pc[s] = "rollback"
    /\ Finish(s, result[s])
    /\ UNCHANGED <<acct, lock, applied>>

Rollback(s) == pc[s] = "rollback" /\ Discard(s) /\ Finish(s, result[s])

Return(s) ==
    /\ pc[s] = "done"
    /\ pc' = [pc EXCEPT ![s] = "idle"]
    /\ op' = [op EXCEPT ![s] = NoOp]
    /\ result' = [result EXCEPT ![s] = "none"]
    /\ applied' = [applied EXCEPT ![s] = FALSE]
    /\ UNCHANGED <<acct, lock, staged>>

-----------------------------------------------------------------------------
(* What the database and the network do to a call.                          *)

\* The sessions on a cycle of lock waits.
OnCycle(s) ==
    \E C \in SUBSET Sessions :
        /\ s \in C
        /\ \A x \in C : Waiting(x) /\ lock[Wants(x)] \in C
        /\ \A x \in C : \E y \in C : lock[Wants(y)] = x

\* InnoDB rolls back one session of the cycle; its statement fails.
Deadlock(s) == OnCycle(s) /\ Discard(s) /\ Finish(s, "error")

\* innodb_lock_wait_timeout: the statement fails and the code rolls back.
LockWaitTimeout(s) ==
    /\ Faults
    /\ Waiting(s)
    /\ pc' = [pc EXCEPT ![s] = "rollback"]
    /\ result' = [result EXCEPT ![s] = "error"]
    /\ UNCHANGED <<acct, lock, op, staged, applied>>

\* The operations whose last statement's outcome the code looks at.
ChecksCommit(o) == o.kind \in {"transfer", "prestige"}

\* The connection is lost before COMMIT: the server rolls back, and the next
\* statement tells the bot, which gives up with the result it has.
Disconnect(s) ==
    /\ Faults
    /\ pc[s] \in {"select", "update", "updateTo", "rollback"}
    /\ Discard(s)
    /\ Finish(s, IF pc[s] = "rollback" THEN result[s] ELSE "error")

\* The connection is lost around COMMIT, before or after the server ran it.
DisconnectAtCommit(s) ==
    /\ Faults
    /\ pc[s] = "commit"
    /\ Publish(s) \/ Discard(s)
    /\ Finish(s, IF ChecksCommit(op[s]) THEN "error" ELSE "ok")

\* perform_prestige does not look at its DELETEs: when one of them loses the
\* transaction, to a deadlock or with the connection, the rest runs outside it
\* and COMMIT, on the reconnected session, succeeds.
LostInDeletes(s) ==
    /\ Faults
    /\ pc[s] = "commit"
    /\ op[s].kind = "prestige"
    /\ Discard(s)
    /\ Finish(s, "ok")

-----------------------------------------------------------------------------
Step(s) ==
    \/ Select(s) \/ Update(s) \/ UpdateTo(s)
    \/ Commit(s) \/ Rollback(s) \/ Return(s)

Fault(s) ==
    \/ LockWaitTimeout(s) \/ Disconnect(s)
    \/ DisconnectAtCommit(s) \/ LostInDeletes(s)

Next ==
    \E s \in Sessions :
        \/ \E o \in Ops : Call(s, o)
        \/ Step(s)
        \/ Deadlock(s)
        \/ Fault(s)

Spec == Init /\ [][Next]_vars

\* A handler runs to its end; InnoDB grants row locks in the order they were
\* asked for, so a lock that keeps being released is granted; and it breaks
\* every deadlock.
Fairness ==
    \A s \in Sessions :
        /\ WF_vars(Update(s)) /\ WF_vars(Commit(s))
        /\ WF_vars(Rollback(s)) /\ WF_vars(Return(s))
        /\ SF_vars(Select(s)) /\ SF_vars(UpdateTo(s))
        /\ WF_vars(Deadlock(s))

FairSpec == Spec /\ Fairness

-----------------------------------------------------------------------------
(* Properties.                                                              *)

\* The balances stay in range and the bank within its limit, although no
\* check of the code looks at the sum of wallet and bank: int64_t arithmetic
\* never wraps unseen.
Solvent == \A u \in Users : Sound(acct[u])

\* While a session waits to commit, the rows it locked are still the rows it
\* computed from: its absolute UPDATE values lose nobody's change.
NoLostUpdate ==
    \A s \in Sessions : pc[s] = "commit" => Written(s) = Apply(acct, op[s])

\* A call returns ok exactly when its whole effect is in the table
\* (database.h: "returns new balance", "Atomic deposit", "Atomic transfer").
TruthfulResult ==
    \A s \in Sessions : pc[s] = "done" => (applied[s] <=> result[s] = "ok")

\* A call that returns ok has changed the table (database.h: "Perform a full
\* prestige reset: ...").
OkMeansApplied ==
    \A s \in Sessions : pc[s] = "done" /\ result[s] = "ok" => applied[s]

\* The store implements the ledger: every step is one atomic operation on the
\* current rows or changes no row.
L == INSTANCE Ledger
ImplementsLedger == L!Spec

\* Crossing transfers, queues of lock waits and rollbacks end: every call
\* gets its result.
EveryCallReturns == \A s \in Sessions : pc[s] # "idle" ~> pc[s] = "idle"
=============================================================================
