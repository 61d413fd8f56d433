----------------------- MODULE AccountStoreReconnect -----------------------
(***************************************************************************)
(* AccountStore with the one fault it leaves out.  Pooled connections are  *)
(* opened with MYSQL_OPT_RECONNECT and five operations do not look at the  *)
(* outcome of START TRANSACTION: when the connection turns out to be dead  *)
(* there, the client library opens a new one for the next statement, and   *)
(* the rest of the call runs without a transaction.  Each statement then   *)
(* commits by itself, and SELECT ... FOR UPDATE keeps no lock.             *)
(***************************************************************************)
EXTENDS AccountStore

VARIABLE bare        \* the sessions whose call runs without a transaction

varsR == <<vars, bare>>

InitR == Init /\ bare = {}

\* perform_prestige returns at once; sp_transfer_money runs in the server.
ChecksStart(o) == o.kind \in {"transfer", "prestige"}

LoseStart(s) ==
    /\ Faults
    /\ pc[s] = "select"
    /\ ~ChecksStart(op[s])
    /\ bare' = bare \cup {s}
    /\ UNCHANGED vars

\* The row is read, after waiting for its lock, and stays unlocked.
BareSelect(s) ==
    LET row == acct[op[s].user]
    IN  /\ s \in bare
        /\ pc[s] = "select"
        /\ lock[op[s].user] = NoSession
        /\ \/ /\ Accepts(row, op[s])
              /\ staged' = [staged EXCEPT ![s][op[s].user] = NewRow(row, op[s])]
              /\ pc' = [pc EXCEPT ![s] = "update"]
              /\ UNCHANGED result
           \/ /\ ~Accepts(row, op[s])
              /\ pc' = [pc EXCEPT ![s] = "rollback"]
              /\ result' = [result EXCEPT ![s] = "rejected"]
              /\ UNCHANGED staged
        /\ UNCHANGED <<acct, lock, op, applied, bare>>

\* The columns an operation's UPDATE sets, from the row it computed.
SetColumns(row, new, o) ==
    CASE o.kind = "wallet" -> [row EXCEPT !.wallet = new.wallet]
      [] o.kind = "bank"   -> [row EXCEPT !.bank = new.bank]
      [] o.kind = "limit"  -> [row EXCEPT !.limit = new.limit]
      [] OTHER -> [row EXCEPT !.wallet = new.wallet, !.bank = new.bank]

\* The UPDATE commits by itself; the COMMIT after it has nothing to do.
BareUpdate(s) ==
    LET row == SetColumns(acct[op[s].user], staged[s][op[s].user], op[s])
    IN  /\ s \in bare
        /\ pc[s] = "update"
        /\ lock[op[s].user] = NoSession
        /\ \/ /\ Storable(row)
              /\ acct' = [acct EXCEPT ![op[s].user] = row]
              /\ applied' = [applied EXCEPT ![s] = (acct' = Apply(acct, op[s]))]
              /\ Finish(s, "ok")
           \/ /\ ~Storable(row)
              /\ Finish(s, "error")
              /\ UNCHANGED <<acct, applied>>
        /\ UNCHANGED <<lock, bare>>

-----------------------------------------------------------------------------
NextR ==
    \E s \in Sessions :
        \/ LoseStart(s) \/ BareSelect(s) \/ BareUpdate(s)
        \/ /\ \/ \E o \in Ops : Call(s, o)
              \/ s \notin bare /\ (Select(s) \/ Update(s) \/ UpdateTo(s) \/ Commit(s))
              \/ s \notin bare /\ (Fault(s) \/ Deadlock(s))
              \/ Rollback(s)
           /\ UNCHANGED bare
        \/ Return(s) /\ bare' = bare \ {s}

SpecR == InitR /\ [][NextR]_varsR

-----------------------------------------------------------------------------
(* Properties.                                                              *)

\* Even a call that has lost its transaction leaves both balances in range:
\* it writes only values its checks have accepted, at whatever moment.
NeverNegative ==
    \A u \in Users :
        /\ acct[u].wallet >= 0
        /\ acct[u].bank >= 0
        /\ acct[u].wallet + acct[u].bank <= MaxBalance

\* The lost transaction harms nobody else's call: whatever is not one
\* operation on the current rows is the UPDATE of a call without one.
OnlyBareDiffer == [][L!Next \/ \E s \in bare : BareUpdate(s)]_acct

\* user_operations.cpp:342 "Get current balance with lock", database.h:54
\* "Atomic deposit from wallet into bank": every step of the table is one
\* operation on its current rows.
StillLedger == ImplementsLedger
=============================================================================
