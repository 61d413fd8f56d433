------------------------------- MODULE Ledger -------------------------------
(***************************************************************************)
(* What the users table promises its callers: every operation happens at   *)
(* once, on the current rows, or not at all.  database.h calls deposit,    *)
(* withdraw and transfer_money atomic; AccountStore implements this with   *)
(* row locks held across several statements.                               *)
(***************************************************************************)
EXTENDS Accounts

VARIABLE acct         \* the committed rows, [Users -> Account]

Init == acct = [u \in Users |-> NewAccount]

\* An operation that passes its checks and whose rows the table can store.
Perform(op) ==
    /\ Accepts(acct[op.user], op)
    /\ Storable(NewRow(acct[op.user], op))
    /\ Storable(Apply(acct, op)[op.to])
    /\ acct' = Apply(acct, op)

Next == \E op \in Ops : Perform(op)

Spec == Init /\ [][Next]_acct
=============================================================================
