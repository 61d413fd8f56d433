------------------------------ MODULE Accounts ------------------------------
(***************************************************************************)
(* The rows of the users table and what each money operation of            *)
(* bronx::db::Database computes on them.  A row keeps the four columns the *)
(* operations read or write; ensure_user_exists inserts a missing row with *)
(* the column defaults before every operation, so a row that does not      *)
(* exist yet is the row NewAccount.                                        *)
(***************************************************************************)
EXTENDS Integers

CONSTANTS
    Users,         \* the user ids
    Kinds,         \* the operations the callers use
    Amounts,       \* the positive sums the callers move
    Limits,        \* the bank limits the callers ask for
    DefaultLimit,  \* users.bank_limit DEFAULT 10000
    MaxBalance     \* 2^63 - 1, the largest int64_t and BIGINT

ASSUME AmountsAssumption == Amounts \subseteq 1 .. MaxBalance
ASSUME LimitsAssumption  == Limits \subseteq 0 .. MaxBalance
ASSUME MaxBalanceAssumption == MaxBalance \in Nat
ASSUME DefaultLimitAssumption == DefaultLimit \in 0 .. MaxBalance

Int64 == -(MaxBalance + 1) .. MaxBalance

Account == [wallet: Int64, bank: Int64, limit: Int64, prestige: Nat]

NewAccount == [wallet |-> 0, bank |-> 0, limit |-> DefaultLimit, prestige |-> 0]

\* The sum of two int64_t values as the compiled code computes it.
Wrap(n) ==
    IF n > MaxBalance THEN n - 2 * (MaxBalance + 1)
    ELSE IF n < -(MaxBalance + 1) THEN n + 2 * (MaxBalance + 1)
    ELSE n

-----------------------------------------------------------------------------
(* Operations: a kind, the row it locks first, the row it locks second (the *)
(* recipient of a transfer; elsewhere the same row) and its amount.         *)

OwnRow(kinds, amounts) ==
    {[kind |-> k, user |-> u, to |-> u, amount |-> n] :
        k \in kinds, u \in Users, n \in amounts}

Signed == Amounts \cup {-n : n \in Amounts}

Transfers ==
    {[kind |-> "transfer", user |-> u, to |-> v, amount |-> n] :
        u \in Users, v \in Users, n \in Amounts}

AllOps == OwnRow({"wallet", "bank"}, Signed)
          \cup OwnRow({"limit"}, Limits)
          \cup OwnRow({"deposit", "withdraw"}, Amounts)
          \cup OwnRow({"prestige"}, {0})
          \cup Transfers

Ops == {o \in AllOps : o.kind \in Kinds}

(* Each operation on the row it has locked and read: whether its checks     *)
(* pass, and the row it then writes.                                        *)

Outcome(ok, row) == [ok |-> ok, row |-> row]

UpdateWallet(a, n) ==
    LET w == Wrap(a.wallet + n)
    IN  Outcome(w >= 0, [a EXCEPT !.wallet = w])

UpdateBank(a, n) ==
    LET b == Wrap(a.bank + n)
    IN  Outcome(b >= 0 /\ b <= a.limit, [a EXCEPT !.bank = b])

\* Mutant: the limit is written without comparing it with the bank.
UpdateBankLimitUnchecked(a, n) == Outcome(TRUE, [a EXCEPT !.limit = n])

UpdateBankLimit(a, n) == Outcome(n >= a.bank, [a EXCEPT !.limit = n])

Deposit(a, n) ==
    LET w == Wrap(a.wallet - n)
        b == Wrap(a.bank + n)
    IN  Outcome(w >= 0 /\ b <= a.limit, [a EXCEPT !.wallet = w, !.bank = b])

Withdraw(a, n) ==
    Outcome(a.bank >= n, [a EXCEPT !.wallet = Wrap(@ + n), !.bank = Wrap(@ - n)])

\* The sender's side of sp_transfer_money.
Send(a, n) == Outcome(a.wallet >= n, [a EXCEPT !.wallet = @ - n])

PerformPrestige(a) ==
    Outcome(TRUE, [a EXCEPT !.wallet = 0, !.bank = 0, !.prestige = @ + 1])

OutcomeOf(a, op) ==
    CASE op.kind = "wallet"   -> UpdateWallet(a, op.amount)
      [] op.kind = "bank"     -> UpdateBank(a, op.amount)
      [] op.kind = "limit"    -> UpdateBankLimit(a, op.amount)
      [] op.kind = "deposit"  -> Deposit(a, op.amount)
      [] op.kind = "withdraw" -> Withdraw(a, op.amount)
      [] op.kind = "transfer" -> Send(a, op.amount)
      [] op.kind = "prestige" -> PerformPrestige(a)

\* The checks made on the locked row, and the row written when they pass.
Accepts(a, op) == OutcomeOf(a, op).ok
NewRow(a, op) == OutcomeOf(a, op).row

\* The second row of a transfer; the other operations have none.
Receive(a, op) ==
    IF op.kind = "transfer" THEN [a EXCEPT !.wallet = @ + op.amount] ELSE a

\* Mutant: a table without the generated column.
StorableAlways(a) == TRUE

\* networth BIGINT AS (wallet + bank) STORED: an UPDATE whose sum leaves the
\* BIGINT range is an error.
Storable(a) == a.wallet + a.bank \in Int64

\* Every row of a table after the operation: the first row, then the second.
Apply(rows, op) ==
    LET first == [rows EXCEPT ![op.user] = NewRow(@, op)]
    IN  [first EXCEPT ![op.to] = Receive(@, op)]

\* What the checks and the column types must add up to.
Sound(a) ==
    /\ a.wallet >= 0
    /\ a.bank >= 0
    /\ a.bank <= a.limit
    /\ a.wallet + a.bank <= MaxBalance
=============================================================================
